-------------------------- MODULE Provisioning_proofs --------------------------
(***************************************************************************)
(* Theorems of Transcripter and of Provisioning, for any assets, batches,   *)
(* numbers of jobs, workers and restarts: no worker idles, the registry      *)
(* follows the jobs, transcripts outlive the prunes, and the cache of       *)
(* provisioning is never empty.                                             *)
(***************************************************************************)
EXTENDS Provisioning, FiniteSetTheorems, TLAPS

Active == Running \cup {"failed", "canceled"}

\* How far the work on job k is, and what of k may then be where.
JobOK(k) ==
  /\ call[k] = "none" => Status(k) \in {"new", "queued", "canceled", "gone"}
  /\ call[k] \in Child => /\ Status(k) \in Active /\ job[k].purpose # "spanish"
                          /\ k \in procs \cup killed
  /\ call[k] = "translate" => Status(k) \in Active /\ job[k].purpose = "spanish"
  /\ call[k] = "meta" => Status(k) = "done" /\ ~IsSidecar(k)
  /\ call[k] = "over" => Status(k) \in Running \cup Terminal \cup {"gone"}
  /\ k \in procs => call[k] \in Child \cup {"meta"}
  /\ k \in trans => call[k] \in {"translate", "meta"}
  /\ k \in killed => call[k] \in Child
  /\ call[k] = "meta" \/ (call[k] = "words" /\ k \notin killed) => k \in files
  /\ k \in metas \cup listing \/ todo[k] # {} => call[k] = "over" /\ ~IsSidecar(k)
  /\ k \notin todo[k]

JobsOK == \A k \in Ids : JobOK(k)

Slots == lowest <= workers /\ NoIdleWorker

\* A record names a job of its own asset and language.
EntryJob ==
  \A a \in Assets, l \in Langs :
    LET k == entry[a][l].job
    IN k \in Ids => Status(k) # "new" /\ AssetOf(k) = a /\ LangOf(k) = l /\ ~IsSidecar(k)

Records == EntryJob /\ RecordFollowsJob

Later(i, k) == i < k /\ Status(k) # "new" /\ Rivals(i, k)

\* Jobs are numbered as they come.
InOrder == \A i, k \in Ids : i < k /\ Status(i) = "new" => Status(k) = "new"

\* A job queued while an earlier one of its asset and language was unsettled was seen to be.
Overlaps == \A i, k \in Ids : Later(i, k) /\ Unsettled(i) => {i, k} \subseteq overlapped

\* A record says done of the last job of its asset and language.
Latest ==
  \A a \in Assets \ removed, l \in Langs :
    LET e == entry[a][l]
    IN e.status = "done" /\ e.job \notin overlapped => \A k \in Ids : ~Later(e.job, k)

TInv == TypeOK /\ JobsOK /\ Slots /\ Records /\ InOrder /\ Overlaps /\ Latest /\ TranscriptIsThere

\* A call under way has assets to do; what it waits for, and what the marker names, is a
\* sidecar.
CallsOK == \A p \in Provisions :
  /\ prov[p].pc # "idle" => prov[p].rest # <<>>
  /\ prov[p].pc = "waiting" =>
       /\ prov[p].sidecar \in Ids /\ IsSidecar(prov[p].sidecar)
       /\ Status(prov[p].sidecar) # "new"

MarkerOK == \A a \in Assets : marker[a] # NoJob =>
              /\ marker[a] \in files /\ IsSidecar(marker[a])
              /\ Status(marker[a]) \in {"done", "gone"}

PInv == TInv /\ ProvTypeOK /\ CallsOK /\ MarkerOK
-----------------------------------------------------------------------------
(* Types *)

LEMMA IdsFinite == IsFiniteSet(Ids) /\ Ids \subseteq Nat \ {NoJob}
<1>1. MaxJobs \in Nat
  BY TranscripterAssumption
<1>2. IsFiniteSet(1..MaxJobs)
  BY <1>1, FS_Interval
<1>3. QED BY <1>1, <1>2 DEF Ids, NoJob

LEMMA CountIs == \A S \in SUBSET Ids : IsFiniteSet(S) /\ Cardinality(S) \in Nat
  BY IdsFinite, FS_Subset, FS_CardinalityType

\* The runner takes job i: it starts it, or finds that there is nothing to translate.
Starts(i) ==
  /\ Status(i) = "queued" /\ Cardinality(Busy) < workers
  /\ StartWhisper(i) \/ StartTranslation(i) \/ NothingToTranslate(i)

\* What StartNext and the lack of a job do to the queue.
LEMMA RunnerIs ==
  ASSUME TypeOK, ProcessNext
  PROVE  /\ wakes > 0
         /\ UNCHANGED <<killed, workers, disk, prunes, removed, restarts, ghosts>>
         /\ NothingToStart \/ \E i \in Ids : Starts(i)
  BY DEF ProcessNext, StartNext, Queued, Starts

\* The record of an asset after the callbacks of job i.
LEMMA RecordedIs ==
  ASSUME TypeOK, NEW i \in Ids, NEW s
  PROVE  Recorded(i, s) \in [Assets -> [Langs -> EntryType]]
<1>1. AssetOf(i) \in Assets /\ LangOf(i) \in Langs
  BY DEF TypeOK, JobType, AssetOf, LangOf, Lang, Langs
<1>2. [status |-> IF s = "done" THEN "done" ELSE "failed", job |-> i] \in EntryType
  BY DEF EntryType
<1>3. QED BY <1>1, <1>2 DEF Recorded, TypeOK

LEMMA StatusTyped ==
  ASSUME TypeOK, NEW i \in Ids, NEW s \in Live \cup Terminal \cup {"new", "gone"}
  PROVE  [job EXCEPT ![i].status = s] \in [Ids -> JobType]
  BY DEF TypeOK, JobType

\* A step that gives some jobs another status and leaves the rest.
LEMMA StatusesTyped ==
  ASSUME TypeOK, NEW S \in SUBSET Ids, NEW s \in Live \cup Terminal \cup {"gone"},
         job' = [i \in Ids |-> IF i \in S THEN [job[i] EXCEPT !.status = s] ELSE job[i]]
  PROVE  job' \in [Ids -> JobType]
<1>1. \A i \in Ids : job[i] \in JobType /\ [job[i] EXCEPT !.status = s] \in JobType
  BY DEF TypeOK, JobType
<1>2. QED BY <1>1

LEMMA RankIs == ASSUME TypeOK PROVE Cardinality({k \in Ids : stamp[k] > 0}) + 1 \in Nat
<1>1. {k \in Ids : stamp[k] > 0} \in SUBSET Ids
  OBVIOUS
<1>2. QED BY <1>1, CountIs

LEMMA PutTyped ==
  ASSUME TypeOK, NEW a \in Assets, NEW l \in Langs, NEW e \in EntryType
  PROVE  [entry EXCEPT ![a][l] = e] \in [Assets -> [Langs -> EntryType]]
  BY DEF TypeOK

LEMMA AgainTyped ==
  ASSUME TypeOK, NEW a \in Assets, NEW l \in Langs
  PROVE  [entry EXCEPT ![a][l].status = "queued"] \in [Assets -> [Langs -> EntryType]]
<1>1. entry[a][l] \in EntryType
  BY DEF TypeOK
<1>2. [entry[a][l] EXCEPT !.status = "queued"] \in EntryType
  BY <1>1 DEF EntryType
<1>3. [entry EXCEPT ![a][l].status = "queued"] = [entry EXCEPT ![a][l] = [entry[a][l] EXCEPT !.status = "queued"]]
  BY DEF TypeOK
<1>4. QED BY <1>2, <1>3, PutTyped

LEMMA FailTyped ==
  ASSUME TypeOK, NEW i \in Ids, FailNow(i) \/ CatchError(i)
  PROVE  job' \in [Ids -> JobType] /\ entry' \in [Assets -> [Langs -> EntryType]] /\ fired' \subseteq Ids
<1>1. CASE FailNow(i)
  BY <1>1, StatusTyped, RecordedIs DEF FailNow, Fire, SetStatus, TypeOK, Terminal
<1>2. CASE UNCHANGED <<job, fired, entry>>
  BY <1>2 DEF TypeOK
<1>3. QED BY <1>1, <1>2 DEF CatchError

LEMMA LeaveTyped ==
  ASSUME TypeOK, NEW i \in Ids, Leave(i)
  PROVE  procs' \subseteq Ids /\ trans' \subseteq Ids /\ wakes' \in Nat
  BY DEF TypeOK, Leave

LEMMA EnqueueTyped ==
  ASSUME TypeOK, NEW i \in Ids, NEW a \in Assets, NEW p \in Purposes, Enqueue(i, a, p),
         entry' \in [Assets -> [Langs -> EntryType]]
  PROVE  TypeOK'
<1>1. job' \in [Ids -> JobType]
  BY DEF Enqueue, TypeOK, JobType, Live
<1>2. wakes' \in Nat
  BY DEF Enqueue, WakeOnEnqueue, TypeOK
<1>3. overlapped' \subseteq Ids
  BY DEF Enqueue, TypeOK
<1>4. QED BY <1>1, <1>2, <1>3 DEF Enqueue, TypeOK, disk, prunes

LEMMA TypesStep ==
  ASSUME TypeOK, [Next]_vars
  PROVE  TypeOK'
<1>1. ASSUME NEW i \in Ids, NEW a \in Assets, NEW p \in Purposes, Request(i, a, p)
      PROVE  TypeOK'
  <2>1. Lang(p) \in Langs /\ [status |-> "queued", job |-> i] \in EntryType
    BY DEF Lang, Langs, EntryType
  <2>2. QED BY <1>1, <2>1, PutTyped, EnqueueTyped DEF Request
<1>2. ASSUME NEW i \in Ids, NEW k \in Ids, Retry(i, k)
      PROVE  TypeOK'
  <2>1. AssetOf(k) \in Assets /\ job[k].purpose \in Purposes /\ LangOf(k) \in Langs
    BY DEF TypeOK, JobType, AssetOf, LangOf, Lang, Langs
  <2>2. entry' \in [Assets -> [Langs -> EntryType]]
    BY <1>2, <2>1, AgainTyped DEF Retry, TypeOK
  <2>3. QED BY <1>2, <2>1, <2>2, EnqueueTyped DEF Retry
<1>3. ASSUME NEW i \in Ids, NEW a \in Assets, EnqueueSidecar(i, a)
      PROVE  TypeOK'
  BY <1>3, EnqueueTyped DEF EnqueueSidecar, Purposes, TypeOK
<1>4. CASE ProcessNext
  <2>1. CASE NothingToStart
    BY <1>4, <2>1, RunnerIs DEF NothingToStart, TypeOK, disk, prunes, ghosts
  <2>2. CASE \E i \in Ids : StartWhisper(i)
    <3>1. PICK i \in Ids : StartWhisper(i)
      BY <2>2
    <3>2. job' \in [Ids -> JobType]
      BY <3>1, StatusTyped DEF StartWhisper, SetStatus, Live, Running
    <3>3. wakes' \in Nat
      BY <1>4, <3>1, RunnerIs DEF StartWhisper, TypeOK
    <3>4. call' \in [Ids -> Calls] /\ procs' \subseteq Ids /\ trans' \subseteq Ids
      BY <3>1 DEF StartWhisper, TypeOK, Calls, Child
    <3>5. UNCHANGED <<killed, workers, disk, prunes, removed, restarts, ghosts>>
      BY <1>4, RunnerIs
    <3>6. QED BY <3>1, <3>2, <3>3, <3>4, <3>5 DEF StartWhisper, TypeOK, disk, prunes, ghosts
  <2>3. CASE \E i \in Ids : StartTranslation(i)
    <3>1. PICK i \in Ids : StartTranslation(i)
      BY <2>3
    <3>2. job' \in [Ids -> JobType]
      BY <3>1, StatusTyped DEF StartTranslation, SetStatus, Live, Running
    <3>3. wakes' \in Nat
      BY <1>4, <3>1, RunnerIs DEF StartTranslation, TypeOK
    <3>4. call' \in [Ids -> Calls] /\ procs' \subseteq Ids /\ trans' \subseteq Ids
      BY <3>1 DEF StartTranslation, TypeOK, Calls
    <3>5. UNCHANGED <<killed, workers, disk, prunes, removed, restarts, ghosts>>
      BY <1>4, RunnerIs
    <3>6. QED BY <3>1, <3>2, <3>3, <3>4, <3>5 DEF StartTranslation, TypeOK, disk, prunes, ghosts
  <2>4. CASE \E i \in Ids : NothingToTranslate(i)
    BY <1>4, <2>4, RunnerIs, FailTyped DEF NothingToTranslate, TypeOK, Calls, disk, prunes, ghosts
  <2>5. QED BY <1>4, <2>1, <2>2, <2>3, <2>4, RunnerIs DEF Starts
<1>5. ASSUME NEW i \in Ids, AudioDone(i)
      PROVE  TypeOK'
  BY StatusTyped, <1>5 DEF AudioDone, SetStatus, Untouched, TypeOK, Status, disk, prunes, ghosts, Live, Terminal, Running, Calls, Child
<1>6. ASSUME NEW i \in Ids, WhisperDone(i)
      PROVE  TypeOK'
  BY <1>6 DEF WhisperDone, Untouched, TypeOK, Status, disk, prunes, ghosts, Calls, Child
<1>7. ASSUME NEW i \in Ids, Result(i)
      PROVE  TypeOK'
  <2>1. job' \in [Ids -> JobType] /\ stamp' \in [Ids -> Nat] /\ call' \in [Ids -> Calls]
    BY <1>7, StatusTyped, RankIs DEF Result, SetStatus, Terminal, TypeOK, Calls
  <2>2. /\ procs' \subseteq Ids /\ trans' \subseteq Ids /\ wakes' \in Nat
        /\ fired' \subseteq Ids /\ entry' \in [Assets -> [Langs -> EntryType]]
    BY <1>7, LeaveTyped, RecordedIs DEF Result, Fire, TypeOK
  <2>3. QED BY <1>7, <2>1, <2>2 DEF Result, Untouched, TypeOK, prunes, ghosts
<1>8. ASSUME NEW i \in Ids, ChildFails(i)
      PROVE  TypeOK'
  BY <1>8, FailTyped, LeaveTyped DEF ChildFails, Untouched, TypeOK, Calls, disk, prunes, ghosts
<1>9. ASSUME NEW i \in Ids, Exit(i)
      PROVE  TypeOK'
  BY <1>9 DEF Exit, Untouched, TypeOK, Status, disk, prunes, ghosts, Calls, Child
<1>10. ASSUME NEW i \in Ids, Translated(i)
      PROVE  TypeOK'
  BY StatusTyped, RankIs, <1>10 DEF Translated, SetStatus, Untouched, TypeOK, Status, disk, prunes, ghosts, Live, Terminal, Running, Calls, Child
<1>11. ASSUME NEW i \in Ids, TranslationFails(i)
      PROVE  TypeOK'
  BY <1>11, FailTyped, LeaveTyped DEF TranslationFails, Untouched, TypeOK, Calls, disk, prunes, ghosts
<1>12. ASSUME NEW i \in Ids, MetaWritten(i)
      PROVE  TypeOK'
  BY RecordedIs, <1>12 DEF MetaWritten, Leave, Fire, TypeOK, Status, disk, prunes, ghosts, Calls, Child
<1>13. ASSUME NEW i \in Ids, Timeout(i)
      PROVE  TypeOK'
  BY <1>13, FailTyped, LeaveTyped DEF Timeout, Untouched, TypeOK, Calls, disk, prunes, ghosts
<1>14. ASSUME NEW i \in Ids, Progress(i)
      PROVE  TypeOK'
  BY StatusTyped, <1>14 DEF Progress, SetStatus, Phase, Untouched, TypeOK, Status, disk, prunes, ghosts, Live, Terminal, Running, Calls, Child
<1>15. ASSUME NEW i \in Ids, PruneLists(i)
      PROVE  TypeOK'
  BY <1>15 DEF PruneLists, OnlyPrunes, TypeOK, Status, disk, prunes, ghosts, Calls, Child
<1>16. ASSUME NEW i \in Ids, NEW k \in Ids, PruneOne(i, k)
      PROVE  TypeOK'
  BY <1>16 DEF PruneOne, OnlyPrunes, TypeOK, Status, disk, prunes, ghosts, Calls, Child
<1>17. ASSUME NEW i \in Ids, Cancel(i)
      PROVE  TypeOK'
  BY StatusTyped, <1>17 DEF Cancel, SetStatus, TypeOK, Status, disk, prunes, ghosts, Live, Terminal, Running, Calls, Child
<1>18. ASSUME NEW i \in Ids, AutoFail(i)
      PROVE  TypeOK'
  BY RecordedIs, StatusTyped, <1>18 DEF AutoFail, FailNow, SetStatus, Fire, Untouched, TypeOK, Status, disk, prunes, ghosts, Live, Terminal, Running, Calls, Child
<1>19. ASSUME NEW a \in Assets, DeleteAsset(a)
      PROVE  TypeOK'
  <2> DEFINE live == {i \in Ids : AssetOf(i) = a /\ Status(i) \in Live}
  <2>1. live \in SUBSET Ids /\ "canceled" \in Terminal
    BY DEF Terminal
  <2>3. job' = [i \in Ids |-> IF i \in live THEN [job[i] EXCEPT !.status = "canceled"] ELSE job[i]]
    BY <1>19 DEF DeleteAsset
  <2>4. job' \in [Ids -> JobType]
    BY <2>1, <2>3, StatusesTyped
  <2>5. QED BY <1>19, <2>4 DEF DeleteAsset, TypeOK, prunes
<1>20. ASSUME NEW S \in SUBSET metas, DeleteTranscripts(S)
      PROVE  TypeOK'
  BY <1>20 DEF DeleteTranscripts, OnlyDeletes, TypeOK, Status, disk, prunes, ghosts, Calls, Child
<1>21. ASSUME ClearDuplicates
      PROVE  TypeOK'
  BY <1>21 DEF ClearDuplicates, OnlyDeletes, TypeOK, Status, disk, prunes, ghosts, Calls, Child
<1>22. ASSUME NEW n \in 1..MaxWorkers, SetWorkers(n)
      PROVE  TypeOK'
  BY <1>22 DEF SetWorkers, Min2, TypeOK, disk, prunes, ghosts
<1>23. CASE Restart
  <2> DEFINE ended == {i \in Ids : Status(i) # "new"}
  <2>4. ended \in SUBSET Ids
    OBVIOUS
  <2>5. job' = [i \in Ids |-> IF i \in ended THEN [job[i] EXCEPT !.status = "gone"] ELSE job[i]]
    BY <1>23 DEF Restart
  <2>1. job' \in [Ids -> JobType]
    BY <2>4, <2>5, StatusesTyped
  <2>2. call' \in [Ids -> Calls] /\ todo' \in [Ids -> SUBSET Ids] /\ restarts' \in Nat
    BY <1>23 DEF Restart, TypeOK, Calls
  <2>3. QED BY <1>23, <2>1, <2>2 DEF Restart, TypeOK, disk, ghosts
<1>24. CASE UNCHANGED vars
  BY <1>24 DEF vars, TypeOK, disk, prunes, ghosts
<1>25. QED BY <1>1, <1>2, <1>3, <1>4, <1>5, <1>6, <1>7, <1>8, <1>9, <1>10, <1>11, <1>12, <1>13, <1>14, <1>15, <1>16, <1>17, <1>18, <1>19, <1>20, <1>21, <1>22, <1>23, <1>24 DEF Next, OwnStep, JobStep, WorkerStep, UserStep
\* A job that fails, or was canceled and stays so.
LEMMA FailIs ==
  ASSUME TypeOK, NEW i \in Ids, FailNow(i) \/ CatchError(i)
  PROVE  /\ \A x \in Ids : x # i => job'[x] = job[x]
         /\ job'[i].asset = job[i].asset /\ job'[i].purpose = job[i].purpose
         /\ \/ job'[i].status = "failed" /\ entry' = Recorded(i, "failed")
            \/ job'[i].status = "canceled" /\ Status(i) = "canceled" /\ UNCHANGED <<job, entry, fired>>
<1>1. CASE FailNow(i)
  BY <1>1 DEF FailNow, Fire, SetStatus, TypeOK, JobType
<1>2. CASE Status(i) = "canceled" /\ UNCHANGED <<job, fired, entry>>
  BY <1>2 DEF Status
<1>3. QED BY <1>1, <1>2 DEF CatchError

-----------------------------------------------------------------------------
(* The work on a job *)

LEMMA JobsStep ==
  ASSUME TypeOK, JobsOK, [Next]_vars
  PROVE  JobsOK'
<1> SUFFICES ASSUME NEW x \in Ids
             PROVE  JobOK(x)'
  BY DEF JobsOK
<1> USE DEF JobOK, Status, IsSidecar
<1>0. JobOK(x) /\ call[x] \in Calls
  BY DEF JobsOK, TypeOK
<1>1. ASSUME NEW i \in Ids, NEW a \in Assets, NEW p \in Purposes, Request(i, a, p)
      PROVE  JobOK(x)'
  BY <1>0, <1>1 DEF Request, Enqueue, IsNextId, TypeOK, Active, Running, Terminal, Child, disk, prunes, Calls
<1>2. ASSUME NEW i \in Ids, NEW k \in Ids, Retry(i, k)
      PROVE  JobOK(x)'
  BY <1>0, <1>2 DEF Retry, Enqueue, IsNextId, TypeOK, Active, Running, Terminal, Child, disk, prunes, Calls
<1>3. ASSUME NEW i \in Ids, NEW a \in Assets, EnqueueSidecar(i, a)
      PROVE  JobOK(x)'
  BY <1>0, <1>3 DEF EnqueueSidecar, Enqueue, IsNextId, TypeOK, Active, Running, Terminal, Child, disk, prunes, Calls
<1>4. CASE ProcessNext
  <2>1. CASE NothingToStart
    BY <1>0, <1>4, <2>1, RunnerIs DEF NothingToStart, TypeOK, disk, prunes
  <2>2. CASE \E i \in Ids : Starts(i)
    <3>1. PICK i \in Ids : Starts(i)
      BY <2>2
    <3>2. UNCHANGED <<killed, disk, prunes>>
      BY <1>4, RunnerIs
    <3>3. CASE StartWhisper(i)
      BY <1>0, <3>1, <3>2, <3>3 DEF Starts, StartWhisper, SetStatus, TypeOK, Active, Running, Terminal, Child, Calls, disk, prunes
    <3>4. CASE StartTranslation(i)
      BY <1>0, <3>1, <3>2, <3>4 DEF Starts, StartTranslation, SetStatus, TypeOK, Active, Running, Terminal, Child, Calls, disk, prunes
    <3>5. CASE NothingToTranslate(i)
      BY <1>0, <3>1, <3>2, <3>5, FailIs DEF Starts, NothingToTranslate, TypeOK, Active, Running, Terminal, Child, Calls, disk, prunes
    <3>6. QED BY <3>1, <3>3, <3>4, <3>5 DEF Starts
  <2>3. QED BY <1>4, <2>1, <2>2, RunnerIs
<1>5. ASSUME NEW i \in Ids, AudioDone(i)
      PROVE  JobOK(x)'
  BY <1>0, <1>5 DEF AudioDone, SetStatus, Untouched, TypeOK, Active, Running, Terminal, Child, disk, prunes
<1>6. ASSUME NEW i \in Ids, WhisperDone(i)
      PROVE  JobOK(x)'
  BY <1>0, <1>6 DEF WhisperDone, Untouched, TypeOK, Active, Running, Terminal, Child, disk, prunes
<1>7. ASSUME NEW i \in Ids, Result(i)
      PROVE  JobOK(x)'
  BY <1>0, <1>7 DEF Result, SetStatus, Leave, Untouched, TypeOK, Active, Running, Terminal, Child, disk, prunes
<1>8. ASSUME NEW i \in Ids, ChildFails(i)
      PROVE  JobOK(x)'
  BY <1>0, FailIs, <1>8 DEF ChildFails, Leave, Untouched, TypeOK, Active, Running, Terminal, Child, disk, prunes
<1>9. ASSUME NEW i \in Ids, Exit(i)
      PROVE  JobOK(x)'
  BY <1>0, <1>9 DEF Exit, Untouched, TypeOK, Active, Running, Terminal, Child, disk, prunes
<1>10. ASSUME NEW i \in Ids, Translated(i)
      PROVE  JobOK(x)'
  BY <1>0, <1>10 DEF Translated, SetStatus, Untouched, TypeOK, Active, Running, Terminal, Child, disk, prunes
<1>11. ASSUME NEW i \in Ids, TranslationFails(i)
      PROVE  JobOK(x)'
  BY <1>0, FailIs, <1>11 DEF TranslationFails, Leave, Untouched, TypeOK, Active, Running, Terminal, Child, disk, prunes
<1>12. ASSUME NEW i \in Ids, MetaWritten(i)
      PROVE  JobOK(x)'
  BY <1>0, <1>12 DEF MetaWritten, Leave, TypeOK, Active, Running, Terminal, Child, disk, prunes
<1>13. ASSUME NEW i \in Ids, Timeout(i)
      PROVE  JobOK(x)'
  BY <1>0, FailIs, <1>13 DEF Timeout, Leave, Untouched, TypeOK, Active, Running, Terminal, Child, disk, prunes
<1>14. ASSUME NEW i \in Ids, Progress(i)
      PROVE  JobOK(x)'
  BY <1>0, <1>14 DEF Progress, SetStatus, Phase, Untouched, TypeOK, Active, Running, Terminal, Child, disk, prunes
<1>15. ASSUME NEW i \in Ids, PruneLists(i)
      PROVE  JobOK(x)'
  BY <1>0, <1>15 DEF PruneLists, OnlyPrunes, TypeOK, Active, Running, Terminal, Child, disk, prunes
<1>16. ASSUME NEW i \in Ids, NEW k \in Ids, PruneOne(i, k)
      PROVE  JobOK(x)'
  BY <1>0, <1>16 DEF PruneOne, OnlyPrunes, TypeOK, Active, Running, Terminal, Child, disk, prunes
<1>17. ASSUME NEW i \in Ids, Cancel(i)
      PROVE  JobOK(x)'
  BY <1>0, <1>17 DEF Cancel, SetStatus, TypeOK, Active, Running, Terminal, Child, disk, prunes, Live
<1>18. ASSUME NEW i \in Ids, AutoFail(i)
      PROVE  JobOK(x)'
  BY <1>0, <1>18 DEF AutoFail, FailNow, SetStatus, Untouched, TypeOK, Active, Running, Terminal, Child, disk, prunes
<1>19. ASSUME NEW a \in Assets, DeleteAsset(a)
      PROVE  JobOK(x)'
  BY <1>0, <1>19 DEF DeleteAsset, TypeOK, Active, Running, Terminal, Child, disk, prunes, Live
<1>20. ASSUME NEW S \in SUBSET metas, DeleteTranscripts(S)
      PROVE  JobOK(x)'
  BY <1>0, <1>20 DEF DeleteTranscripts, OnlyDeletes, TypeOK, Active, Running, Terminal, Child, disk, prunes
<1>21. ASSUME ClearDuplicates
      PROVE  JobOK(x)'
  BY <1>0, <1>21 DEF ClearDuplicates, OnlyDeletes, TypeOK, Active, Running, Terminal, Child, disk, prunes
<1>22. ASSUME NEW n \in 1..MaxWorkers, SetWorkers(n)
      PROVE  JobOK(x)'
  BY <1>0, <1>22 DEF SetWorkers, TypeOK, Active, Running, Terminal, Child, disk, prunes
<1>23. CASE Restart
  <2>1. job'[x] = IF Status(x) = "new" THEN job[x] ELSE [job[x] EXCEPT !.status = "gone"]
    BY <1>23 DEF Restart
  <2>2. call'[x] = IF call[x] = "none" THEN "none" ELSE "over"
    BY <1>23 DEF Restart
  <2>3. procs' = {} /\ trans' = {} /\ killed' = {} /\ listing' = {} /\ todo'[x] = {} /\ metas' = metas
    BY <1>23 DEF Restart, disk
  <2>4. job[x] \in JobType
    BY DEF TypeOK
  <2>5. QED BY <1>0, <2>1, <2>2, <2>3, <2>4 DEF JobType, Active, Running, Terminal, Child, Calls
<1>24. CASE UNCHANGED vars
  BY <1>0, <1>24 DEF vars, disk, prunes
<1>25. QED BY <1>1, <1>2, <1>3, <1>4, <1>5, <1>6, <1>7, <1>8, <1>9, <1>10, <1>11, <1>12, <1>13, <1>14, <1>15, <1>16, <1>17, <1>18, <1>19, <1>20, <1>21, <1>22, <1>23, <1>24 DEF Next, OwnStep, JobStep, WorkerStep, UserStep

-----------------------------------------------------------------------------
(* What a step does to a job *)

Enqueues == \E i \in Ids :
  \/ \E a \in Assets, p \in Purposes : Request(i, a, p)
  \/ \E k \in Ids : Retry(i, k)
  \/ \E a \in Assets : EnqueueSidecar(i, a)

\* What any step but an enqueue may do to job x.
Moved(x) ==
  /\ job'[x].asset = job[x].asset /\ job'[x].purpose = job[x].purpose
  /\ job'[x].status = "new" <=> Status(x) = "new"
  /\ job'[x].status = "queued" => Status(x) = "queued"
  /\ Unsettled(x)' => Unsettled(x)
  /\ Status(x) \in {"done", "gone"} => job'[x].status \in {Status(x), "gone"}
  /\ job'[x].status = "done" => Status(x) = "done" \/ call'[x] = "meta" \/ IsSidecar(x)
  /\ call[x] = "meta" => \/ call'[x] = "meta" \/ job'[x].status = "gone"
                         \/ entry' = Recorded(x, "done")
  /\ Coming(x) /\ ~IsSidecar(x) => \/ Coming(x)' \/ entry' = Recorded(x, "failed")
                                   \/ entry' = Recorded(x, "done")

LEMMA MovedStep ==
  ASSUME TypeOK, JobsOK, [Next]_vars, ~Enqueues, NEW x \in Ids
  PROVE  Moved(x)
<1> USE DEF JobOK, Status, IsSidecar, Coming, Unsettled, Moved
<1>0. JobOK(x) /\ call[x] \in Calls /\ job[x] \in JobType
  BY DEF JobsOK, TypeOK
<1>1. CASE ProcessNext
  <2>1. CASE NothingToStart
    BY <1>0, <1>1, <2>1, RunnerIs DEF NothingToStart, prunes
  <2>2. CASE \E i \in Ids : Starts(i)
    <3>1. PICK i \in Ids : Starts(i)
      BY <2>2
    <3>2. UNCHANGED prunes
      BY <1>1, RunnerIs
    <3>3. CASE StartWhisper(i)
      BY <1>0, <3>1, <3>2, <3>3 DEF Starts, StartWhisper, SetStatus, TypeOK, JobType, Active, Running, Terminal, Child, Live, Calls, prunes
    <3>4. CASE StartTranslation(i)
      BY <1>0, <3>1, <3>2, <3>4 DEF Starts, StartTranslation, SetStatus, TypeOK, JobType, Active, Running, Terminal, Child, Live, Calls, prunes
    <3>5. CASE NothingToTranslate(i)
      BY <1>0, <3>1, <3>2, <3>5, FailIs DEF Starts, NothingToTranslate, TypeOK, Active, Running, Terminal, Child, Live, Calls, prunes
    <3>6. QED BY <3>1, <3>3, <3>4, <3>5 DEF Starts
  <2>3. QED BY <1>1, <2>1, <2>2, RunnerIs
<1>2. ASSUME NEW i \in Ids, AudioDone(i)
      PROVE  Moved(x)
  BY <1>0, <1>2 DEF AudioDone, SetStatus, Untouched, TypeOK, JobType, Active, Running, Terminal, Child, Live, Calls, prunes
<1>3. ASSUME NEW i \in Ids, WhisperDone(i)
      PROVE  Moved(x)
  BY <1>0, <1>3 DEF WhisperDone, Untouched, TypeOK, JobType, Active, Running, Terminal, Child, Live, Calls, prunes
<1>4. ASSUME NEW i \in Ids, Result(i)
      PROVE  Moved(x)
  BY <1>0, <1>4 DEF Result, SetStatus, Leave, Fire, Untouched, TypeOK, JobType, Active, Running, Terminal, Child, Live, Calls, prunes
<1>5. ASSUME NEW i \in Ids, ChildFails(i)
      PROVE  Moved(x)
  BY <1>0, FailIs, <1>5 DEF ChildFails, Leave, Fire, Untouched, TypeOK, JobType, Active, Running, Terminal, Child, Live, Calls, prunes
<1>6. ASSUME NEW i \in Ids, Exit(i)
      PROVE  Moved(x)
  BY <1>0, <1>6 DEF Exit, Untouched, TypeOK, JobType, Active, Running, Terminal, Child, Live, Calls, prunes
<1>7. ASSUME NEW i \in Ids, Translated(i)
      PROVE  Moved(x)
  BY <1>0, <1>7 DEF Translated, SetStatus, Untouched, TypeOK, JobType, Active, Running, Terminal, Child, Live, Calls, prunes
<1>8. ASSUME NEW i \in Ids, TranslationFails(i)
      PROVE  Moved(x)
  BY <1>0, FailIs, <1>8 DEF TranslationFails, Leave, Fire, Untouched, TypeOK, JobType, Active, Running, Terminal, Child, Live, Calls, prunes
<1>9. ASSUME NEW i \in Ids, MetaWritten(i)
      PROVE  Moved(x)
  BY <1>0, <1>9 DEF MetaWritten, Leave, Fire, TypeOK, JobType, Active, Running, Terminal, Child, Live, Calls, prunes
<1>10. ASSUME NEW i \in Ids, Timeout(i)
      PROVE  Moved(x)
  BY <1>0, FailIs, <1>10 DEF Timeout, Leave, Fire, Untouched, TypeOK, JobType, Active, Running, Terminal, Child, Live, Calls, prunes
<1>11. ASSUME NEW i \in Ids, Progress(i)
      PROVE  Moved(x)
  BY <1>0, <1>11 DEF Progress, SetStatus, Phase, Untouched, TypeOK, JobType, Active, Running, Terminal, Child, Live, Calls, prunes
<1>12. ASSUME NEW i \in Ids, PruneLists(i)
      PROVE  Moved(x)
  BY <1>0, <1>12 DEF PruneLists, OnlyPrunes, TypeOK, JobType, Active, Running, Terminal, Child, Live, Calls, prunes
<1>13. ASSUME NEW i \in Ids, NEW k \in Ids, PruneOne(i, k)
      PROVE  Moved(x)
  BY <1>0, <1>13 DEF PruneOne, OnlyPrunes, TypeOK, JobType, Active, Running, Terminal, Child, Live, Calls, prunes
<1>14. ASSUME NEW i \in Ids, Cancel(i)
      PROVE  Moved(x)
  BY <1>0, <1>14 DEF Cancel, SetStatus, TypeOK, JobType, Active, Running, Terminal, Child, Live, Calls, prunes
<1>15. ASSUME NEW i \in Ids, AutoFail(i)
      PROVE  Moved(x)
  BY <1>0, FailIs, <1>15 DEF AutoFail, Fire, Untouched, TypeOK, JobType, Active, Running, Terminal, Child, Live, Calls, prunes
<1>16. ASSUME NEW a \in Assets, DeleteAsset(a)
      PROVE  Moved(x)
  BY <1>0, <1>16 DEF DeleteAsset, TypeOK, JobType, Active, Running, Terminal, Child, Live, Calls, prunes
<1>17. ASSUME NEW S \in SUBSET metas, DeleteTranscripts(S)
      PROVE  Moved(x)
  BY <1>0, <1>17 DEF DeleteTranscripts, OnlyDeletes, TypeOK, JobType, Active, Running, Terminal, Child, Live, Calls, prunes
<1>18. ASSUME ClearDuplicates
      PROVE  Moved(x)
  BY <1>0, <1>18 DEF ClearDuplicates, OnlyDeletes, TypeOK, JobType, Active, Running, Terminal, Child, Live, Calls, prunes
<1>19. ASSUME NEW n \in 1..MaxWorkers, SetWorkers(n)
      PROVE  Moved(x)
  BY <1>0, <1>19 DEF SetWorkers, TypeOK, JobType, Active, Running, Terminal, Child, Live, Calls, prunes
<1>20. CASE Restart
  <2>1. job'[x] = IF Status(x) = "new" THEN job[x] ELSE [job[x] EXCEPT !.status = "gone"]
    BY <1>20 DEF Restart
  <2>2. call'[x] = IF call[x] = "none" THEN "none" ELSE "over"
    BY <1>20 DEF Restart
  <2>3. listing' = {} /\ todo'[x] = {}
    BY <1>20 DEF Restart
  <2>4. QED BY <1>0, <2>1, <2>2, <2>3 DEF JobType, Active, Running, Terminal, Child, Live, Calls
<1>21. CASE UNCHANGED vars
  BY <1>0, <1>21 DEF vars, prunes
<1>22. QED BY <1>1, <1>2, <1>3, <1>4, <1>5, <1>6, <1>7, <1>8, <1>9, <1>10, <1>11, <1>12, <1>13, <1>14, <1>15, <1>16, <1>17, <1>18, <1>19, <1>20, <1>21 DEF Next, OwnStep, JobStep, WorkerStep, UserStep, Enqueues

-----------------------------------------------------------------------------
(* The slots *)

\* The sets NoIdleWorker counts.
LEMMA QueueIs ==
  ASSUME TypeOK
  PROVE  /\ Queued \in SUBSET Ids /\ IsFiniteSet(Queued) /\ Cardinality(Queued) \in Nat
         /\ Busy \in SUBSET Ids /\ IsFiniteSet(Busy) /\ Cardinality(Busy) \in Nat
         /\ Queued = {} => Cardinality(Queued) = 0
<1>1. Queued \in SUBSET Ids /\ Busy \in SUBSET Ids
  BY DEF Queued, Busy, TypeOK
<1>2. QED BY <1>1, CountIs, FS_EmptySet

LEMMA QueueIsNext ==
  ASSUME TypeOK'
  PROVE  /\ Queued' \in SUBSET Ids /\ IsFiniteSet(Queued') /\ Cardinality(Queued') \in Nat
         /\ Busy' \in SUBSET Ids /\ IsFiniteSet(Busy') /\ Cardinality(Busy') \in Nat
         /\ Queued' = {} => Cardinality(Queued') = 0
<1>1. Queued' \in SUBSET Ids /\ Busy' \in SUBSET Ids
  BY DEF Queued, Busy, TypeOK
<1>2. QED BY <1>1, CountIs, FS_EmptySet

\* No job comes into the queue.
LEMMA NoNewQueued ==
  ASSUME TypeOK, JobsOK, TypeOK', [Next]_vars, ~Enqueues
  PROVE  Queued' \subseteq Queued /\ Cardinality(Queued') <= Cardinality(Queued)
<1>1. Queued' \subseteq Queued
  BY MovedStep DEF Queued, Moved, Status
<1>2. QED BY <1>1, QueueIs, FS_Subset

\* Without a worker that leaves or starts.
LEMMA QuietSlots ==
  ASSUME TypeOK, JobsOK, TypeOK', Slots, [Next]_vars, ~Enqueues,
         UNCHANGED <<procs, trans, wakes>>, lowest' <= lowest, lowest' <= workers'
  PROVE  Slots'
<1>1. Busy' = Busy
  BY DEF Busy
<1>2. lowest \in Nat /\ lowest' \in Nat /\ wakes \in Nat
  BY TranscripterAssumption DEF TypeOK
<1>3. QED BY <1>1, <1>2, NoNewQueued, QueueIs, QueueIsNext DEF Slots, NoIdleWorker, Min2

\* A worker leaves, and wakes the runner for the job that waits.
LEMMA LeaveSlots ==
  ASSUME TypeOK, JobsOK, TypeOK', Slots, [Next]_vars, ~Enqueues,
         NEW i \in Ids, Leave(i), UNCHANGED <<lowest, workers>>
  PROVE  Slots'
<1>1. Busy' = Busy \ {i}
  BY DEF Leave, Busy
<1>2. Cardinality(Busy') <= Cardinality(Busy) /\ Cardinality(Busy) <= Cardinality(Busy') + 1
  <2>1. Cardinality(Busy \ {i}) = IF i \in Busy THEN Cardinality(Busy) - 1 ELSE Cardinality(Busy)
    BY QueueIs, FS_RemoveElement
  <2>2. QED BY <1>1, <2>1, QueueIs
<1>3. lowest \in Nat /\ wakes \in Nat
  BY TranscripterAssumption DEF TypeOK
<1>4. CASE Queued = {}
  <2>1. Queued' = {}
    BY <1>4, NoNewQueued
  <2>2. wakes' = wakes
    BY <1>4 DEF Leave
  <2>3. QED BY <1>3, <2>1, <2>2, QueueIs, QueueIsNext DEF Slots, NoIdleWorker, Min2
<1>5. CASE Queued # {}
  <2>1. wakes' = wakes + 1
    BY <1>5 DEF Leave
  <2>2. QED BY <1>2, <1>3, <2>1, NoNewQueued, QueueIs, QueueIsNext DEF Slots, NoIdleWorker, Min2
<1>6. QED BY <1>4, <1>5

LEMMA StartSlots ==
  ASSUME TypeOK, JobsOK, TypeOK', Slots, [Next]_vars, ~Enqueues, ProcessNext
  PROVE  Slots'
<1>1. lowest \in Nat /\ workers \in Nat /\ wakes \in Nat /\ wakes > 0 /\ UNCHANGED <<lowest, workers>>
  BY RunnerIs, TranscripterAssumption DEF TypeOK, ghosts
<1>2. CASE NothingToStart
  <2>1. Busy' = Busy /\ Queued' = Queued /\ wakes' = wakes - 1
    BY <1>2 DEF NothingToStart, Busy, Queued, Status
  <2>2. CASE Queued = {}
    BY <1>1, <2>1, <2>2, QueueIs DEF Slots, NoIdleWorker, Min2
  <2>3. CASE Cardinality(Busy) >= workers
    BY <1>1, <2>1, <2>3, QueueIs DEF Slots, NoIdleWorker, Min2
  <2>4. QED BY <1>2, <2>2, <2>3 DEF NothingToStart
<1>3. ASSUME NEW i \in Ids, Starts(i)
      PROVE  Slots'
  <2>1. i \in Queued /\ i \notin Busy
    BY <1>3 DEF Starts, Queued, Busy, JobsOK, JobOK, Status, Active, Running, Child
  <2>2. i \notin Queued'
    BY <1>3, FailIs DEF Starts, StartWhisper, StartTranslation, NothingToTranslate, SetStatus, Queued, Status, TypeOK, JobType
  <2>3. Queued' \subseteq Queued \ {i} /\ Cardinality(Queued \ {i}) = Cardinality(Queued) - 1
    BY <2>1, <2>2, NoNewQueued, QueueIs, FS_RemoveElement
  <2>4. IsFiniteSet(Queued \ {i}) /\ Cardinality(Queued') <= Cardinality(Queued) - 1
    BY <2>3, QueueIs, FS_RemoveElement, FS_Subset
  <2>5. CASE StartWhisper(i) \/ StartTranslation(i)
    <3>1. Busy' = Busy \cup {i} /\ wakes' = wakes - 1
      BY <2>5 DEF StartWhisper, StartTranslation, Busy
    <3>2. Cardinality(Busy') = Cardinality(Busy) + 1
      BY <2>1, <3>1, QueueIs, FS_AddElement
    <3>3. QED BY <1>1, <2>4, <3>1, <3>2, QueueIs, QueueIsNext DEF Slots, NoIdleWorker, Min2
  <2>6. CASE NothingToTranslate(i)
    <3>1. Busy' = Busy
      BY <2>6 DEF NothingToTranslate, Busy
    <3>2. CASE Queued \ {i} = {}
      <4>1. Queued' = {}
        BY <2>3, <3>2
      <4>2. wakes' \in Nat
        BY DEF TypeOK
      <4>3. QED BY <1>1, <3>1, <4>1, <4>2, QueueIs, QueueIsNext DEF Slots, NoIdleWorker, Min2
    <3>3. CASE Queued \ {i} # {}
      <4>1. wakes' = wakes
        BY <2>6, <3>3 DEF NothingToTranslate
      <4>2. QED BY <1>1, <2>4, <3>1, <4>1, QueueIs, QueueIsNext DEF Slots, NoIdleWorker, Min2
    <3>4. QED BY <3>2, <3>3
  <2>7. QED BY <1>3, <2>5, <2>6 DEF Starts
<1>4. QED BY <1>2, <1>3, RunnerIs

\* A job comes: the runner is woken unless the processors fill the setting.
LEMMA EnqueueSlots ==
  ASSUME TypeOK, TypeOK', Slots, NEW i \in Ids, NEW a, NEW p, Enqueue(i, a, p)
  PROVE  Slots'
<1>1. Queued' = Queued \cup {i}
  BY DEF Enqueue, Queued, Status, TypeOK
<1>2. Cardinality(Queued') <= Cardinality(Queued) + 1
  <2>1. Cardinality(Queued \cup {i}) = IF i \in Queued THEN Cardinality(Queued) ELSE Cardinality(Queued) + 1
    BY QueueIs, FS_AddElement
  <2>2. QED BY <1>1, <2>1, QueueIs
<1>3. Busy' = Busy /\ procs \subseteq Busy /\ UNCHANGED <<lowest, workers>>
  BY DEF Enqueue, Busy
<1>4. Cardinality(procs) <= Cardinality(Busy) /\ Cardinality(procs) \in Nat
  BY <1>3, QueueIs, FS_Subset, FS_CardinalityType
<1>5. lowest \in Nat /\ workers \in Nat /\ wakes \in Nat
  BY TranscripterAssumption DEF TypeOK
<1>6. wakes' = wakes + 1 \/ (wakes' = wakes /\ Cardinality(procs) >= workers)
  BY <1>4, <1>5 DEF Enqueue, WakeOnEnqueue
<1>7. QED BY <1>2, <1>3, <1>4, <1>5, <1>6, QueueIs, QueueIsNext DEF Slots, NoIdleWorker, Min2

LEMMA SlotsStep ==
  ASSUME TypeOK, JobsOK, TypeOK', Slots, [Next]_vars
  PROVE  Slots'
<1>1. CASE Enqueues
  BY <1>1, EnqueueSlots DEF Enqueues, Request, Retry, EnqueueSidecar
<1> SUFFICES ASSUME ~Enqueues
             PROVE  Slots'
  BY <1>1
<1>0. lowest \in Nat /\ workers \in Nat /\ lowest <= workers
  BY TranscripterAssumption DEF TypeOK, Slots
<1>2. CASE ProcessNext
  BY <1>2, StartSlots
<1>3. ASSUME NEW i \in Ids, AudioDone(i)
      PROVE  Slots'
  BY <1>0, QuietSlots, <1>3 DEF AudioDone, Untouched, ghosts
<1>4. ASSUME NEW i \in Ids, WhisperDone(i)
      PROVE  Slots'
  BY <1>0, QuietSlots, <1>4 DEF WhisperDone, Untouched, ghosts
<1>5. ASSUME NEW i \in Ids, Result(i)
      PROVE  Slots'
  <2>1. UNCHANGED <<lowest, workers>>
    BY <1>5 DEF Result, Untouched, ghosts
  <2>2. Leave(i) \/ UNCHANGED <<procs, trans, wakes>>
    BY <1>5 DEF Result
  <2>3. QED BY <1>0, <2>1, <2>2, LeaveSlots, QuietSlots
<1>6. ASSUME NEW i \in Ids, ChildFails(i)
      PROVE  Slots'
  BY LeaveSlots, <1>6 DEF ChildFails, Untouched, ghosts
<1>7. ASSUME NEW i \in Ids, Exit(i)
      PROVE  Slots'
  BY <1>0, QuietSlots, <1>7 DEF Exit, Untouched, ghosts
<1>8. ASSUME NEW i \in Ids, Translated(i)
      PROVE  Slots'
  BY <1>0, QuietSlots, <1>8 DEF Translated, Untouched, ghosts
<1>9. ASSUME NEW i \in Ids, TranslationFails(i)
      PROVE  Slots'
  BY LeaveSlots, <1>9 DEF TranslationFails, Untouched, ghosts
<1>10. ASSUME NEW i \in Ids, MetaWritten(i)
      PROVE  Slots'
  BY LeaveSlots, <1>10 DEF MetaWritten, Untouched, ghosts
<1>11. ASSUME NEW i \in Ids, Timeout(i)
      PROVE  Slots'
  BY LeaveSlots, <1>11 DEF Timeout, Untouched, ghosts
<1>12. ASSUME NEW i \in Ids, Progress(i)
      PROVE  Slots'
  BY <1>0, QuietSlots, <1>12 DEF Progress, Untouched, ghosts
<1>13. ASSUME NEW i \in Ids, PruneLists(i)
      PROVE  Slots'
  BY <1>0, QuietSlots, <1>13 DEF PruneLists, OnlyPrunes, ghosts
<1>14. ASSUME NEW i \in Ids, NEW k \in Ids, PruneOne(i, k)
      PROVE  Slots'
  BY <1>0, QuietSlots, <1>14 DEF PruneOne, OnlyPrunes, ghosts
<1>15. ASSUME NEW i \in Ids, Cancel(i)
      PROVE  Slots'
  BY <1>0, QuietSlots, <1>15 DEF Cancel, ghosts
<1>16. ASSUME NEW i \in Ids, AutoFail(i)
      PROVE  Slots'
  BY <1>0, QuietSlots, <1>16 DEF AutoFail, Untouched, ghosts
<1>17. ASSUME NEW a \in Assets, DeleteAsset(a)
      PROVE  Slots'
  BY <1>0, QuietSlots, <1>17 DEF DeleteAsset, ghosts
<1>18. ASSUME NEW S \in SUBSET metas, DeleteTranscripts(S)
      PROVE  Slots'
  BY <1>0, QuietSlots, <1>18 DEF DeleteTranscripts, OnlyDeletes, ghosts
<1>19. ASSUME ClearDuplicates
      PROVE  Slots'
  BY <1>0, QuietSlots, <1>19 DEF ClearDuplicates, OnlyDeletes, ghosts
<1>20. ASSUME NEW n \in 1..MaxWorkers, SetWorkers(n)
      PROVE  Slots'
  BY <1>0, QuietSlots, <1>20 DEF SetWorkers, Min2, TypeOK
<1>21. CASE Restart
  <2>1. Queued' = {} /\ Busy' = {}
    BY <1>21 DEF Restart, Queued, Busy, Status, TypeOK, JobType
  <2>2. UNCHANGED <<lowest, workers>> /\ wakes' = 0
    BY <1>21 DEF Restart, ghosts
  <2>3. QED BY <1>0, <2>1, <2>2, QueueIsNext, FS_EmptySet DEF Slots, NoIdleWorker, Min2
<1>22. CASE UNCHANGED vars
  BY <1>0, <1>22, QuietSlots DEF vars, ghosts
<1>23. QED BY <1>1, <1>2, <1>3, <1>4, <1>5, <1>6, <1>7, <1>8, <1>9, <1>10, <1>11, <1>12, <1>13, <1>14, <1>15, <1>16, <1>17, <1>18, <1>19, <1>20, <1>21, <1>22 DEF Next, OwnStep, JobStep, WorkerStep, UserStep, Enqueues

-----------------------------------------------------------------------------
(* What a step does to the records and the transcripts *)

\* The record that entry' has of job i, if it is another than before.
Says(i, s) ==
  /\ entry' = Recorded(i, s) /\ job'[i].status = s /\ Status(i) # "new"
  /\ s = "done" => IsSidecar(i) \/ call[i] = "meta"

\* A transcript goes because a user deleted it, or with a prune of a rival.
Goes(x) ==
  \/ x \in deleted'
  \/ \E j \in Ids : x \in todo[j] /\ x \in metas /\ Outdated(j, x)

StepTold ==
  /\ entry' = entry \/ \E i \in Ids, s \in {"failed", "done"} : Says(i, s)
  /\ overlapped' = overlapped /\ removed \subseteq removed' /\ deleted \subseteq deleted'
  /\ \A x \in files \ files' : Goes(x)

LEMMA ToldStep ==
  ASSUME TypeOK, JobsOK, [Next]_vars, ~Enqueues
  PROVE  StepTold
<1> USE DEF StepTold, Status, disk, prunes, ghosts
<1>1. CASE ProcessNext
  <2>1. UNCHANGED <<disk, removed, ghosts>>
    BY <1>1, RunnerIs
  <2>2. CASE NothingToStart
    BY <2>1, <2>2 DEF NothingToStart
  <2>3. ASSUME NEW i \in Ids, Starts(i)
        PROVE  StepTold
    BY <2>1, <2>3, FailIs DEF Starts, StartWhisper, StartTranslation, NothingToTranslate, Says
  <2>4. QED BY <1>1, <2>2, <2>3, RunnerIs
<1>2. ASSUME NEW i \in Ids, AudioDone(i)
      PROVE  StepTold
  BY <1>2 DEF AudioDone, Untouched, Goes, TypeOK
<1>3. ASSUME NEW i \in Ids, WhisperDone(i)
      PROVE  StepTold
  BY <1>3 DEF WhisperDone, Untouched, Goes, TypeOK
<1>4. ASSUME NEW i \in Ids, Result(i)
      PROVE  StepTold
  <2>1. job'[i].status = "done"
    BY <1>4 DEF Result, SetStatus, TypeOK, JobType
  <2>2. Status(i) # "new"
    BY <1>4 DEF Result, JobsOK, JobOK, Child, Active, Running
  <2>3. entry' = entry \/ Says(i, "done")
    BY <1>4, <2>1, <2>2 DEF Result, Fire, Says
  <2>4. UNCHANGED <<files, overlapped, removed, deleted>>
    BY <1>4 DEF Result, Untouched
  <2>5. QED BY <2>3, <2>4
<1>5. ASSUME NEW i \in Ids, ChildFails(i)
      PROVE  StepTold
  <2>1. FailNow(i) \/ CatchError(i)
    BY <1>5 DEF ChildFails
  <2>2. Status(i) # "new"
    BY <1>5 DEF ChildFails, JobsOK, JobOK, Child, Active, Running
  <2>3. entry' = entry \/ Says(i, "failed")
    BY <2>1, <2>2, FailIs DEF Says
  <2>4. UNCHANGED <<files, overlapped, removed, deleted>>
    BY <1>5 DEF ChildFails, Untouched
  <2>5. QED BY <2>3, <2>4
<1>6. ASSUME NEW i \in Ids, Exit(i)
      PROVE  StepTold
  BY <1>6 DEF Exit, Untouched, Goes, TypeOK
<1>7. ASSUME NEW i \in Ids, Translated(i)
      PROVE  StepTold
  BY <1>7 DEF Translated, Untouched, Goes, TypeOK
<1>8. ASSUME NEW i \in Ids, TranslationFails(i)
      PROVE  StepTold
  <2>1. FailNow(i) \/ CatchError(i)
    BY <1>8 DEF TranslationFails
  <2>2. Status(i) # "new"
    BY <1>8 DEF TranslationFails, JobsOK, JobOK, Child, Active, Running
  <2>3. entry' = entry \/ Says(i, "failed")
    BY <2>1, <2>2, FailIs DEF Says
  <2>4. UNCHANGED <<files, overlapped, removed, deleted>>
    BY <1>8 DEF TranslationFails, Untouched
  <2>5. QED BY <2>3, <2>4
<1>9. ASSUME NEW i \in Ids, MetaWritten(i)
      PROVE  StepTold
  <2>1. entry' = entry \/ Says(i, "done")
    BY <1>9 DEF MetaWritten, Fire, Says, SetStatus, JobsOK, JobOK, Child, Active, Running, TypeOK, JobType
  <2>2. UNCHANGED <<files, overlapped, removed, deleted>>
    BY <1>9 DEF MetaWritten, Untouched
  <2>3. QED BY <2>1, <2>2
<1>10. ASSUME NEW i \in Ids, Timeout(i)
      PROVE  StepTold
  <2>1. FailNow(i) \/ CatchError(i)
    BY <1>10 DEF Timeout
  <2>2. Status(i) # "new"
    BY <1>10 DEF Timeout, JobsOK, JobOK, Child, Active, Running
  <2>3. entry' = entry \/ Says(i, "failed")
    BY <2>1, <2>2, FailIs DEF Says
  <2>4. UNCHANGED <<files, overlapped, removed, deleted>>
    BY <1>10 DEF Timeout, Untouched
  <2>5. QED BY <2>3, <2>4
<1>11. ASSUME NEW i \in Ids, Progress(i)
      PROVE  StepTold
  BY <1>11 DEF Progress, Untouched, Goes, TypeOK
<1>12. ASSUME NEW i \in Ids, PruneLists(i)
      PROVE  StepTold
  BY <1>12 DEF PruneLists, OnlyPrunes, Goes, TypeOK
<1>13. ASSUME NEW i \in Ids, NEW k \in Ids, PruneOne(i, k)
      PROVE  StepTold
  BY <1>13 DEF PruneOne, OnlyPrunes, Goes, TypeOK
<1>14. ASSUME NEW i \in Ids, Cancel(i)
      PROVE  StepTold
  BY <1>14 DEF Cancel, Goes, TypeOK
<1>15. ASSUME NEW i \in Ids, AutoFail(i)
      PROVE  StepTold
  <2>1. FailNow(i) \/ CatchError(i)
    BY <1>15 DEF AutoFail
  <2>2. Status(i) # "new"
    BY <1>15 DEF AutoFail, JobsOK, JobOK, Child, Active, Running
  <2>3. entry' = entry \/ Says(i, "failed")
    BY <2>1, <2>2, FailIs DEF Says
  <2>4. UNCHANGED <<files, overlapped, removed, deleted>>
    BY <1>15 DEF AutoFail, Untouched
  <2>5. QED BY <2>3, <2>4
<1>16. ASSUME NEW a \in Assets, DeleteAsset(a)
      PROVE  StepTold
  BY <1>16 DEF DeleteAsset, Goes, TypeOK
<1>17. ASSUME NEW S \in SUBSET metas, DeleteTranscripts(S)
      PROVE  StepTold
  BY <1>17 DEF DeleteTranscripts, OnlyDeletes, Goes, TypeOK
<1>18. ASSUME ClearDuplicates
      PROVE  StepTold
  BY <1>18 DEF ClearDuplicates, OnlyDeletes, Goes, TypeOK
<1>19. ASSUME NEW n \in 1..MaxWorkers, SetWorkers(n)
      PROVE  StepTold
  BY <1>19 DEF SetWorkers, Goes, TypeOK
<1>20. ASSUME Restart
      PROVE  StepTold
  BY <1>20 DEF Restart, Goes, TypeOK
<1>21. CASE UNCHANGED vars
  BY <1>21 DEF vars
<1>22. QED BY <1>1, <1>2, <1>3, <1>4, <1>5, <1>6, <1>7, <1>8, <1>9, <1>10, <1>11, <1>12, <1>13, <1>14, <1>15, <1>16, <1>17, <1>18, <1>19, <1>20, <1>21 DEF Next, OwnStep, JobStep, WorkerStep, UserStep, Enqueues

-----------------------------------------------------------------------------
(* A job that comes *)

\* What the call that queues job i for asset a with purpose p does to the records.
Asks(i, a, p) ==
  /\ \A b \in Assets, l \in Langs :
       \/ entry'[b][l] = entry[b][l]
       \/ /\ b = a /\ l = Lang(p) /\ p # "lpai_sidecar"
          /\ entry'[b][l].status = "queued" /\ entry'[b][l].job \in {i, entry[b][l].job}
  /\ p # "lpai_sidecar" /\ a \notin removed => entry'[a][Lang(p)].status = "queued"

LEMMA AsksIs ==
  ASSUME TypeOK, Enqueues
  PROVE  \E i \in Ids, a \in Assets, p \in Purposes : Enqueue(i, a, p) /\ Asks(i, a, p)
<1>0. \A b \in Assets, l \in Langs : entry[b][l] \in EntryType
  BY DEF TypeOK
<1>1. ASSUME NEW i \in Ids, NEW a \in Assets, NEW p \in Purposes, Request(i, a, p)
      PROVE  Enqueue(i, a, p) /\ Asks(i, a, p)
  <2>1. Lang(p) \in Langs
    BY DEF Lang, Langs
  <2>2. entry' = [entry EXCEPT ![a][Lang(p)] = [status |-> "queued", job |-> i]]
    BY <1>1 DEF Request
  <2>3. entry'[a][Lang(p)] = [status |-> "queued", job |-> i]
    BY <2>1, <2>2 DEF TypeOK
  <2>4. \A b \in Assets, l \in Langs : b # a \/ l # Lang(p) => entry'[b][l] = entry[b][l]
    BY <2>1, <2>2 DEF TypeOK
  <2>5. QED BY <1>1, <2>3, <2>4 DEF Request, Asks
<1>2. ASSUME NEW i \in Ids, NEW k \in Ids, Retry(i, k)
      PROVE  \E a \in Assets, p \in Purposes : Enqueue(i, a, p) /\ Asks(i, a, p)
  <2>1. AssetOf(k) \in Assets /\ job[k].purpose \in Purposes /\ LangOf(k) \in Langs
    BY DEF TypeOK, JobType, AssetOf, LangOf, Lang, Langs
  <2>2. job[k].purpose # "lpai_sidecar" /\ LangOf(k) = Lang(job[k].purpose)
    BY <1>2 DEF Retry, IsSidecar, LangOf
  <2>3. CASE AssetOf(k) \in removed
    BY <1>2, <2>1, <2>3 DEF Retry, Asks
  <2>4. CASE AssetOf(k) \notin removed
    <3>1. entry' = [entry EXCEPT ![AssetOf(k)][LangOf(k)].status = "queued"]
      BY <1>2, <2>4 DEF Retry
    <3>2. /\ entry'[AssetOf(k)][LangOf(k)].status = "queued"
          /\ entry'[AssetOf(k)][LangOf(k)].job = entry[AssetOf(k)][LangOf(k)].job
      BY <1>0, <2>1, <3>1 DEF TypeOK, EntryType
    <3>3. \A b \in Assets, l \in Langs : b # AssetOf(k) \/ l # LangOf(k) => entry'[b][l] = entry[b][l]
      BY <2>1, <3>1 DEF TypeOK
    <3>4. QED BY <1>2, <2>1, <2>2, <3>2, <3>3 DEF Retry, Asks
  <2>5. QED BY <2>3, <2>4
<1>3. ASSUME NEW i \in Ids, NEW a \in Assets, EnqueueSidecar(i, a)
      PROVE  \E p \in Purposes : Enqueue(i, a, p) /\ Asks(i, a, p)
  BY <1>3 DEF EnqueueSidecar, Purposes, Asks
<1>4. QED BY <1>1, <1>2, <1>3 DEF Enqueues

LEMMA ComesIs ==
  ASSUME TypeOK, NEW i \in Ids, NEW a \in Assets, NEW p \in Purposes, Enqueue(i, a, p)
  PROVE  /\ Status(i) = "new" /\ \A x \in Ids : x < i => Status(x) # "new"
         /\ job'[i].asset = a /\ job'[i].purpose = p /\ job'[i].status = "queued"
         /\ \A x \in Ids : x # i => job'[x] = job[x] /\ Unsettled(x)' = Unsettled(x)
         /\ UNCHANGED <<call, files, removed, deleted, listing, todo>>
         /\ overlapped \subseteq overlapped'
  BY DEF Enqueue, IsNextId, Status, TypeOK, JobType, Unsettled, disk, prunes

\* A job that comes is marked with every unsettled one of its asset and language.
LEMMA ComesMarks ==
  ASSUME TypeOK, NEW i \in Ids, NEW a \in Assets, NEW p \in Purposes, Enqueue(i, a, p),
         p # "lpai_sidecar", NEW x \in Ids, Unsettled(x), ~IsSidecar(x), AssetOf(x) = a, LangOf(x) = Lang(p)
  PROVE  {i, x} \subseteq overlapped'
  BY DEF Enqueue

LEMMA RecordsEnqueue ==
  ASSUME TypeOK, JobsOK, Records, Enqueues
  PROVE  Records'
<1>1. PICK i \in Ids, a \in Assets, p \in Purposes : Enqueue(i, a, p) /\ Asks(i, a, p)
  BY AsksIs
<1> SUFFICES ASSUME NEW b \in Assets, NEW l \in Langs
             PROVE  /\ LET k == entry'[b][l].job
                       IN k \in Ids => /\ job'[k].status # "new" /\ job'[k].asset = b
                                       /\ Lang(job'[k].purpose) = l /\ job'[k].purpose # "lpai_sidecar"
                    /\ b \notin removed' =>
                       LET e == entry'[b][l]
                       IN /\ e.status = "queued" =>
                               \E j \in Ids : /\ job'[j].asset = b /\ Lang(job'[j].purpose) = l
                                              /\ job'[j].purpose # "lpai_sidecar" /\ Coming(j)'
                          /\ e.status = "done" => e.job \in Ids /\ job'[e.job].status \in {"done", "gone"}
                          /\ e.status = "failed" =>
                               e.job \in Ids /\ (job'[e.job].status = "done" => call'[e.job] = "meta")
  BY DEF Records, EntryJob, RecordFollowsJob, Status, AssetOf, LangOf, IsSidecar
<1>2. entry[b][l].job \in Ids =>
        LET k == entry[b][l].job
        IN Status(k) # "new" /\ AssetOf(k) = b /\ LangOf(k) = l /\ ~IsSidecar(k) /\ k # i /\ job'[k] = job[k]
  BY <1>1, ComesIs DEF Records, EntryJob
<1>3. CASE entry'[b][l] = entry[b][l]
  <2>1. ASSUME b \notin removed, entry[b][l].status = "queued"
        PROVE  \E j \in Ids : /\ job'[j].asset = b /\ Lang(job'[j].purpose) = l
                              /\ job'[j].purpose # "lpai_sidecar" /\ Coming(j)'
    <3>1. PICK j \in Ids : AssetOf(j) = b /\ LangOf(j) = l /\ ~IsSidecar(j) /\ Coming(j)
      BY <2>1 DEF Records, RecordFollowsJob
    <3>2. CASE j = i
      <4>1. Status(i) # "new"
        BY <3>1, <3>2 DEF Coming, Live, Running, JobsOK, JobOK
      <4>2. QED BY <1>1, <4>1, ComesIs
    <3>3. CASE j # i
      BY <1>1, <3>1, <3>3, ComesIs DEF AssetOf, LangOf, IsSidecar, Coming, Status
    <3>4. QED BY <3>2, <3>3
  <2>2. QED BY <1>1, <1>2, <1>3, <2>1, ComesIs DEF Records, RecordFollowsJob, Status, AssetOf, LangOf, IsSidecar
<1>4. CASE /\ b = a /\ l = Lang(p) /\ p # "lpai_sidecar"
           /\ entry'[b][l].status = "queued" /\ entry'[b][l].job \in {i, entry[b][l].job}
  <2>1. Coming(i)'
    BY <1>1, ComesIs DEF Coming, Status, Live
  <2>2. QED BY <1>1, <1>2, <1>4, <2>1, ComesIs DEF Status, AssetOf, LangOf, IsSidecar
<1>5. QED BY <1>1, <1>3, <1>4 DEF Asks

LEMMA InOrderEnqueue ==
  ASSUME TypeOK, InOrder, Enqueues
  PROVE  InOrder'
<1>1. PICK i \in Ids, a \in Assets, p \in Purposes : Enqueue(i, a, p)
  BY AsksIs
<1>2. ASSUME NEW x \in Ids, NEW y \in Ids, x < y, job'[x].status = "new"
      PROVE  job'[y].status = "new"
  <2>1. x # i /\ Status(x) = "new" /\ Status(y) = "new"
    BY <1>1, <1>2, ComesIs DEF Status, InOrder
  <2>2. ~(x < i)
    BY <1>1, <2>1, ComesIs
  <2>3. y # i
    BY <1>2, <2>1, <2>2, IdsFinite
  <2>4. QED BY <1>1, <2>1, <2>3, ComesIs DEF Status
<1>3. QED BY <1>2 DEF InOrder, Status

LEMMA OverlapsEnqueue ==
  ASSUME TypeOK, InOrder, Overlaps, Enqueues
  PROVE  Overlaps'
<1>1. PICK i \in Ids, a \in Assets, p \in Purposes : Enqueue(i, a, p)
  BY AsksIs
<1>2. ASSUME NEW x \in Ids, NEW y \in Ids, Later(x, y)', Unsettled(x)'
      PROVE  {x, y} \subseteq overlapped'
  <2>1. x < y /\ job'[y].status # "new" /\ job'[x].asset = job'[y].asset
        /\ Lang(job'[x].purpose) = Lang(job'[y].purpose)
        /\ job'[x].purpose # "lpai_sidecar" /\ job'[y].purpose # "lpai_sidecar"
    BY <1>2 DEF Later, Rivals, AssetOf, LangOf, IsSidecar, Status
  <2>2. x # i
    <3>1. SUFFICES ASSUME x = i PROVE FALSE
      OBVIOUS
    <3>2. y # i /\ Status(i) = "new"
      BY <1>1, <2>1, <3>1, IdsFinite, ComesIs
    <3>3. Status(y) = "new"
      BY <2>1, <3>1, <3>2 DEF InOrder
    <3>4. QED BY <1>1, <2>1, <3>2, <3>3, ComesIs DEF Status
  <2>3. job'[x] = job[x] /\ Unsettled(x)
    BY <1>1, <1>2, <2>2, ComesIs
  <2>4. CASE y = i
    BY <1>1, <2>1, <2>3, <2>4, ComesIs, ComesMarks DEF AssetOf, LangOf, IsSidecar
  <2>5. CASE y # i
    <3>1. Later(x, y)
      BY <1>1, <2>1, <2>3, <2>5, ComesIs, IdsFinite DEF Later, Rivals, AssetOf, LangOf, IsSidecar, Status
    <3>2. QED BY <1>1, <2>3, <3>1, ComesIs DEF Overlaps
  <2>6. QED BY <2>4, <2>5
<1>3. QED BY <1>2 DEF Overlaps

LEMMA LatestEnqueue ==
  ASSUME TypeOK, JobsOK, Records, Latest, Enqueues
  PROVE  Latest'
<1>1. PICK i \in Ids, a \in Assets, p \in Purposes : Enqueue(i, a, p) /\ Asks(i, a, p)
  BY AsksIs
<1>2. ASSUME NEW b \in Assets \ removed', NEW l \in Langs, entry'[b][l].status = "done",
             entry'[b][l].job \notin overlapped', NEW y \in Ids, Later(entry[b][l].job, y)'
      PROVE  FALSE
  <2> DEFINE k == entry[b][l].job
  <2>1. entry'[b][l] = entry[b][l] /\ b \notin removed
    BY <1>1, <1>2, ComesIs DEF Asks
  <2>2. k \in Ids /\ Status(k) \in {"done", "gone"} /\ k # i
    BY <1>1, <1>2, <2>1, ComesIs DEF Records, RecordFollowsJob
  <2>3. AssetOf(k) = b /\ LangOf(k) = l /\ ~IsSidecar(k) /\ job'[k] = job[k]
    BY <1>1, <2>2, ComesIs DEF Records, EntryJob
  <2>4. /\ k < y /\ job'[y].status # "new" /\ job'[y].asset = b
        /\ Lang(job'[y].purpose) = l /\ job'[y].purpose # "lpai_sidecar"
    BY <1>2, <2>1, <2>3 DEF Later, Rivals, AssetOf, LangOf, IsSidecar, Status
  <2>5. CASE y = i
    BY <1>1, <1>2, <2>1, <2>4, <2>5, ComesIs DEF Asks
  <2>6. CASE y # i
    <3>1. Later(k, y)
      BY <1>1, <2>2, <2>3, <2>4, <2>6, ComesIs, IdsFinite DEF Later, Rivals, AssetOf, LangOf, IsSidecar, Status
    <3>2. k \notin overlapped
      BY <1>1, <1>2, <2>1, ComesIs
    <3>3. QED BY <1>2, <2>1, <3>1, <3>2 DEF Latest
  <2>7. QED BY <2>5, <2>6
<1>3. QED BY <1>2 DEF Latest

LEMMA ThereEnqueue ==
  ASSUME TypeOK, TranscriptIsThere, Enqueues
  PROVE  TranscriptIsThere'
<1>1. PICK i \in Ids, a \in Assets, p \in Purposes : Enqueue(i, a, p) /\ Asks(i, a, p)
  BY AsksIs
<1>2. ASSUME NEW b \in Assets \ removed', NEW l \in Langs, entry'[b][l].status = "done",
             entry'[b][l].job \notin overlapped' \cup deleted'
      PROVE  entry'[b][l].job \in files'
  <2>1. entry'[b][l] = entry[b][l] /\ b \notin removed
    BY <1>1, <1>2, ComesIs DEF Asks
  <2>2. QED BY <1>1, <1>2, <2>1, ComesIs DEF TranscriptIsThere
<1>3. QED BY <1>2 DEF TranscriptIsThere

-----------------------------------------------------------------------------
(* Any other step *)

\* A record that a step changes is then the one of the job that ended.
LEMMA SaysIs ==
  ASSUME TypeOK, NEW i \in Ids, NEW s \in {"failed", "done"}, Says(i, s), NEW b \in Assets, NEW l \in Langs
  PROVE  \/ entry'[b][l] = entry[b][l]
         \/ /\ b = AssetOf(i) /\ l = LangOf(i) /\ ~IsSidecar(i)
            /\ entry'[b][l].status = s /\ entry'[b][l].job = i
<1>1. AssetOf(i) \in Assets /\ LangOf(i) \in Langs
  BY DEF TypeOK, JobType, AssetOf, LangOf, Lang, Langs
<1>2. CASE entry' = [entry EXCEPT ![AssetOf(i)][LangOf(i)] =
                       [status |-> IF s = "done" THEN "done" ELSE "failed", job |-> i]] /\ ~IsSidecar(i)
  <2>1. entry'[AssetOf(i)][LangOf(i)] = [status |-> s, job |-> i]
    BY <1>1, <1>2 DEF TypeOK
  <2>2. \A c \in Assets, m \in Langs : c # AssetOf(i) \/ m # LangOf(i) => entry'[c][m] = entry[c][m]
    BY <1>1, <1>2 DEF TypeOK
  <2>3. QED BY <1>2, <2>1, <2>2
<1>3. CASE entry' = entry
  BY <1>3
<1>4. QED BY <1>2, <1>3 DEF Says, Recorded

\* The callbacks of a job of an asset that is still there change its record.
LEMMA RecordedSays ==
  ASSUME TypeOK, NEW i \in Ids, NEW s \in {"failed", "done"}, entry' = Recorded(i, s),
         ~IsSidecar(i), AssetOf(i) \notin removed
  PROVE  entry'[AssetOf(i)][LangOf(i)] = [status |-> s, job |-> i]
<1>1. AssetOf(i) \in Assets /\ LangOf(i) \in Langs
  BY DEF TypeOK, JobType, AssetOf, LangOf, Lang, Langs
<1>2. QED BY <1>1 DEF Recorded, TypeOK

LEMMA EntryJobStep ==
  ASSUME TypeOK, JobsOK, EntryJob, [Next]_vars, ~Enqueues
  PROVE  EntryJob'
<1> SUFFICES ASSUME NEW b \in Assets, NEW l \in Langs, entry'[b][l].job \in Ids
             PROVE  LET k == entry'[b][l].job
                    IN /\ job'[k].status # "new" /\ job'[k].asset = b
                       /\ Lang(job'[k].purpose) = l /\ job'[k].purpose # "lpai_sidecar"
  BY DEF EntryJob, Status, AssetOf, LangOf, IsSidecar
<1>0. PICK k \in Ids : k = entry'[b][l].job
  OBVIOUS
<1>1. Moved(k)
  BY MovedStep
<1>2. Status(k) # "new" /\ AssetOf(k) = b /\ LangOf(k) = l /\ ~IsSidecar(k)
  <2>1. CASE entry'[b][l] = entry[b][l]
    BY <1>0, <2>1 DEF EntryJob
  <2>2. CASE entry'[b][l] # entry[b][l]
    <3>1. PICK i \in Ids, s \in {"failed", "done"} : Says(i, s)
      BY <2>2, ToldStep DEF StepTold
    <3>2. QED BY <1>0, <2>2, <3>1, SaysIs DEF Says
  <2>3. QED BY <2>1, <2>2
<1>3. QED BY <1>0, <1>1, <1>2 DEF Moved, Status, AssetOf, LangOf, IsSidecar

LEMMA RecordsStep ==
  ASSUME TypeOK, JobsOK, Records, [Next]_vars, ~Enqueues
  PROVE  RecordFollowsJob'
<1> SUFFICES ASSUME NEW b \in Assets \ removed', NEW l \in Langs
             PROVE  LET e == entry'[b][l]
                    IN /\ e.status = "queued" =>
                            \E j \in Ids : /\ job'[j].asset = b /\ Lang(job'[j].purpose) = l
                                           /\ job'[j].purpose # "lpai_sidecar" /\ Coming(j)'
                       /\ e.status = "done" => e.job \in Ids /\ job'[e.job].status \in {"done", "gone"}
                       /\ e.status = "failed" =>
                            e.job \in Ids /\ (job'[e.job].status = "done" => call'[e.job] = "meta")
  BY DEF RecordFollowsJob, Status, AssetOf, LangOf, IsSidecar
<1>0. b \notin removed
  BY ToldStep DEF StepTold
<1>1. CASE entry'[b][l] = entry[b][l]
  <2>1. ASSUME entry[b][l].status = "queued"
        PROVE  \E j \in Ids : /\ job'[j].asset = b /\ Lang(job'[j].purpose) = l
                              /\ job'[j].purpose # "lpai_sidecar" /\ Coming(j)'
    <3>1. PICK j \in Ids : AssetOf(j) = b /\ LangOf(j) = l /\ ~IsSidecar(j) /\ Coming(j)
      BY <1>0, <2>1 DEF Records, RecordFollowsJob
    <3>2. Coming(j)' \/ entry' = Recorded(j, "failed") \/ entry' = Recorded(j, "done")
      BY <3>1, MovedStep DEF Moved
    <3>3. ~(entry' = Recorded(j, "failed") \/ entry' = Recorded(j, "done"))
      <4>1. \A s \in {"failed", "done"} : entry' = Recorded(j, s) => entry'[b][l] = [status |-> s, job |-> j]
        BY <1>0, <3>1, RecordedSays
      <4>2. \A s \in {"failed", "done"} : entry' = Recorded(j, s) => FALSE
        BY <1>1, <2>1, <4>1
      <4>3. QED BY <4>2
    <3>4. job'[j].asset = job[j].asset /\ job'[j].purpose = job[j].purpose
      BY MovedStep DEF Moved
    <3>5. QED BY <3>1, <3>2, <3>3, <3>4 DEF AssetOf, LangOf, IsSidecar
  <2>2. ASSUME entry[b][l].status = "done"
        PROVE  LET k == entry[b][l].job IN k \in Ids /\ job'[k].status \in {"done", "gone"}
    <3>1. PICK k \in Ids : k = entry[b][l].job /\ Status(k) \in {"done", "gone"}
      BY <1>0, <2>2 DEF Records, RecordFollowsJob
    <3>2. QED BY <3>1, MovedStep DEF Moved
  <2>3. ASSUME entry[b][l].status = "failed"
        PROVE  LET k == entry[b][l].job IN k \in Ids /\ (job'[k].status = "done" => call'[k] = "meta")
    <3>1. PICK k \in Ids : k = entry[b][l].job /\ (Status(k) = "done" => call[k] = "meta")
      BY <1>0, <2>3 DEF Records, RecordFollowsJob
    <3>2. AssetOf(k) = b /\ LangOf(k) = l /\ ~IsSidecar(k)
      BY <3>1 DEF Records, EntryJob
    <3>3. entry' # Recorded(k, "done")
      <4>1. entry' = Recorded(k, "done") => entry'[b][l] = [status |-> "done", job |-> k]
        BY <1>0, <3>2, RecordedSays
      <4>2. QED BY <1>1, <2>3, <4>1
    <3>4. QED BY <3>1, <3>2, <3>3, MovedStep DEF Moved
  <2>4. QED BY <1>1, <2>1, <2>2, <2>3
<1>2. CASE entry'[b][l] # entry[b][l]
  <2>1. PICK i \in Ids, s \in {"failed", "done"} : Says(i, s)
    BY <1>2, ToldStep DEF StepTold
  <2>2. entry'[b][l].status = s /\ entry'[b][l].job = i /\ job'[i].status = s
    BY <1>2, <2>1, SaysIs DEF Says
  <2>3. QED BY <2>2
<1>3. QED BY <1>1, <1>2

LEMMA LaterWas ==
  ASSUME TypeOK, JobsOK, [Next]_vars, ~Enqueues, NEW x \in Ids, NEW y \in Ids, Later(x, y)'
  PROVE  Later(x, y)
<1>1. Moved(x) /\ Moved(y)
  BY MovedStep
<1>2. QED BY <1>1 DEF Moved, Later, Rivals, AssetOf, LangOf, IsSidecar, Status

LEMMA OrderStep ==
  ASSUME TypeOK, JobsOK, InOrder, Overlaps, [Next]_vars, ~Enqueues
  PROVE  InOrder' /\ Overlaps'
<1>1. \A x \in Ids : Moved(x)
  BY MovedStep
<1>2. InOrder'
  BY <1>1 DEF InOrder, Moved, Status
<1>3. ASSUME NEW x \in Ids, NEW y \in Ids, Later(x, y)', Unsettled(x)'
      PROVE  {x, y} \subseteq overlapped'
  <2>1. Unsettled(x)
    BY <1>1, <1>3 DEF Moved
  <2>2. QED BY <1>3, <2>1, LaterWas, ToldStep DEF Overlaps, StepTold
<1>4. QED BY <1>2, <1>3 DEF Overlaps

LEMMA LatestStep ==
  ASSUME TypeOK, JobsOK, Records, Overlaps, Latest, [Next]_vars, ~Enqueues
  PROVE  Latest'
<1>1. ASSUME NEW b \in Assets \ removed', NEW l \in Langs, NEW k \in Ids, k = entry'[b][l].job,
             entry'[b][l].status = "done", k \notin overlapped', NEW y \in Ids, Later(k, y)'
      PROVE  FALSE
  <2>1. Later(k, y) /\ b \notin removed /\ k \notin overlapped
    BY <1>1, LaterWas, ToldStep DEF StepTold
  <2>2. CASE entry'[b][l] = entry[b][l]
    BY <1>1, <2>1, <2>2 DEF Latest
  <2>3. CASE entry'[b][l] # entry[b][l]
    <3>1. PICK i \in Ids, s \in {"failed", "done"} : Says(i, s)
      BY <2>3, ToldStep DEF StepTold
    <3>2. s = "done" /\ i = k /\ ~IsSidecar(i)
      BY <1>1, <2>3, <3>1, SaysIs
    <3>3. Unsettled(k)
      BY <3>1, <3>2 DEF Says, Unsettled
    <3>4. QED BY <2>1, <3>3 DEF Overlaps
  <2>4. QED BY <2>2, <2>3
<1>2. RecordFollowsJob'
  BY RecordsStep
<1>3. ASSUME NEW b \in Assets \ removed', NEW l \in Langs, entry'[b][l].status = "done",
             entry'[b][l].job \notin overlapped'
      PROVE  \A y \in Ids : \A k \in Ids : k = entry'[b][l].job => ~Later(k, y)'
  BY <1>1, <1>3
<1>4. \A b \in Assets \ removed', l \in Langs : entry'[b][l].status = "done" => entry'[b][l].job \in Ids
  BY <1>2 DEF RecordFollowsJob
<1>5. QED BY <1>3, <1>4 DEF Latest, Later, Rivals, AssetOf, LangOf, IsSidecar, Status

\* Nothing takes away the transcript of the last job of its asset and language, but users.
LEMMA ThereStep ==
  ASSUME TypeOK, JobsOK, Records, Overlaps, Latest, TranscriptIsThere, [Next]_vars, ~Enqueues
  PROVE  TranscriptIsThere'
<1>1. ASSUME NEW b \in Assets \ removed', NEW l \in Langs, NEW k \in Ids, k = entry'[b][l].job,
             entry'[b][l].status = "done", k \notin overlapped' \cup deleted'
      PROVE  k \in files'
  <2>1. b \notin removed /\ k \notin overlapped \cup deleted
    BY <1>1, ToldStep DEF StepTold
  <2>2. k \in files /\ (\A y \in Ids : ~Later(k, y))
    <3>1. CASE entry'[b][l] = entry[b][l]
      BY <1>1, <2>1, <3>1 DEF Latest, TranscriptIsThere
    <3>2. CASE entry'[b][l] # entry[b][l]
      <4>1. PICK i \in Ids, s \in {"failed", "done"} : Says(i, s)
        BY <3>2, ToldStep DEF StepTold
      <4>2. s = "done" /\ i = k /\ ~IsSidecar(i)
        BY <1>1, <3>2, <4>1, SaysIs
      <4>3. call[k] = "meta" /\ Unsettled(k)
        BY <4>1, <4>2 DEF Says, Unsettled
      <4>4. QED BY <2>1, <4>3 DEF Overlaps, JobsOK, JobOK
    <3>3. QED BY <3>1, <3>2
  <2>3. SUFFICES ASSUME k \notin files'
                 PROVE  FALSE
    OBVIOUS
  <2>4. PICK j \in Ids : k \in todo[j] /\ k \in metas /\ Outdated(j, k)
    BY <1>1, <2>2, <2>3, ToldStep DEF StepTold, Goes
  <2>5. /\ j # k /\ ~IsSidecar(j) /\ ~IsSidecar(k) /\ call[j] = "over" /\ call[k] = "over"
        /\ Unsettled(j)
    BY <2>4 DEF JobsOK, JobOK, Unsettled
  <2>6. Status(j) # "new" /\ Status(k) # "new" /\ Rivals(j, k) /\ Rivals(k, j)
    BY <2>4, <2>5 DEF JobsOK, JobOK, Running, Terminal, Outdated, Rivals
  <2>7. CASE j < k
    BY <2>1, <2>5, <2>6, <2>7 DEF Overlaps, Later
  <2>8. CASE k < j
    BY <2>2, <2>6, <2>8 DEF Later
  <2>9. QED BY <2>5, <2>7, <2>8, IdsFinite
<1>2. \A b \in Assets \ removed', l \in Langs : entry'[b][l].status = "done" => entry'[b][l].job \in Ids
  BY RecordsStep DEF RecordFollowsJob
<1>3. QED BY <1>1, <1>2 DEF TranscriptIsThere

-----------------------------------------------------------------------------
(* The transcripter *)

LEMMA TInit == Init => TInv
<1> SUFFICES ASSUME Init PROVE TInv
  OBVIOUS
<1>1. Blank \in JobType /\ Blank.status = "new"
  BY TranscripterAssumption DEF Blank, JobType, Purposes
<1>2. [status |-> "none", job |-> NoJob] \in EntryType /\ NoJob \notin Ids
  BY IdsFinite DEF EntryType
<1>3. TypeOK
  BY <1>1, <1>2, TranscripterAssumption DEF Init, TypeOK, Calls
<1>4. JobsOK
  BY <1>1 DEF Init, JobsOK, JobOK, Status, Child
<1>5. Slots
  <2>1. Queued = {} /\ Busy = {}
    BY <1>1 DEF Init, Queued, Busy, Status
  <2>2. QED BY <1>3, <2>1, TranscripterAssumption, FS_EmptySet DEF Init, Slots, NoIdleWorker, Min2, TypeOK
<1>6. Records
  BY <1>2 DEF Init, Records, EntryJob, RecordFollowsJob
<1>7. InOrder /\ Overlaps
  BY <1>1 DEF Init, InOrder, Overlaps, Later, Status
<1>8. Latest /\ TranscriptIsThere
  BY DEF Init, Latest, TranscriptIsThere
<1>9. QED BY <1>3, <1>4, <1>5, <1>6, <1>7, <1>8 DEF TInv

LEMMA TStep == TInv /\ [Next]_vars => TInv'
<1> SUFFICES ASSUME TInv, [Next]_vars PROVE TInv'
  OBVIOUS
<1>1. TypeOK' /\ JobsOK' /\ Slots'
  BY TypesStep, JobsStep, SlotsStep DEF TInv
<1>2. CASE Enqueues
  BY <1>1, <1>2, RecordsEnqueue, InOrderEnqueue, OverlapsEnqueue, LatestEnqueue, ThereEnqueue DEF TInv
<1>3. CASE ~Enqueues
  BY <1>1, <1>3, EntryJobStep, RecordsStep, OrderStep, LatestStep, ThereStep DEF TInv, Records
<1>4. QED BY <1>2, <1>3

\* Jobs, workers, files and records keep their types.
THEOREM TranscripterTyped == Spec => []TypeOK
<1>1. TInv => TypeOK
  BY DEF TInv
<1>2. QED BY <1>1, TInit, TStep, PTL DEF Spec

\* As many workers are busy, or about to be woken, as there are jobs for them, whatever ends,
\* fails, times out or is canceled, and however the setting changes.
THEOREM NoWorkerIdles == Spec => []NoIdleWorker
<1>1. TInv => NoIdleWorker
  BY DEF TInv, Slots
<1>2. QED BY <1>1, TInit, TStep, PTL DEF Spec

\* The registry's record of an asset's transcript tells the truth about a job of that asset.
THEOREM RegistryFollows == Spec => []RecordFollowsJob
<1>1. TInv => RecordFollowsJob
  BY DEF TInv, Records
<1>2. QED BY <1>1, TInit, TStep, PTL DEF Spec

\* No prune takes away the transcript a record points at, but after jobs of one asset and
\* language overlapped.
THEOREM TranscriptStays == Spec => []TranscriptIsThere
<1>1. TInv => TranscriptIsThere
  BY DEF TInv
<1>2. QED BY <1>1, TInit, TStep, PTL DEF Spec

-----------------------------------------------------------------------------
(* Provisioning *)

\* The transcript of a sidecar that ended stays on disk, and one whose callbacks run with
\* done is there.
LEMMA SidecarStep ==
  ASSUME TypeOK, JobsOK, [Next]_vars, NEW x \in Ids, IsSidecar(x)
  PROVE  /\ x \in files /\ Status(x) \in {"done", "gone"} => x \in files'
         /\ x \in fired' \ fired /\ job'[x].status = "done" => x \in files'
<1> DEFINE Stays == /\ x \in files /\ Status(x) \in {"done", "gone"} => x \in files'
                    /\ x \in fired' \ fired /\ job'[x].status = "done" => x \in files'
<1> USE DEF Status, disk
<1>0. JobOK(x) /\ x \notin metas
  BY DEF JobsOK, JobOK
<1>1. CASE Enqueues
  BY <1>1, AsksIs DEF Enqueue
<1>2. CASE ProcessNext
  <2>1. files' = files
    BY <1>2, RunnerIs
  <2>2. CASE NothingToStart
    BY <2>1, <2>2 DEF NothingToStart
  <2>3. ASSUME NEW i \in Ids, Starts(i)
        PROVE  Stays
    BY <2>1, <2>3, FailIs DEF Starts, StartWhisper, StartTranslation, NothingToTranslate, FailNow, Fire
  <2>4. QED BY <1>2, <2>2, <2>3, RunnerIs
<1>3. ASSUME NEW i \in Ids, AudioDone(i)
      PROVE  Stays
  BY <1>0, <1>3 DEF AudioDone, JobOK, TypeOK, IsSidecar
<1>4. ASSUME NEW i \in Ids, WhisperDone(i)
      PROVE  Stays
  BY <1>0, <1>4 DEF WhisperDone, JobOK, TypeOK, IsSidecar
<1>5. ASSUME NEW i \in Ids, Result(i)
      PROVE  Stays
  BY <1>0, <1>5 DEF Result, Fire, JobOK, TypeOK, IsSidecar
<1>6. ASSUME NEW i \in Ids, ChildFails(i)
      PROVE  Stays
  BY <1>6, FailIs DEF ChildFails, CatchError, FailNow, Fire
<1>7. ASSUME NEW i \in Ids, Exit(i)
      PROVE  Stays
  BY <1>0, <1>7 DEF Exit, JobOK, TypeOK, IsSidecar
<1>8. ASSUME NEW i \in Ids, Translated(i)
      PROVE  Stays
  BY <1>0, <1>8 DEF Translated, JobOK, TypeOK, IsSidecar
<1>9. ASSUME NEW i \in Ids, TranslationFails(i)
      PROVE  Stays
  BY <1>9, FailIs DEF TranslationFails, CatchError, FailNow, Fire
<1>10. ASSUME NEW i \in Ids, MetaWritten(i)
      PROVE  Stays
  BY <1>0, <1>10 DEF MetaWritten, Fire, JobOK, TypeOK, IsSidecar
<1>11. ASSUME NEW i \in Ids, Timeout(i)
      PROVE  Stays
  BY <1>11, FailIs DEF Timeout, CatchError, FailNow, Fire
<1>12. ASSUME NEW i \in Ids, Progress(i)
      PROVE  Stays
  BY <1>0, <1>12 DEF Progress, JobOK, TypeOK, IsSidecar
<1>13. ASSUME NEW i \in Ids, PruneLists(i)
      PROVE  Stays
  BY <1>0, <1>13 DEF PruneLists, OnlyPrunes, JobOK, TypeOK, IsSidecar
<1>14. ASSUME NEW i \in Ids, NEW k \in Ids, PruneOne(i, k)
      PROVE  Stays
  BY <1>0, <1>14 DEF PruneOne, OnlyPrunes, JobOK, TypeOK, IsSidecar
<1>15. ASSUME NEW i \in Ids, Cancel(i)
      PROVE  Stays
  BY <1>0, <1>15 DEF Cancel, JobOK, TypeOK, IsSidecar
<1>16. ASSUME NEW i \in Ids, AutoFail(i)
      PROVE  Stays
  BY <1>16, FailIs DEF AutoFail, CatchError, FailNow, Fire
<1>17. ASSUME NEW a \in Assets, DeleteAsset(a)
      PROVE  Stays
  BY <1>0, <1>17 DEF DeleteAsset, JobOK, TypeOK, IsSidecar, Live, Running
<1>18. ASSUME NEW S \in SUBSET metas, DeleteTranscripts(S)
      PROVE  Stays
  BY <1>0, <1>18 DEF DeleteTranscripts, OnlyDeletes, JobOK, TypeOK, IsSidecar
<1>19. ASSUME ClearDuplicates
      PROVE  Stays
  BY <1>0, <1>19 DEF ClearDuplicates, OnlyDeletes, JobOK, TypeOK, IsSidecar
<1>20. ASSUME NEW n \in 1..MaxWorkers, SetWorkers(n)
      PROVE  Stays
  BY <1>0, <1>20 DEF SetWorkers, JobOK, TypeOK, IsSidecar
<1>21. ASSUME Restart
      PROVE  Stays
  BY <1>0, <1>21 DEF Restart, JobOK, TypeOK, IsSidecar
<1>22. CASE UNCHANGED vars
  BY <1>22 DEF vars
<1>23. QED BY <1>1, <1>2, <1>3, <1>4, <1>5, <1>6, <1>7, <1>8, <1>9, <1>10, <1>11, <1>12, <1>13, <1>14, <1>15, <1>16, <1>17, <1>18, <1>19, <1>20, <1>21, <1>22 DEF Next, OwnStep, JobStep, WorkerStep, UserStep, Enqueues

\* A sidecar stays one, and one that ended well stays so.
LEMMA SidecarKept ==
  ASSUME TypeOK, JobsOK, [Next]_vars, NEW x \in Ids, Status(x) # "new", IsSidecar(x)
  PROVE  /\ job'[x].status # "new" /\ job'[x].purpose = "lpai_sidecar"
         /\ Status(x) \in {"done", "gone"} => job'[x].status \in {"done", "gone"}
<1>1. CASE Enqueues
  BY <1>1, AsksIs, ComesIs DEF Status, IsSidecar
<1>2. CASE ~Enqueues
  BY <1>2, MovedStep DEF Moved, Status, IsSidecar
<1>3. QED BY <1>1, <1>2

\* Each step of provisioning is a step of the transcripter, or none of its.
LEMMA StepsAreTheirs ==
  ASSUME ProvTypeOK, CallsOK, [PNext]_pvars
  PROVE  [Next]_vars
<1>1. ASSUME NEW p \in Provisions, ProvStep(p)
      PROVE  [Next]_vars
  <2>1. CASE \E i \in Ids : Transcribe(p, i)
    <3>1. PICK i \in Ids : EnqueueSidecar(i, AssetIn(p)) /\ prov[p].pc = "next"
      BY <2>1 DEF Transcribe
    <3>2. prov[p].rest \in Seq(Assets) /\ prov[p].rest # <<>>
      BY <3>1 DEF ProvTypeOK, ProvType, CallsOK
    <3>3. AssetIn(p) \in Assets
      BY <3>2 DEF AssetIn
    <3>4. QED BY <3>1, <3>3 DEF Next
  <2>2. CASE Skip(p) \/ UseCached(p) \/ UseBase(p) \/ Pushed(p)
    BY <2>2 DEF Skip, UseCached, UseBase, Pushed
  <2>3. QED BY <1>1, <2>1, <2>2 DEF ProvStep
<1>2. TranscripterStep \/ RestartAll => Next
  BY DEF TranscripterStep, RestartAll, Next, OwnStep
<1>3. ASSUME NEW p \in Provisions, NEW b \in Batches, Begin(p, b)
      PROVE  [Next]_vars
  BY <1>3 DEF Begin
<1>4. QED BY <1>1, <1>2, <1>3 DEF PNext, pvars

\* What a call may be after a step.
CallOK(q) ==
  /\ q \in ProvType
  /\ q.pc # "idle" => q.rest # <<>>

LEMMA IdleOK == CallOK(Idle)
  BY DEF CallOK, Idle, ProvType, Stages

LEMMA AdvancedOK ==
  ASSUME NEW q, CallOK(q)
  PROVE  CallOK(Advanced(q)) /\ Advanced(q).pc # "waiting"
<1>1. CASE Len(q.rest) > 1
  <2>0. q.rest \in Seq(Assets)
    BY DEF CallOK, ProvType
  <2>1. Tail(q.rest) \in Seq(Assets) /\ Tail(q.rest) # <<>>
    <3> DEFINE s == q.rest
    <3>1. s \in Seq(Assets) /\ Len(s) > 1 /\ s # <<>>
      BY <1>1, <2>0
    <3> HIDE DEF s
    <3>2. Tail(s) \in Seq(Assets) /\ Len(Tail(s)) = Len(s) - 1
      BY <3>1
    <3>3. Tail(s) # <<>>
      <4>1. Len(s) \in Nat /\ Len(<<>>) = 0
        BY <3>1
      <4>2. Len(Tail(s)) # 0
        BY <3>1, <3>2, <4>1
      <4>3. QED BY <4>1, <4>2
    <3>4. QED BY <3>2, <3>3 DEF s
  <2>2. Advanced(q) = [rest |-> Tail(q.rest), pc |-> "next", sidecar |-> NoJob, source |-> NoJob]
    BY <1>1 DEF Advanced, Idle
  <2>3. QED BY <2>1, <2>2 DEF CallOK, ProvType, Stages
<1>2. CASE ~(Len(q.rest) > 1)
  BY <1>2, IdleOK DEF Advanced, Idle
<1>3. QED BY <1>1, <1>2

\* The steps of a call.
LEMMA CallsStep ==
  ASSUME TInv, ProvTypeOK, CallsOK, NEW p \in Provisions, ProvStep(p) \/ \E b \in Batches : Begin(p, b)
  PROVE  /\ prov' = [prov EXCEPT ![p] = prov'[p]] /\ CallOK(prov'[p]) /\ marker' = marker
         /\ prov'[p].pc = "waiting" => /\ prov'[p].sidecar \in Ids
                                       /\ job'[prov'[p].sidecar].purpose = "lpai_sidecar"
                                       /\ job'[prov'[p].sidecar].status # "new"
<1>1. CallOK(prov[p])
  BY DEF CallOK, CallsOK, ProvTypeOK
<1>2. CASE Skip(p) \/ Pushed(p)
  BY <1>1, <1>2, AdvancedOK DEF Skip, Pushed, ProvTypeOK
<1>3. ASSUME NEW b \in Batches, Begin(p, b)
      PROVE  /\ prov' = [prov EXCEPT ![p] = prov'[p]] /\ CallOK(prov'[p]) /\ marker' = marker
             /\ prov'[p].pc # "waiting"
  <2>1. prov'[p] = [rest |-> b, pc |-> "next", sidecar |-> NoJob, source |-> NoJob]
    BY <1>3 DEF Begin, Idle, ProvTypeOK
  <2>2. QED BY <1>3, <2>1, ProvisioningAssumption DEF Begin, CallOK, ProvType, Stages, ProvTypeOK
<1>4. CASE UseCached(p) \/ UseBase(p) \/ \E i \in Ids : Transcribe(p, i)
  <2>1. prov[p].rest \in Seq(Assets) /\ prov[p].rest # <<>> /\ prov[p].pc = "next"
    BY <1>1, <1>4 DEF CallOK, ProvType, UseCached, UseBase, Transcribe
  <2>2. AssetIn(p) \in Assets
    BY <2>1 DEF AssetIn
  <2>3. marker[AssetIn(p)] \in Ids \cup {NoJob} /\ entry[AssetIn(p)]["en"].job \in Ids \cup {NoJob}
    BY <2>2 DEF ProvTypeOK, TInv, TypeOK, EntryType, Langs
  <2>4. CASE UseCached(p)
    BY <1>1, <2>3, <2>4 DEF UseCached, CallOK, ProvTypeOK, ProvType, Stages
  <2>5. CASE UseBase(p)
    BY <1>1, <2>3, <2>5 DEF UseBase, CallOK, ProvTypeOK, ProvType, Stages
  <2>6. ASSUME NEW i \in Ids, Transcribe(p, i)
        PROVE  /\ prov' = [prov EXCEPT ![p] = prov'[p]] /\ CallOK(prov'[p]) /\ marker' = marker
               /\ prov'[p].sidecar = i /\ job'[i].purpose = "lpai_sidecar" /\ job'[i].status # "new"
    <3>1. job'[i].purpose = "lpai_sidecar" /\ job'[i].status = "queued"
      BY <2>2, <2>6, ComesIs DEF Transcribe, EnqueueSidecar, Purposes, TInv
    <3>2. prov' = [prov EXCEPT ![p].pc = "waiting", ![p].sidecar = i, ![p].source = entry[AssetIn(p)]["en"].job]
          /\ marker' = marker
      BY <2>6 DEF Transcribe
    <3>3. prov'[p] = [prov[p] EXCEPT !.pc = "waiting", !.sidecar = i, !.source = entry[AssetIn(p)]["en"].job]
          /\ prov' = [prov EXCEPT ![p] = prov'[p]]
      BY <3>2 DEF ProvTypeOK
    <3> DEFINE q == [prov[p] EXCEPT !.pc = "waiting", !.sidecar = i, !.source = entry[AssetIn(p)]["en"].job]
    <3>4. q.sidecar = i /\ q.rest = prov[p].rest /\ q.pc = "waiting"
      BY <1>1 DEF CallOK, ProvType
    <3>5. q \in ProvType
      BY <1>1, <2>3 DEF CallOK, ProvType, Stages
    <3>6. CallOK(q)
      BY <1>1, <2>1, <3>4, <3>5 DEF CallOK
    <3>7. QED BY <3>1, <3>2, <3>3, <3>4, <3>6
  <2>7. QED BY <1>4, <2>4, <2>5, <2>6
<1>5. QED BY <1>2, <1>3, <1>4 DEF ProvStep

\* The callbacks take a call from its wait to its push, and mark the sidecars that are there.
LEMMA TellStep ==
  ASSUME TInv, ProvTypeOK, CallsOK, MarkerOK, [Next]_vars, Tell
  PROVE  ProvTypeOK' /\ CallsOK' /\ MarkerOK'
<1>1. ASSUME NEW p \in Provisions
      PROVE  /\ CallOK(prov'[p])
             /\ prov'[p].pc = "waiting" => prov'[p] = prov[p]
  <2>1. CallOK(prov[p]) /\ prov'[p] = Resolved(p)
    BY DEF CallOK, CallsOK, ProvTypeOK, Tell
  <2>2. CASE ~Told(p)
    BY <2>1, <2>2 DEF Resolved
  <2>3. CASE Told(p)
    <3>1. prov[p].pc = "waiting" /\ prov[p].sidecar \in Ids
      BY <2>3 DEF Told, CallsOK
    <3>2. PICK s \in Ids \cup {NoJob} : prov'[p] = [prov[p] EXCEPT !.pc = "pushing", !.source = s]
      <4>1. CASE job'[prov[p].sidecar].status = "done"
        BY <2>1, <2>3, <3>1, <4>1 DEF Resolved
      <4>2. CASE job'[prov[p].sidecar].status # "done"
        BY <2>1, <2>3, <4>2 DEF Resolved, CallOK, ProvType
      <4>3. QED BY <4>1, <4>2
    <3>3. QED BY <2>1, <3>1, <3>2 DEF CallOK, ProvType, Stages
  <2>4. QED BY <2>2, <2>3
<1>2. prov' \in [Provisions -> ProvType]
  BY <1>1 DEF Tell, CallOK
<1>3. ASSUME NEW a \in Assets, marker'[a] # NoJob
      PROVE  /\ marker'[a] \in Ids /\ marker'[a] \in files' /\ job'[marker'[a]].purpose = "lpai_sidecar"
             /\ job'[marker'[a]].status \in {"done", "gone"}
  <2>1. CASE \E i \in Ids : Succeeded(a, i)
    <3>1. PICK i \in Ids : i = marker'[a] /\ Succeeded(a, i)
      BY <2>1 DEF Tell
    <3>2. /\ IsSidecar(i) /\ Status(i) # "new"
          /\ i \in fired' \ fired /\ job'[i].status = "done"
      BY <3>1 DEF Succeeded, Told, CallsOK
    <3>3. QED BY <3>1, <3>2, SidecarStep, SidecarKept DEF TInv
  <2>2. CASE ~\E i \in Ids : Succeeded(a, i)
    <3>1. marker'[a] = marker[a] /\ marker[a] \in Ids
      BY <1>3, <2>2 DEF Tell, ProvTypeOK
    <3>2. marker[a] \in files /\ IsSidecar(marker[a]) /\ Status(marker[a]) \in {"done", "gone"}
      BY <1>3, <3>1 DEF MarkerOK
    <3>3. QED BY <3>1, <3>2, SidecarStep, SidecarKept DEF TInv
  <2>3. QED BY <2>1, <2>2
<1>4. marker' \in [Assets -> Ids \cup {NoJob}]
  <2>1. marker' = [a \in Assets |-> marker'[a]]
    BY DEF Tell
  <2>2. QED BY <1>3, <2>1
<1>5. CallsOK'
  BY <1>1, SidecarKept DEF CallsOK, CallOK, TInv, IsSidecar, Status
<1>6. QED BY <1>2, <1>3, <1>4, <1>5 DEF ProvTypeOK, MarkerOK, IsSidecar, Status

\* What the marker names is left alone by a step that does not change the marker.
LEMMA MarkerKept ==
  ASSUME TInv, ProvTypeOK, MarkerOK, [Next]_vars, UNCHANGED marker
  PROVE  MarkerOK'
<1>1. ASSUME NEW a \in Assets, marker[a] # NoJob
      PROVE  /\ marker[a] \in files' /\ job'[marker[a]].purpose = "lpai_sidecar"
             /\ job'[marker[a]].status \in {"done", "gone"}
  <2>1. marker[a] \in Ids /\ marker[a] \in files /\ IsSidecar(marker[a])
        /\ Status(marker[a]) \in {"done", "gone"}
    BY <1>1 DEF ProvTypeOK, MarkerOK
  <2>2. QED BY <2>1, SidecarStep, SidecarKept DEF TInv
<1>2. QED BY <1>1 DEF MarkerOK, IsSidecar, Status

LEMMA ProvInit == PInit => PInv
<1> SUFFICES ASSUME PInit PROVE PInv
  OBVIOUS
<1>1. TInv
  BY TInit DEF PInit
<1>2. ProvTypeOK /\ CallsOK /\ MarkerOK
  BY IdleOK DEF PInit, ProvTypeOK, CallsOK, MarkerOK, CallOK, Idle
<1>3. QED BY <1>1, <1>2 DEF PInv

LEMMA ProvInvStep == PInv /\ [PNext]_pvars => PInv'
<1> SUFFICES ASSUME PInv, [PNext]_pvars PROVE PInv'
  OBVIOUS
<1>1. TInv' /\ [Next]_vars
  BY StepsAreTheirs, TStep DEF PInv
<1>2. CASE TranscripterStep
  BY <1>1, <1>2, TellStep DEF TranscripterStep, PInv
<1>3. CASE RestartAll
  <2>1. ProvTypeOK' /\ CallsOK'
    BY <1>3, IdleOK DEF RestartAll, ProvTypeOK, CallsOK, CallOK, Idle, PInv
  <2>2. QED BY <1>1, <1>3, <2>1, MarkerKept DEF RestartAll, PInv
<1>4. ASSUME NEW p \in Provisions, ProvStep(p) \/ \E b \in Batches : Begin(p, b)
      PROVE  PInv'
  <2>1. /\ prov' = [prov EXCEPT ![p] = prov'[p]] /\ CallOK(prov'[p]) /\ marker' = marker
        /\ prov'[p].pc = "waiting" => /\ prov'[p].sidecar \in Ids
                                      /\ job'[prov'[p].sidecar].purpose = "lpai_sidecar"
                                      /\ job'[prov'[p].sidecar].status # "new"
    BY <1>4, CallsStep DEF PInv
  <2>2. ProvTypeOK'
    BY <2>1 DEF ProvTypeOK, CallOK, PInv
  <2>3. ASSUME NEW q \in Provisions
        PROVE  /\ prov'[q].pc # "idle" => prov'[q].rest # <<>>
               /\ prov'[q].pc = "waiting" => /\ prov'[q].sidecar \in Ids
                                             /\ job'[prov'[q].sidecar].purpose = "lpai_sidecar"
                                             /\ job'[prov'[q].sidecar].status # "new"
    <3>1. CASE q = p
      BY <2>1, <3>1 DEF CallOK
    <3>2. CASE q # p
      <4>1. prov'[q] = prov[q]
        BY <2>1, <3>2 DEF PInv, ProvTypeOK
      <4>2. QED BY <1>1, <4>1, SidecarKept DEF PInv, TInv, CallsOK
    <3>3. QED BY <3>1, <3>2
  <2>4. CallsOK'
    BY <2>3 DEF CallsOK, IsSidecar, Status
  <2>5. MarkerOK'
    BY <1>1, <2>1, MarkerKept DEF PInv
  <2>6. QED BY <1>1, <2>2, <2>4, <2>5 DEF PInv
<1>5. CASE UNCHANGED pvars
  <2>1. UNCHANGED <<vars, prov, marker>>
    BY <1>5 DEF pvars
  <2>2. CallsOK' /\ ProvTypeOK'
    BY <1>1, <2>1, SidecarKept DEF CallsOK, ProvTypeOK, PInv, TInv, IsSidecar, Status
  <2>3. QED BY <1>1, <2>1, <2>2, MarkerKept DEF PInv
<1>6. QED BY <1>2, <1>3, <1>4, <1>5 DEF PNext

\* With provisioning beside it the transcripter is still the transcripter: what is proved of
\* Spec holds of PSpec.
THEOREM ProvisioningImplements == PSpec => Spec
<1>1. PInit => Init
  BY DEF PInit
<1>2. PInv /\ [PNext]_pvars => [Next]_vars
  BY StepsAreTheirs DEF PInv
<1>3. QED BY <1>1, <1>2, ProvInit, ProvInvStep, PTL DEF PSpec, Spec

\* The calls of provisioning keep their types.
THEOREM ProvisioningTyped == PSpec => []ProvTypeOK
<1>1. PInv => ProvTypeOK
  BY DEF PInv
<1>2. QED BY <1>1, ProvInit, ProvInvStep, PTL DEF PSpec

\* No later push finds the transcript of its cache hit gone.
THEOREM CacheStays == PSpec => []CacheHolds
<1>1. PInv => CacheHolds
  BY DEF PInv, MarkerOK, CacheHolds
<1>2. QED BY <1>1, ProvInit, ProvInvStep, PTL DEF PSpec

===============================================================================
