------------------------- MODULE ChunkedUpload_proofs -------------------------
(***************************************************************************)
(* Proofs about ChunkedUpload, for every set of jobs, uploads and handler  *)
(* slots, every file size and every number of restarts.  The inductive     *)
(* invariants rest one on the other: UploadInv (sessions and the bytes on  *)
(* disk), LibraryInv (what is registered for a job), FilesInv (the stable  *)
(* files and the rows that name them) and CurrentInv (what is in them)     *)
(* hold through crashes; WhileUp (who owns a temp file, and a job that     *)
(* awaits its client) says more until the server first goes down.          *)
(***************************************************************************)
EXTENDS ChunkedUpload, WellFoundedInduction, TLAPS

(***************************************************************************)
(* The inductive invariant behind OnlyCompleteFiles.  What a handler       *)
(* learnt before an await must still be true when it acts on it after:     *)
(* written only grows, so an offset once acknowledged stays covered, and a *)
(* file once complete stays complete whatever happens to its session.      *)
(***************************************************************************)
Sessions ==
  \A u \in Uploads : session[u].status # "none" => session[u].job \in Jobs

Handlers ==
  \A r \in Reqs :
    /\ req[r].pc = "create" => req[r].u \in Uploads /\ req[r].j \in Jobs
    /\ req[r].pc \notin {"idle", "create"} =>
         req[r].u \in Uploads /\ session[req[r].u].status # "none"

WrittenBounded == \A u \in Uploads : written[u] <= FileSize

OffsetsCovered ==
  \A r \in Reqs : req[r].pc = "write" =>
    req[r].off <= written[req[r].u]

CompleteInHand ==
  \A r \in Reqs : req[r].pc \in {"access", "hash", "stat", "rename", "commit"} =>
    written[req[r].u] = FileSize

CompleteAwaiting ==
  \A u \in Uploads : session[u].status = "awaiting_confirmation" => written[u] = FileSize

Recovering ==
  recovery.pc = "temp" => recovery.u \in Uploads /\ session[recovery.u].status # "none"

UploadInv ==
  /\ TypeOK
  /\ Sessions
  /\ Handlers
  /\ Recovering
  /\ WrittenBounded
  /\ OffsetsCovered
  /\ AckedBytesOnDisk
  /\ CompleteInHand
  /\ CompleteAwaiting
  /\ OnlyCompleteFiles

-----------------------------------------------------------------------------
(* The shape of the records, and what an update leaves of it.                *)

LEMMA IdleTyped ==
  /\ Idle \in RequestType
  /\ \A u \in Uploads, off \in Nat :
       [Idle EXCEPT !.pc = "write", !.u = u, !.off = off] \in RequestType
  /\ \A u \in Uploads, j \in Jobs, a \in Nat :
       [Idle EXCEPT !.pc = "create", !.u = u, !.j = j, !.target = a] \in RequestType
  /\ \A u \in Uploads, a \in Nat, p \in {"hash", "unreadable", "access"}, v \in {"finalize", "confirm"} :
       [Idle EXCEPT !.pc = p, !.via = v, !.u = u, !.target = a] \in RequestType
BY DEF Idle, RequestType

LEMMA RequestFields ==
  ASSUME NEW x \in RequestType
  PROVE  /\ x.u \in Uploads \cup {NoUpload}
         /\ x.j \in Jobs \cup {NoJob}
         /\ x.off \in Nat
         /\ x.target \in Nat
BY DEF RequestType

LEMMA RequestUpdates ==
  ASSUME NEW x \in RequestType
  PROVE  /\ \A p \in {"hash", "stat", "commit"} : [x EXCEPT !.pc = p] \in RequestType
         /\ \A t \in Nat : [x EXCEPT !.pc = "rename", !.target = t] \in RequestType
BY DEF RequestType

LEMMA SessionFields ==
  ASSUME NEW s \in SessionType
  PROVE  /\ s.status \in SessionStatuses
         /\ s.job \in Jobs \cup {NoJob}
         /\ s.received \in Nat
         /\ s.replace \in Nat
BY DEF SessionType

LEMMA SessionUpdates ==
  ASSUME NEW s \in SessionType
  PROVE  /\ \A st \in SessionStatuses : [s EXCEPT !.status = st] \in SessionType
         /\ \A n \in Nat : [s EXCEPT !.received = n] \in SessionType
BY DEF SessionType

LEMMA NewSession ==
  ASSUME NEW j \in Jobs \cup {NoJob}, NEW a \in Nat
  PROVE  [status |-> "uploading", job |-> j, received |-> 0, replace |-> a] \in SessionType
BY DEF SessionType, SessionStatuses

LEMMA SessionBecomesTyped ==
  ASSUME session \in [Uploads -> SessionType], NEW u, NEW st \in SessionStatuses,
         SessionBecomes(u, st)
  PROVE  session' \in [Uploads -> SessionType]
<1>1. \A x \in Uploads : session'[x] = IF x = u THEN [session[u] EXCEPT !.status = st] ELSE session[x]
  BY DEF SessionBecomes
<1>2. QED BY <1>1, SessionUpdates DEF SessionBecomes

LEMMA StatusTyped ==
  ASSUME NEW st \in JobStatuses
  PROVE  /\ Progressed(st) \in JobStatuses
         /\ Failed(st) \in JobStatuses
         /\ Awaiting(st) \in JobStatuses
         /\ Completed(st) \in JobStatuses
         /\ Cancelled(st) \in JobStatuses
BY DEF JobStatuses, Progressed, Failed, Awaiting, Completed, Cancelled, HasRow

LEMMA SlotTyped ==
  ASSUME req \in [Reqs -> RequestType], NEW r, NEW x \in RequestType, req' = [req EXCEPT ![r] = x]
  PROVE  req' \in [Reqs -> RequestType]
OBVIOUS


LEMMA AssetIdsNat == TypeOK => AssetIds \cup {0} \subseteq Nat
<1> SUFFICES ASSUME TypeOK, NEW i \in DOMAIN lib PROVE lib[i].asset \in Nat
  BY DEF AssetIds
<1>1. lib[i] \in VersionType
  BY DEF TypeOK
<1>2. QED BY <1>1 DEF VersionType

\* What a create call does with the upload id it takes: no session and no handler has it.
CreateTakes(r, j, a, u) ==
  /\ session[u] = NoSession
  /\ \A q \in Reqs : req[q].u # u
  /\ temp' = temp \cup {u}
  /\ req' = [req EXCEPT ![r] = [Idle EXCEPT !.pc = "create", !.u = u, !.j = j, !.target = a]]

LEMMA CreateTakesFresh ==
  ASSUME NEW r, NEW j, NEW a, CreateBegin(r, j, a)
  PROVE  \E u \in Uploads : CreateTakes(r, j, a, u)
<1> DEFINE new == CHOOSE u \in FreshUploads : TRUE
<1>1. new \in FreshUploads
  BY DEF CreateBegin
<1>2. new \in Uploads /\ session[new] = NoSession /\ \A q \in Reqs : req[q].u # new
  BY <1>1 DEF FreshUploads
<1>3. CreateTakes(r, j, a, new)
  BY <1>2 DEF CreateBegin, CreateTakes
<1>4. QED BY <1>2, <1>3

LEMMA ClientTyped ==
  ASSUME TypeOK, Sessions, ClientStep
  PROVE  TypeOK'
<1> USE DEF jobVars, fileVars, libVars, bootVars
<1>1. ASSUME NEW b, Reserve(b) PROVE TypeOK'
  <2>1. jobStatus' \in [Jobs -> JobStatuses]
    BY <1>1 DEF Reserve, TypeOK, JobStatuses
  <2>2. QED BY <1>1, <2>1 DEF Reserve, TypeOK
<1>2. ASSUME NEW r, NEW j \in Jobs, NEW a \in Nat, CreateBegin(r, j, a) PROVE TypeOK'
  <2> PICK u \in Uploads : CreateTakes(r, j, a, u)
    BY <1>2, CreateTakesFresh
  <2>1. [Idle EXCEPT !.pc = "create", !.u = u, !.j = j, !.target = a] \in RequestType
    BY IdleTyped
  <2>2. req' \in [Reqs -> RequestType]
    BY <2>1 DEF CreateTakes, TypeOK
  <2>3. QED BY <1>2, <2>2 DEF CreateBegin, CreateTakes, TypeOK
<1>3. ASSUME NEW r, NEW u \in Uploads, NEW off \in Nat, ChunkBegin(r, u, off) PROVE TypeOK'
  <2>1. req' \in [Reqs -> RequestType]
    BY <1>3, IdleTyped DEF ChunkBegin, TypeOK
  <2>2. QED BY <1>3, <2>1 DEF ChunkBegin, TypeOK
<1>4. ASSUME NEW r, NEW u \in Uploads, FinalizeBegin(r, u) PROVE TypeOK'
  <2>1. session[u].replace \in Nat
    BY SessionFields DEF TypeOK
  <2>2. req' \in [Reqs -> RequestType]
    BY <1>4, <2>1, IdleTyped DEF FinalizeBegin, TypeOK
  <2>3. jobStatus' \in [Jobs -> JobStatuses]
    BY <1>4, StatusTyped DEF FinalizeBegin, Becomes, TypeOK
  <2>4. QED BY <1>4, <2>2, <2>3 DEF FinalizeBegin, TypeOK
<1>5. ASSUME NEW r, NEW u \in Uploads, NEW a \in Nat, ConfirmBegin(r, u, a) PROVE TypeOK'
  <2>1. req' \in [Reqs -> RequestType]
    BY <1>5, IdleTyped DEF ConfirmBegin, TypeOK
  <2>2. QED BY <1>5, <2>1 DEF ConfirmBegin, TypeOK
<1>6. ASSUME NEW u \in Uploads, ChunkCancelled(u) PROVE TypeOK'
  <2>1. session' \in [Uploads -> SessionType]
    BY <1>6, SessionBecomesTyped DEF ChunkCancelled, TypeOK, SessionStatuses
  <2>2. QED BY <1>6, <2>1 DEF ChunkCancelled, TypeOK
<1>7. ASSUME NEW u \in Uploads, FinalizeUnavailable(u) PROVE TypeOK'
  <2>1. jobStatus' \in [Jobs -> JobStatuses]
    BY <1>7, StatusTyped DEF FinalizeUnavailable, Becomes, TypeOK
  <2>2. QED BY <1>7, <2>1 DEF FinalizeUnavailable, TypeOK
<1>8. ASSUME NEW u \in Uploads, FinalizeCancelled(u) \/ AbortUpload(u) PROVE TypeOK'
  <2>1. session' \in [Uploads -> SessionType]
    BY <1>8, SessionBecomesTyped DEF FinalizeCancelled, AbortUpload, TypeOK, SessionStatuses
  <2>2. jobStatus' \in [Jobs -> JobStatuses]
    <3>1. Becomes(session[u].job, Cancelled)
      BY <1>8 DEF FinalizeCancelled, AbortUpload
    <3>2. QED BY <3>1, StatusTyped DEF Becomes, TypeOK
  <2>3. cancelledIds' \subseteq Jobs
    BY <1>8 DEF FinalizeCancelled, AbortUpload, Sessions, TypeOK
  <2>4. QED BY <1>8, <2>1, <2>2, <2>3 DEF FinalizeCancelled, AbortUpload, TypeOK
<1>9. ASSUME NEW j \in Jobs, CancelJob(j) PROVE TypeOK'
  <2>1. jobStatus' \in [Jobs -> JobStatuses]
    BY <1>9, StatusTyped DEF CancelJob, Becomes, TypeOK
  <2>2. QED BY <1>9, <2>1 DEF CancelJob, TypeOK
<1>10. QED
  BY <1>1, <1>2, <1>3, <1>4, <1>5, <1>6, <1>7, <1>8, <1>9, AssetIdsNat DEF ClientStep

LEMMA RegisterTyped ==
  ASSUME TypeOK, Sessions, Handlers, NEW r \in Reqs, RegisterAsset(r)
  PROVE  TypeOK'
<1> DEFINE q == req[r]
           row == [asset |-> IF q.target = 0 THEN Len(lib) + 1 ELSE q.target,
                   key   |-> KeyOf[session[q.u].job],
                   hash  |-> HashOf(q.u),
                   src   |-> q.u,
                   at    |-> "temp",
                   dup   |-> q.target # 0 /\ lib[LatestRow(q.target)].hash = HashOf(q.u)]
<1>1. q.u \in Uploads /\ q.target \in Nat /\ session[q.u].job \in Jobs
  BY RequestFields DEF RegisterAsset, At, Handlers, Sessions, TypeOK
<1>2. lib' = Append(lib, row)
  BY DEF RegisterAsset, Register
<1>3. row \in VersionType
  <2>1. HashOf(q.u) \in [bytes : {ContentOf[j] : j \in Jobs}, size : Nat]
    BY <1>1 DEF HashOf, TypeOK
  <2>2. row.asset \in Nat
    BY <1>1 DEF TypeOK
  <2>3. QED BY <1>1, <2>1, <2>2, UploadAssumption DEF VersionType
<1>4. lib' \in Seq(VersionType)
  BY <1>2, <1>3 DEF TypeOK
<1>5. lib'[Len(lib')].asset \in Nat
  <2>1. lib'[Len(lib')] = row
    BY <1>2, <1>3 DEF TypeOK
  <2>2. QED BY <1>3, <2>1 DEF VersionType
<1>6. req' \in [Reqs -> RequestType]
  BY <1>5, RequestUpdates DEF RegisterAsset, TypeOK
<1>7. QED BY <1>4, <1>6 DEF RegisterAsset, TypeOK, jobVars, fileVars, bootVars

LEMMA StableRowTyped ==
  ASSUME TypeOK, NEW i
  PROVE  [lib EXCEPT ![i].at = "stable"] \in Seq(VersionType)
<1> DEFINE row == [lib[i] EXCEPT !.at = "stable"]
<1>1. lib \in Seq(VersionType)
  BY DEF TypeOK
<1>2. i \in 1 .. Len(lib) => row \in VersionType
  <2>1. ASSUME NEW x \in VersionType PROVE [x EXCEPT !.at = "stable"] \in VersionType
    BY DEF VersionType
  <2>2. QED BY <1>1, <2>1
<1>3. [lib EXCEPT ![i].at = "stable"] = [lib EXCEPT ![i] = row]
  OBVIOUS
<1>4. [lib EXCEPT ![i] = row] \in [1 .. Len(lib) -> VersionType]
  <2>1. DOMAIN lib = 1 .. Len(lib) /\ \A k \in 1 .. Len(lib) : lib[k] \in VersionType
    BY <1>1
  <2>2. QED BY <1>2, <2>1
<1>5. QED BY <1>1, <1>3, <1>4

LEMMA ResumeTyped ==
  ASSUME TypeOK, Sessions, Handlers, NEW r \in Reqs, Resume(r)
  PROVE  TypeOK'
<1> DEFINE q == req[r]
<1> USE DEF jobVars, fileVars, libVars, bootVars
<1>0. /\ q \in RequestType
      /\ q.u \in Uploads \cup {NoUpload}
      /\ q.j \in Jobs \cup {NoJob}
      /\ q.off \in Nat
      /\ EndOf(q.off) \in Nat
      /\ q.target \in Nat
      /\ Idle \in RequestType
  <2>1. q \in RequestType
    BY DEF TypeOK
  <2>2. /\ q.u \in Uploads \cup {NoUpload}
        /\ q.j \in Jobs \cup {NoJob}
        /\ q.off \in Nat
        /\ q.target \in Nat
    BY <2>1, RequestFields
  <2>3. EndOf(q.off) \in Nat
    BY <2>2 DEF EndOf
  <2>4. Idle \in RequestType
    BY IdleTyped
  <2>5. QED BY <2>1, <2>2, <2>3, <2>4
<1>1. CASE CreateInsert(r)
  <2>1. session' \in [Uploads -> SessionType]
    BY <1>0, <1>1, NewSession DEF CreateInsert, TypeOK
  <2>2. req' \in [Reqs -> RequestType]
    BY <1>0, <1>1 DEF CreateInsert, TypeOK
  <2>3. jobTemp' \in [Jobs -> Uploads \cup {NoUpload}]
    BY <1>0, <1>1 DEF CreateInsert, TypeOK
  <2>4. QED BY <1>1, <2>1, <2>2, <2>3 DEF CreateInsert, TypeOK
<1>14. CASE InsertRefused(r)
  <2>1. q.u \in Uploads
    BY <1>14 DEF InsertRefused, Handlers, At
  <2>2. req' \in [Reqs -> RequestType]
    BY <1>0, <1>14 DEF InsertRefused, TypeOK
  <2>3. QED BY <1>14, <2>1, <2>2 DEF InsertRefused, TypeOK
<1>2. CASE ChunkWritten(r)
  <2>1. jobStatus' \in [Jobs -> JobStatuses]
    BY <1>2, StatusTyped DEF ChunkWritten, Becomes, TypeOK
  <2>2. written' \in [Uploads -> Nat]
    BY <1>0, <1>2 DEF ChunkWritten, TypeOK
  <2>3. session' \in [Uploads -> SessionType]
    BY <1>0, <1>2, SessionUpdates DEF ChunkWritten, TypeOK
  <2>4. req' \in [Reqs -> RequestType]
    BY <1>0, <1>2 DEF ChunkWritten, TypeOK
  <2>5. QED BY <1>2, <2>1, <2>2, <2>3, <2>4 DEF ChunkWritten, TypeOK
<1>3. CASE ChunkFailed(r) \/ ConfirmUnavailable(r)
  <2>1. req' \in [Reqs -> RequestType]
    BY <1>0, <1>3 DEF ChunkFailed, ConfirmUnavailable, TypeOK
  <2>2. QED BY <1>3, <2>1 DEF ChunkFailed, ConfirmUnavailable, TypeOK
<1>4. CASE ConfirmMissing(r)
  <2>1. session' \in [Uploads -> SessionType]
    BY <1>4, SessionBecomesTyped DEF ConfirmMissing, TypeOK, SessionStatuses
  <2>2. jobStatus' \in [Jobs -> JobStatuses]
    BY <1>4, StatusTyped DEF ConfirmMissing, Becomes, TypeOK
  <2>3. req' \in [Reqs -> RequestType]
    BY <1>0, <1>4 DEF ConfirmMissing, TypeOK
  <2>4. QED BY <1>4, <2>1, <2>2, <2>3 DEF ConfirmMissing, TypeOK
<1>5. CASE ConfirmProceed(r)
  <2>1. jobStatus' \in [Jobs -> JobStatuses]
    BY <1>5, StatusTyped DEF ConfirmProceed, Becomes, TypeOK
  <2>2. req' \in [Reqs -> RequestType]
    BY <1>0, <1>5, RequestUpdates DEF ConfirmProceed, TypeOK
  <2>3. QED BY <1>5, <2>1, <2>2 DEF ConfirmProceed, TypeOK
<1>6. CASE HashFailed(r)
  <2>1. jobStatus' \in [Jobs -> JobStatuses]
    BY <1>6, StatusTyped DEF HashFailed, Becomes, TypeOK
  <2>2. req' \in [Reqs -> RequestType]
    BY <1>0, <1>6 DEF HashFailed, TypeOK
  <2>3. QED BY <1>6, <2>1, <2>2 DEF HashFailed, TypeOK
<1>7. CASE HashedDuplicate(r)
  <2>1. session' \in [Uploads -> SessionType]
    BY <1>7, SessionBecomesTyped DEF HashedDuplicate, TypeOK, SessionStatuses
  <2>2. jobStatus' \in [Jobs -> JobStatuses]
    <3>1. Becomes(session[q.u].job, Failed) \/ Becomes(session[q.u].job, Completed)
      BY <1>7 DEF HashedDuplicate
    <3>2. CASE Becomes(session[q.u].job, Failed)
      BY <3>2, StatusTyped DEF Becomes, TypeOK
    <3>3. CASE Becomes(session[q.u].job, Completed)
      BY <3>3, StatusTyped DEF Becomes, TypeOK
    <3>4. QED BY <3>1, <3>2, <3>3
  <2>3. req' \in [Reqs -> RequestType]
    BY <1>0, <1>7 DEF HashedDuplicate, TypeOK
  <2>4. QED BY <1>7, <2>1, <2>2, <2>3 DEF HashedDuplicate, TypeOK
<1>8. CASE HashedVersion(r)
  <2>1. session' \in [Uploads -> SessionType]
    BY <1>8, SessionBecomesTyped DEF HashedVersion, TypeOK, SessionStatuses
  <2>2. jobStatus' \in [Jobs -> JobStatuses]
    BY <1>8, StatusTyped DEF HashedVersion, Becomes, TypeOK
  <2>3. req' \in [Reqs -> RequestType]
    BY <1>0, <1>8 DEF HashedVersion, TypeOK
  <2>4. QED BY <1>8, <2>1, <2>2, <2>3 DEF HashedVersion, TypeOK
<1>9. CASE HashedNew(r)
  <2>1. req' \in [Reqs -> RequestType]
    BY <1>0, <1>9, RequestUpdates DEF HashedNew, TypeOK
  <2>2. QED BY <1>9, <2>1 DEF HashedNew, TypeOK
<1>10. CASE RenameFile(r)
  <2>1. req' \in [Reqs -> RequestType]
    BY <1>0, <1>10, RequestUpdates DEF RenameFile, TypeOK
  <2>2. q.u \in Uploads
    BY <1>10 DEF RenameFile, TypeOK
  <2>3. stable' \subseteq [asset : Nat, src : Uploads]
    BY <1>0, <1>10, <2>2 DEF RenameFile, TypeOK
  <2>4. QED BY <1>10, <2>1, <2>3 DEF RenameFile, TypeOK
<1>11. CASE FinalizeThrows(r)
  <2>1. jobStatus' \in [Jobs -> JobStatuses]
    BY <1>11, StatusTyped DEF FinalizeThrows, Becomes, TypeOK
  <2>2. req' \in [Reqs -> RequestType]
    BY <1>0, <1>11 DEF FinalizeThrows, TypeOK
  <2>3. QED BY <1>11, <2>1, <2>2 DEF FinalizeThrows, TypeOK
<1>12. CASE CommitUpload(r)
  <2>1. session' \in [Uploads -> SessionType]
    BY <1>12, SessionBecomesTyped DEF CommitUpload, TypeOK, SessionStatuses
  <2>2. jobStatus' \in [Jobs -> JobStatuses]
    BY <1>12, StatusTyped DEF CommitUpload, Becomes, TypeOK
  <2>3. req' \in [Reqs -> RequestType]
    BY <1>0, <1>12 DEF CommitUpload, TypeOK
  <2>4. jobStable' \in [Jobs -> Nat] /\ jobAsset' \in [Jobs -> Nat]
    BY <1>0, <1>12 DEF CommitUpload, TypeOK
  <2>5. lib' \in Seq(VersionType)
    BY <1>12, StableRowTyped DEF CommitUpload
  <2>6. QED BY <1>12, <2>1, <2>2, <2>3, <2>4, <2>5 DEF CommitUpload, TypeOK
<1>13. QED
  BY <1>1, <1>2, <1>3, <1>4, <1>5, <1>6, <1>7, <1>8, <1>9, <1>10, <1>11, <1>12, <1>14,
     RegisterTyped DEF Resume

LEMMA TimersTyped ==
  ASSUME TypeOK, Sweep \/ \E j \in Jobs : TrackerFail(j)
  PROVE  TypeOK'
<1> USE DEF jobVars, fileVars, libVars, bootVars
<1>1. ASSUME NEW u \in Uploads, SweepUploadSession(u) PROVE TypeOK'
  <2>1. session' \in [Uploads -> SessionType]
    BY <1>1, SessionBecomesTyped DEF SweepUploadSession, TypeOK, SessionStatuses
  <2>2. jobStatus' \in [Jobs -> JobStatuses]
    BY <1>1, StatusTyped DEF SweepUploadSession, Becomes, TypeOK
  <2>3. QED BY <1>1, <2>1, <2>2 DEF SweepUploadSession, TypeOK
<1>2. ASSUME NEW j \in Jobs, SweepQueuedJob(j) PROVE TypeOK'
  <2>1. jobStatus' \in [Jobs -> JobStatuses]
    BY <1>2 DEF SweepQueuedJob, TypeOK, JobStatuses
  <2>2. QED BY <1>2, <2>1 DEF SweepQueuedJob, TypeOK
<1>3. ASSUME NEW j \in Jobs, TrackerFail(j) PROVE TypeOK'
  <2>1. jobStatus' \in [Jobs -> JobStatuses]
    BY <1>3, StatusTyped DEF TrackerFail, Becomes, TypeOK
  <2>2. QED BY <1>3, <2>1 DEF TrackerFail, TypeOK
<1>4. QED BY <1>1, <1>2, <1>3 DEF Sweep

LEMMA RecoveryTyped ==
  ASSUME recovery \in RecoveryType
  PROVE  /\ recovery.todo \subseteq RowType
         /\ recovery.row \in RowType
         /\ recovery.u \in Uploads \cup {NoUpload}
         /\ \A row \in RowType, u \in Uploads \cup {NoUpload} :
              /\ [recovery EXCEPT !.pc = "temp", !.row = row, !.u = u] \in RecoveryType
              /\ [recovery EXCEPT !.pc = "unlink", !.row = row, !.u = u] \in RecoveryType
              /\ [recovery EXCEPT !.pc = "unlinkStable", !.row = row, !.u = u] \in RecoveryType
              /\ [recovery EXCEPT !.pc = "stable", !.row = row] \in RecoveryType
         /\ \A row \in RowType :
              [recovery EXCEPT !.todo = @ \ {row}, !.pc = "idle", !.row = NoRow, !.u = NoUpload]
                \in RecoveryType
<1>1. NoRow \in RowType
  BY DEF NoRow, RowType
<1>2. QED BY <1>1 DEF RecoveryType

LEMMA RowDoneTyped ==
  ASSUME TypeOK, NEW row \in RowType, NEW st \in JobStatuses, RowDone(row, st)
  PROVE  jobStatus' \in [Jobs -> JobStatuses] /\ recovery' \in RecoveryType
<1>1. jobStatus' \in [Jobs -> JobStatuses]
  BY DEF RowDone, TypeOK
<1>2. recovery' \in RecoveryType
  BY RecoveryTyped DEF RowDone, TypeOK
<1>3. QED BY <1>1, <1>2

LEMMA CleanUpTyped ==
  ASSUME TypeOK, NEW row \in RowType, CleanUp(row) \/ CleanUpStable(row)
  PROVE  jobStatus' \in [Jobs -> JobStatuses] /\ recovery' \in RecoveryType
<1>1. CASE RowDone(row, "failed")
  BY <1>1, RowDoneTyped DEF JobStatuses
<1>2. CASE /\ recovery' = [recovery EXCEPT !.pc = "unlink", !.row = row, !.u = NoUpload]
           /\ UNCHANGED jobStatus
  BY <1>2, RecoveryTyped DEF TypeOK
<1>3. CASE /\ recovery' = [recovery EXCEPT !.pc = "unlinkStable", !.row = row, !.u = NoUpload]
           /\ UNCHANGED jobStatus
  BY <1>3, RecoveryTyped DEF TypeOK
<1>4. QED BY <1>1, <1>2, <1>3 DEF CleanUp, CleanUpStable

LEMMA LookUpTyped ==
  ASSUME TypeOK, NEW row \in RowType, LookUpSession(row)
  PROVE  jobStatus' \in [Jobs -> JobStatuses] /\ recovery' \in RecoveryType
<1>1. CASE CleanUp(row)
  BY <1>1, CleanUpTyped
<1>2. CASE /\ \E u \in UploadingSessions(row.job) :
                recovery' = [recovery EXCEPT !.pc = "temp", !.row = row, !.u = u]
           /\ UNCHANGED jobStatus
  <2>1. PICK u \in Uploads : recovery' = [recovery EXCEPT !.pc = "temp", !.row = row, !.u = u]
    BY <1>2 DEF UploadingSessions
  <2>2. recovery \in RecoveryType
    BY DEF TypeOK
  <2>3. recovery' \in RecoveryType
    BY <2>1, <2>2, RecoveryTyped
  <2>4. QED BY <1>2, <2>3 DEF TypeOK
<1>3. QED BY <1>1, <1>2 DEF LookUpSession

LEMMA RecoverTyped ==
  ASSUME TypeOK, Recover
  PROVE  TypeOK'
<1> USE DEF fileVars, libVars
<1>0. recovery.todo \subseteq RowType /\ recovery.row \in RowType
  BY RecoveryTyped DEF TypeOK
<1>1. ASSUME NEW row \in recovery.todo, RecoverRow(row) PROVE TypeOK'
  <2>1. row \in RowType
    BY <1>0
  <2>2. CASE /\ recovery' = [recovery EXCEPT !.pc = "stable", !.row = row]
             /\ UNCHANGED jobStatus
    <3>1. recovery' \in RecoveryType
      BY <2>1, <2>2, RecoveryTyped DEF TypeOK
    <3>2. QED BY <1>1, <2>2, <3>1 DEF RecoverRow, TypeOK
  <2>3. CASE LookUpSession(row)
    BY <1>1, <2>1, <2>3, LookUpTyped DEF RecoverRow, TypeOK
  <2>4. QED BY <1>1, <2>2, <2>3 DEF RecoverRow
<1>2. CASE RecoverStable
  <2>1. CASE RowDone(recovery.row, "done")
    <3>1. "done" \in JobStatuses
      BY DEF JobStatuses
    <3>2. jobStatus' \in [Jobs -> JobStatuses] /\ recovery' \in RecoveryType
      BY <1>0, <2>1, <3>1, RowDoneTyped
    <3>3. QED BY <1>2, <3>2 DEF RecoverStable, TypeOK
  <2>2. CASE LookUpSession(recovery.row)
    BY <1>0, <1>2, <2>2, LookUpTyped DEF RecoverStable, TypeOK
  <2>3. QED BY <1>2, <2>1, <2>2 DEF RecoverStable
<1>3. CASE RecoverTemp
  <2>1. CASE RowDone(recovery.row, "queued") /\ UNCHANGED session
    <3>1. "queued" \in JobStatuses
      BY DEF JobStatuses
    <3>2. jobStatus' \in [Jobs -> JobStatuses] /\ recovery' \in RecoveryType
      BY <1>0, <2>1, <3>1, RowDoneTyped
    <3>3. QED BY <1>3, <2>1, <3>2 DEF RecoverTemp, TypeOK
  <2>2. CASE SessionBecomes(recovery.u, "cancelled") /\ CleanUp(recovery.row)
    <3>1. session' \in [Uploads -> SessionType]
      BY <2>2, SessionBecomesTyped DEF TypeOK, SessionStatuses
    <3>2. jobStatus' \in [Jobs -> JobStatuses] /\ recovery' \in RecoveryType
      BY <1>0, <2>2, CleanUpTyped
    <3>3. QED BY <1>3, <3>1, <3>2 DEF RecoverTemp, TypeOK
  <2>3. QED BY <1>3, <2>1, <2>2 DEF RecoverTemp
<1>4. CASE RecoverUnlinkTemp
  BY <1>0, <1>4, CleanUpTyped DEF RecoverUnlinkTemp, TypeOK
<1>5. CASE RecoverUnlinkStable
  <2>1. "failed" \in JobStatuses
    BY DEF JobStatuses
  <2>2. jobStatus' \in [Jobs -> JobStatuses] /\ recovery' \in RecoveryType
    BY <1>0, <1>5, <2>1, RowDoneTyped DEF RecoverUnlinkStable
  <2>3. QED BY <1>5, <2>2 DEF RecoverUnlinkStable, TypeOK
<1>6. QED BY <1>1, <1>2, <1>3, <1>4, <1>5 DEF Recover

LEMMA CrashTyped ==
  ASSUME TypeOK, CrashMidway
  PROVE  TypeOK'
<1> USE DEF Crash, jobVars, fileVars, libVars
<1>1. ASSUME NEW r \in Reqs, CrashInCreate(r) PROVE TypeOK'
  <2>1. req[r] \in RequestType
    BY DEF TypeOK
  <2>2. req[r].j \in Jobs \cup {NoJob} /\ req[r].target \in Nat
    BY <2>1, RequestFields
  <2>3. session' \in [Uploads -> SessionType]
    BY <1>1, <2>2, NewSession DEF CrashInCreate, TypeOK
  <2>4. QED BY <1>1, <2>3 DEF CrashInCreate, TypeOK
<1>2. ASSUME NEW r \in Reqs, CrashInVersion(r) PROVE TypeOK'
  <2>1. session' \in [Uploads -> SessionType]
    BY <1>2, SessionBecomesTyped DEF CrashInVersion, TypeOK, SessionStatuses
  <2>2. QED BY <1>2, <2>1 DEF CrashInVersion, TypeOK
<1>3. ASSUME NEW u \in Uploads, CrashInSweep(u) PROVE TypeOK'
  <2>1. session' \in [Uploads -> SessionType]
    BY <1>3, SessionBecomesTyped DEF CrashInSweep, TypeOK, SessionStatuses
  <2>2. QED BY <1>3, <2>1 DEF CrashInSweep, TypeOK
<1>4. ASSUME NEW r \in Reqs, NEW n \in 1 .. 4, CrashInCommit(r, n) PROVE TypeOK'
  <2>1. req[r] \in RequestType
    BY DEF TypeOK
  <2>2. req[r].target \in Nat
    BY <2>1, RequestFields
  <2>3. jobStable' \in [Jobs -> Nat] /\ jobAsset' \in [Jobs -> Nat]
    BY <1>4, <2>2 DEF CrashInCommit, TypeOK
  <2>4. lib' \in Seq(VersionType)
    BY <1>4, StableRowTyped DEF CrashInCommit, TypeOK
  <2>5. jobStatus' \in [Jobs -> JobStatuses]
    BY <1>4, StatusTyped DEF CrashInCommit, TypeOK
  <2>6. torn' \subseteq Nat
    BY <1>4, <2>2 DEF CrashInCommit, TypeOK
  <2>7. QED BY <1>4, <2>3, <2>4, <2>5, <2>6 DEF CrashInCommit, TypeOK
<1>5. QED BY <1>1, <1>2, <1>3, <1>4 DEF CrashMidway

LEMMA RestartTyped ==
  ASSUME TypeOK, NEW P \in SUBSET Jobs, Restart(P)
  PROVE  TypeOK'
<1> DEFINE RowOf(j) == [job |-> j, asset |-> jobAsset[j], stable |-> jobStable[j],
                        temp |-> jobTemp[j]]
           Todo == {RowOf(j) : j \in {k \in Jobs : jobStatus[k] \in {"queued", "ingesting"}}}
<1>1. jobStatus' \in [Jobs -> JobStatuses]
  BY DEF Restart, TypeOK, JobStatuses
<1>2. session' \in [Uploads -> SessionType]
  <2>1. "purged" \in SessionStatuses
    BY DEF SessionStatuses
  <2>2. \A u \in Uploads : session[u] \in SessionType
                           /\ [session[u] EXCEPT !.status = "purged"] \in SessionType
    BY <2>1, SessionUpdates DEF TypeOK
  <2>3. QED BY <2>2 DEF Restart
<1>3. req' \in [Reqs -> RequestType]
  BY IdleTyped DEF Restart
<1>4. recovery' \in RecoveryType
  <2>1. Todo \subseteq RowType
    BY DEF TypeOK, RowType
  <2>2. NotRecovering \in RecoveryType
    BY DEF NotRecovering, NoRow, RecoveryType, RowType
  <2>3. [NotRecovering EXCEPT !.todo = Todo] \in RecoveryType
    BY <2>1, <2>2 DEF RecoveryType
  <2>4. QED BY <2>3 DEF Restart
<1>5. jobTemp' \in [Jobs -> Uploads \cup {NoUpload}]
  BY DEF Restart, TypeOK
<1>6. restarts' \in Nat /\ running' \in BOOLEAN /\ cancelledIds' \subseteq Jobs
  BY DEF Restart, TypeOK
<1>7. QED BY <1>1, <1>2, <1>3, <1>4, <1>5, <1>6 DEF Restart, TypeOK, fileVars, libVars

LEMMA InitTyped == Init => TypeOK
<1> SUFFICES ASSUME Init PROVE TypeOK
  OBVIOUS
<1>1. NoSession \in SessionType
  BY DEF NoSession, SessionType, SessionStatuses
<1>2. NotRecovering \in RecoveryType
  BY DEF NotRecovering, NoRow, RecoveryType, RowType
<1>3. jobStatus \in [Jobs -> JobStatuses]
  BY DEF Init, JobStatuses
<1>4. lib \in Seq(VersionType)
  BY DEF Init
<1>5. QED BY <1>1, <1>2, <1>3, <1>4, IdleTyped DEF Init, TypeOK

LEMMA TypeKept == UploadInv /\ Next => TypeOK'
<1> SUFFICES ASSUME TypeOK, Sessions, Handlers, Next PROVE TypeOK'
  BY DEF UploadInv
<1>1. CASE Sweep \/ \E j \in Jobs : TrackerFail(j)
  BY <1>1, TimersTyped
<1>2. QED BY <1>1, ClientTyped, ResumeTyped, RecoverTyped, CrashTyped, RestartTyped DEF Next

-----------------------------------------------------------------------------
(* What one step can do to a session, to the files, to a handler and to the  *)
(* library.  These four summaries are all the invariant needs of Next.       *)

SessionStep(u) ==
  \/ session'[u] = session[u]
  \/ /\ session[u].status # "none" /\ session[u].job \in Jobs
     /\ \E st \in {"cancelled", "finalized"} :
          session'[u] = [session[u] EXCEPT !.status = st]
  \/ /\ session[u].job \in Jobs /\ \E P \in SUBSET Jobs : Restart(P)
     /\ session'[u] = [session[u] EXCEPT !.status = "purged"]
  \/ /\ session[u].status # "none" /\ session[u].job \in Jobs
     /\ written[u] = FileSize
     /\ session'[u] = [session[u] EXCEPT !.status = "awaiting_confirmation"]
  \/ \E r \in Reqs, j \in Jobs, a \in Nat :
       /\ At(r, {"create"})
       /\ u = req[r].u /\ a = req[r].target
       /\ session'[u] = [status |-> "uploading", job |-> j, received |-> 0, replace |-> a]
  \/ \E off \in Nat :
       /\ session[u].status # "none"
       /\ session'[u] = [session[u] EXCEPT !.received = EndOf(off)]
       /\ u \in temp => EndOf(off) <= written'[u]

FileStep(u) ==
  /\ written[u] <= written'[u]
  /\ written'[u] <= FileSize
  /\ u \in temp' => u \in temp \/ session'[u].status = "none"

HandlerStep(r) ==
  LET q == req'[r]
  IN  \/ q = req[r]
      \/ q.pc = "idle"
      \/ q.pc = "create" /\ q.u \in Uploads /\ q.j \in Jobs
      \/ /\ q.pc = "write" /\ q.u \in temp /\ session[q.u].status = "uploading"
         /\ q.off = session[q.u].received
      \/ q.pc = "access" /\ q.u \in Uploads /\ session[q.u].status = "awaiting_confirmation"
      \/ /\ q.pc \in {"hash", "unreadable"} /\ q.u \in Uploads
         /\ session[q.u].status = "uploading" /\ session[q.u].received = FileSize
         /\ q.pc = "hash" => q.u \in temp
      \/ /\ q.pc \in {"hash", "stat", "rename", "commit"} /\ q.u = req[r].u
         /\ req[r].pc \in {"access", "hash", "stat", "rename"}

LEMMA SessionEnds ==
  ASSUME UploadInv, NEW x \in Uploads, session[x].status # "none",
         NEW st \in {"cancelled", "finalized"}, SessionBecomes(x, st),
         NEW u \in Uploads
  PROVE  SessionStep(u)
<1>1. session[x].job \in Jobs
  BY DEF UploadInv, Sessions
<1>2. session'[u] = IF u = x THEN [session[u] EXCEPT !.status = st] ELSE session[u]
  BY DEF SessionBecomes, UploadInv, TypeOK
<1>3. QED BY <1>1, <1>2 DEF SessionStep

LEMMA HandlerHolds ==
  ASSUME UploadInv, NEW r \in Reqs
  PROVE  /\ req[r].pc = "create" => req[r].u \in Uploads /\ req[r].j \in Jobs
         /\ req[r].pc \notin {"idle", "create"} =>
              /\ req[r].u \in Uploads
              /\ session[req[r].u].status # "none"
              /\ session[req[r].u].job \in Jobs
         /\ req[r].off \in Nat
         /\ req[r].target \in Nat
<1>1. req[r] \in RequestType
  BY DEF UploadInv, TypeOK
<1>2. req[r].off \in Nat /\ req[r].target \in Nat
  BY <1>1, RequestFields
<1>3. QED BY <1>2 DEF UploadInv, Handlers, Sessions

LEMMA SessionParks ==
  ASSUME UploadInv, NEW r \in Reqs, req[r].pc = "hash",
         SessionBecomes(req[r].u, "awaiting_confirmation"), NEW u \in Uploads
  PROVE  SessionStep(u)
<1>1. /\ session[req[r].u].status # "none" /\ session[req[r].u].job \in Jobs
      /\ written[req[r].u] = FileSize
  BY HandlerHolds DEF UploadInv, CompleteInHand
<1>2. session'[u] = IF u = req[r].u THEN [session[u] EXCEPT !.status = "awaiting_confirmation"]
                    ELSE session[u]
  BY DEF SessionBecomes, UploadInv, TypeOK
<1>3. QED BY <1>1, <1>2 DEF SessionStep

LEMMA SessionOpens ==
  ASSUME UploadInv, NEW r \in Reqs, At(r, {"create"}), NEW u \in Uploads,
         session' = [session EXCEPT ![req[r].u] = [status |-> "uploading", job |-> req[r].j,
                                         received |-> 0, replace |-> req[r].target]]
  PROVE  SessionStep(u)
<1>1. req[r].j \in Jobs /\ req[r].target \in Nat
  BY HandlerHolds DEF At
<1>2. CASE u = req[r].u
  BY <1>1, <1>2 DEF SessionStep, UploadInv, TypeOK
<1>3. CASE u # req[r].u
  BY <1>3 DEF SessionStep, UploadInv, TypeOK
<1>4. QED BY <1>2, <1>3

LEMMA ChunkCovered ==
  ASSUME UploadInv, NEW r \in Reqs, ChunkWritten(r), NEW u \in Uploads
  PROVE  SessionStep(u) /\ FileStep(u)
<1> DEFINE q == req[r]
<1>1. /\ q.u \in Uploads /\ session[q.u].status # "none"
      /\ q.off \in Nat /\ q.off <= written[q.u] /\ written[q.u] <= FileSize
      /\ written[q.u] \in Nat /\ FileSize \in Nat
  BY HandlerHolds, UploadAssumption
     DEF ChunkWritten, At, UploadInv, OffsetsCovered, WrittenBounded, TypeOK
<1>8. /\ EndOf(q.off) \in Nat /\ EndOf(q.off) <= FileSize
      /\ q.off <= EndOf(q.off)
      /\ EndOf(q.off) = q.off + 1 \/ (EndOf(q.off) = q.off /\ q.off = FileSize)
  BY <1>1 DEF EndOf
<1>2. /\ written[u] \in Nat /\ written[u] <= FileSize
      /\ written'[u] = IF u = q.u /\ q.u \in temp /\ q.off = written[q.u]
                       THEN EndOf(q.off) ELSE written[u]
  BY DEF ChunkWritten, UploadInv, TypeOK, WrittenBounded
<1>3. FileStep(u)
  BY <1>1, <1>8, <1>2 DEF FileStep, ChunkWritten
<1>4. q.u \in temp => EndOf(q.off) <= written'[q.u]
  BY <1>1, <1>8 DEF ChunkWritten, UploadInv, TypeOK
<1>5. session'[u] = IF u = q.u THEN [session[u] EXCEPT !.received = EndOf(q.off)] ELSE session[u]
  BY DEF ChunkWritten, UploadInv, TypeOK
<1>6. SessionStep(u)
  BY <1>1, <1>8, <1>4, <1>5 DEF SessionStep
<1>7. QED BY <1>3, <1>6

LEMMA SessionSteps ==
  ASSUME UploadInv, Next, NEW u \in Uploads
  PROVE  SessionStep(u)
<1>0. CASE UNCHANGED session
  BY <1>0 DEF SessionStep
<1>1. CASE ClientStep
  <2>1. UNCHANGED session \/ \E x \in Uploads :
          session[x].status # "none" /\ SessionBecomes(x, "cancelled")
    BY <1>1 DEF ClientStep, Reserve, CreateBegin, ChunkBegin, FinalizeBegin, ConfirmBegin,
         ChunkCancelled, FinalizeUnavailable, FinalizeCancelled, AbortUpload, CancelJob
  <2>2. QED BY <1>0, <2>1, SessionEnds
<1>2. ASSUME NEW r \in Reqs, Resume(r) PROVE SessionStep(u)
  <2>1. CASE CreateInsert(r)
    BY <2>1, SessionOpens DEF CreateInsert
  <2>2. CASE ChunkWritten(r)
    BY <2>2, ChunkCovered
  <2>3. CASE HashedVersion(r)
    BY <2>3, SessionParks DEF HashedVersion, At
  <2>4. CASE ConfirmMissing(r) \/ HashedDuplicate(r) \/ CommitUpload(r)
    <3>1. req[r].u \in Uploads /\ session[req[r].u].status # "none"
      BY <2>4, HandlerHolds DEF ConfirmMissing, HashedDuplicate, CommitUpload, At
    <3>2. SessionBecomes(req[r].u, "cancelled") \/ SessionBecomes(req[r].u, "finalized")
      BY <2>4 DEF ConfirmMissing, HashedDuplicate, CommitUpload
    <3>3. QED BY <3>1, <3>2, SessionEnds
  <2>5. CASE \/ InsertRefused(r) \/ ChunkFailed(r) \/ ConfirmProceed(r) \/ ConfirmUnavailable(r) \/ HashFailed(r)
             \/ HashedNew(r) \/ RegisterAsset(r) \/ RenameFile(r) \/ FinalizeThrows(r)
    BY <1>0, <2>5 DEF InsertRefused, ChunkFailed, ConfirmProceed, ConfirmUnavailable, HashFailed,
         HashedNew, RegisterAsset, RenameFile, FinalizeThrows
  <2>6. QED BY <1>2, <2>1, <2>2, <2>3, <2>4, <2>5 DEF Resume
<1>3. CASE Sweep \/ \E j \in Jobs : TrackerFail(j)
  <2>1. UNCHANGED session \/ \E x \in Uploads :
          session[x].status # "none" /\ SessionBecomes(x, "cancelled")
    BY <1>3 DEF Sweep, SweepUploadSession, SweepQueuedJob, TrackerFail
  <2>2. QED BY <1>0, <2>1, SessionEnds
<1>4. CASE Recover
  <2>1. \/ UNCHANGED session
        \/ recovery.pc = "temp" /\ SessionBecomes(recovery.u, "cancelled")
    BY <1>4 DEF Recover, RecoverRow, RecoverStable, RecoverTemp, RecoverUnlinkTemp, RecoverUnlinkStable, CleanUpStable
  <2>2. recovery.pc = "temp" => recovery.u \in Uploads /\ session[recovery.u].status # "none"
    BY DEF UploadInv, Recovering
  <2>3. QED BY <1>0, <2>1, <2>2, SessionEnds
<1>5. CASE CrashMidway
  <2>1. ASSUME NEW r \in Reqs, CrashInCreate(r) PROVE SessionStep(u)
    BY <2>1, SessionOpens DEF CrashInCreate
  <2>2. ASSUME NEW r \in Reqs, CrashInVersion(r) PROVE SessionStep(u)
    BY <2>2, SessionParks DEF CrashInVersion, At
  <2>3. ASSUME NEW x \in Uploads, CrashInSweep(x) PROVE SessionStep(u)
    BY <2>3, SessionEnds DEF CrashInSweep
  <2>4. ASSUME NEW r \in Reqs, NEW n \in 1 .. 4, CrashInCommit(r, n) PROVE SessionStep(u)
    BY <1>0, <2>4 DEF CrashInCommit
  <2>5. QED BY <1>5, <2>1, <2>2, <2>3, <2>4 DEF CrashMidway
<1>6. ASSUME NEW P \in SUBSET Jobs, Restart(P) PROVE SessionStep(u)
  <2>1. session'[u] = IF session[u].job \in P THEN [session[u] EXCEPT !.status = "purged"]
                      ELSE session[u]
    BY <1>6 DEF Restart
  <2>2. QED BY <1>6, <2>1 DEF SessionStep
<1>7. QED BY <1>1, <1>2, <1>3, <1>4, <1>5, <1>6 DEF Next

LEMMA FileSteps ==
  ASSUME UploadInv, Next, NEW u \in Uploads
  PROVE  FileStep(u)
<1> USE DEF fileVars, libVars, bootVars
<1>0. CASE UNCHANGED written /\ (temp' \subseteq temp)
  BY <1>0 DEF FileStep, UploadInv, TypeOK, WrittenBounded
<1>1. CASE ClientStep
  <2>1. ASSUME NEW r \in Reqs, NEW j \in Jobs, NEW a, CreateBegin(r, j, a) PROVE FileStep(u)
    <3>1. PICK x \in Uploads : CreateTakes(r, j, a, x)
      BY <2>1, CreateTakesFresh
    <3>2. UNCHANGED <<written, session>>
      BY <2>1 DEF CreateBegin
    <3>3. NoSession.status = "none"
      BY DEF NoSession
    <3>4. QED BY <3>1, <3>2, <3>3 DEF CreateTakes, FileStep, UploadInv, TypeOK, WrittenBounded
  <2>2. CASE UNCHANGED written /\ temp' \subseteq temp
    BY <1>0, <2>2
  <2>3. QED
    BY <1>1, <2>1, <2>2 DEF ClientStep, Reserve, ChunkBegin, FinalizeBegin,
         ConfirmBegin, ChunkCancelled, FinalizeUnavailable, FinalizeCancelled, AbortUpload,
         CancelJob
<1>2. ASSUME NEW r \in Reqs, Resume(r) PROVE FileStep(u)
  <2>1. CASE ChunkWritten(r)
    BY <2>1, ChunkCovered
  <2>2. CASE ~ChunkWritten(r)
    BY <1>0, <1>2, <2>2 DEF Resume, CreateInsert, InsertRefused, ChunkFailed, ConfirmMissing, ConfirmProceed,
         ConfirmUnavailable, HashFailed, HashedDuplicate, HashedVersion, HashedNew,
         RegisterAsset, RenameFile, FinalizeThrows, CommitUpload
  <2>3. QED BY <2>1, <2>2
<1>3. CASE Sweep \/ \E j \in Jobs : TrackerFail(j)
  BY <1>0, <1>3 DEF Sweep, SweepUploadSession, SweepQueuedJob, TrackerFail
<1>4. CASE Recover
  BY <1>0, <1>4 DEF Recover, RecoverRow, RecoverStable, RecoverTemp, RecoverUnlinkTemp, RecoverUnlinkStable, CleanUpStable
<1>5. CASE CrashMidway
  BY <1>0, <1>5 DEF CrashMidway, CrashInCreate, CrashInVersion, CrashInSweep, CrashInCommit
<1>6. ASSUME NEW P \in SUBSET Jobs, Restart(P) PROVE FileStep(u)
  BY <1>0, <1>6 DEF Restart
<1>7. QED BY <1>1, <1>2, <1>3, <1>4, <1>5, <1>6 DEF Next

LEMMA HandlerBegins ==
  ASSUME UploadInv, ClientStep, NEW r \in Reqs
  PROVE  HandlerStep(r)
<1>0. CASE UNCHANGED req
  BY <1>0 DEF HandlerStep
<1>1. ASSUME NEW x \in Reqs, NEW j \in Jobs, NEW a, CreateBegin(x, j, a) PROVE HandlerStep(r)
  <2>1. PICK u \in Uploads : CreateTakes(x, j, a, u)
    BY <1>1, CreateTakesFresh
  <2>2. QED BY <2>1 DEF CreateTakes, HandlerStep, UploadInv, TypeOK, Idle
<1>2. ASSUME NEW x \in Reqs, NEW u \in Uploads, NEW off, ChunkBegin(x, u, off) PROVE HandlerStep(r)
  BY <1>2 DEF ChunkBegin, OffsetMatches, HandlerStep, UploadInv, TypeOK, Idle
<1>3. ASSUME NEW x \in Reqs, NEW u \in Uploads, FinalizeBegin(x, u) PROVE HandlerStep(r)
  BY <1>3 DEF FinalizeBegin, FullyReceived, HandlerStep, UploadInv, TypeOK, Idle
<1>4. ASSUME NEW x \in Reqs, NEW u \in Uploads, NEW a, ConfirmBegin(x, u, a) PROVE HandlerStep(r)
  BY <1>4 DEF ConfirmBegin, HandlerStep, UploadInv, TypeOK, Idle
<1>5. ASSUME NEW b, Reserve(b) PROVE HandlerStep(r)
  BY <1>0, <1>5 DEF Reserve
<1>6. ASSUME NEW u \in Uploads,
             ChunkCancelled(u) \/ FinalizeUnavailable(u) \/ FinalizeCancelled(u) \/ AbortUpload(u)
      PROVE  HandlerStep(r)
  BY <1>0, <1>6 DEF ChunkCancelled, FinalizeUnavailable, FinalizeCancelled, AbortUpload
<1>7. ASSUME NEW j \in Jobs, CancelJob(j) PROVE HandlerStep(r)
  BY <1>0, <1>7 DEF CancelJob
<1>8. QED BY <1>1, <1>2, <1>3, <1>4, <1>5, <1>6, <1>7 DEF ClientStep

LEMMA HandlerResumes ==
  ASSUME UploadInv, NEW x \in Reqs, Resume(x), NEW r \in Reqs
  PROVE  HandlerStep(r)
<1>1. CASE \/ CreateInsert(x) \/ InsertRefused(x) \/ ChunkWritten(x) \/ ChunkFailed(x) \/ ConfirmMissing(x)
           \/ ConfirmUnavailable(x) \/ HashFailed(x) \/ HashedDuplicate(x) \/ HashedVersion(x)
           \/ FinalizeThrows(x) \/ CommitUpload(x)
  <2>1. req' = [req EXCEPT ![x] = Idle]
    BY <1>1 DEF CreateInsert, InsertRefused, ChunkWritten, ChunkFailed, ConfirmMissing, ConfirmUnavailable,
         HashFailed, HashedDuplicate, HashedVersion, FinalizeThrows, CommitUpload
  <2>2. QED BY <2>1 DEF HandlerStep, UploadInv, TypeOK, Idle
<1>2. CASE ConfirmProceed(x) \/ HashedNew(x) \/ RenameFile(x)
  <2>1. PICK p \in {"hash", "stat", "commit"} : req' = [req EXCEPT ![x].pc = p]
    BY <1>2 DEF ConfirmProceed, HashedNew, RenameFile
  <2>2. req[x].pc \in {"access", "hash", "rename"}
    BY <1>2 DEF ConfirmProceed, HashedNew, RenameFile, At
  <2>3. req'[r] = IF r = x THEN [req[r] EXCEPT !.pc = p] ELSE req[r]
    BY <2>1 DEF UploadInv, TypeOK
  <2>4. req[x] \in RequestType
    BY DEF UploadInv, TypeOK
  <2>5. r = x => req'[r].pc = p /\ req'[r].u = req[r].u
    BY <2>3, <2>4 DEF RequestType
  <2>6. QED BY <2>2, <2>3, <2>5 DEF HandlerStep
<1>3. CASE RegisterAsset(x)
  <2>1. PICK t : req' = [req EXCEPT ![x].pc = "rename", ![x].target = t]
    BY <1>3 DEF RegisterAsset
  <2>2. req[x].pc = "stat"
    BY <1>3 DEF RegisterAsset, At
  <2>3. req[x] \in RequestType
    BY DEF UploadInv, TypeOK
  <2>4. req'[r] = IF r = x THEN [req[r] EXCEPT !.pc = "rename", !.target = t] ELSE req[r]
    BY <2>1, <2>3 DEF UploadInv, TypeOK
  <2>5. r = x => req'[r].pc = "rename" /\ req'[r].u = req[r].u
    BY <2>3, <2>4 DEF RequestType
  <2>6. QED BY <2>2, <2>4, <2>5 DEF HandlerStep
<1>4. QED BY <1>1, <1>2, <1>3 DEF Resume

LEMMA HandlerSteps ==
  ASSUME UploadInv, Next, NEW r \in Reqs
  PROVE  HandlerStep(r)
<1>0. CASE UNCHANGED req
  BY <1>0 DEF HandlerStep
<1>1. CASE Sweep \/ \E j \in Jobs : TrackerFail(j)
  BY <1>0, <1>1 DEF Sweep, SweepUploadSession, SweepQueuedJob, TrackerFail
<1>2. CASE Recover
  BY <1>0, <1>2 DEF Recover, RecoverRow, RecoverStable, RecoverTemp, RecoverUnlinkTemp, RecoverUnlinkStable, CleanUpStable
<1>3. CASE CrashMidway
  BY <1>0, <1>3 DEF CrashMidway, CrashInCreate, CrashInVersion, CrashInSweep, CrashInCommit, Crash
<1>4. ASSUME NEW P \in SUBSET Jobs, Restart(P) PROVE HandlerStep(r)
  BY <1>4 DEF Restart, HandlerStep, Idle
<1>5. QED BY <1>1, <1>2, <1>3, <1>4, HandlerBegins, HandlerResumes DEF Next

LEMMA RecoverySteps ==
  ASSUME UploadInv, Next, recovery'.pc = "temp"
  PROVE  \/ recovery' = recovery
         \/ recovery'.u \in Uploads /\ session[recovery'.u].status # "none"
<1> DEFINE Goal == recovery'.u \in Uploads /\ session[recovery'.u].status # "none"
<1>0. CASE UNCHANGED recovery
  BY <1>0
<1>1. recovery \in RecoveryType
  BY DEF UploadInv, TypeOK
<1>2. ASSUME NEW row, LookUpSession(row) PROVE Goal
  <2>1. ~CleanUp(row)
    BY <1>1 DEF CleanUp, CleanUpStable, RowDone, RecoveryType
  <2>2. PICK u \in UploadingSessions(row.job) :
          recovery' = [recovery EXCEPT !.pc = "temp", !.row = row, !.u = u]
    BY <1>2, <2>1 DEF LookUpSession
  <2>3. QED BY <1>1, <2>2 DEF RecoveryType, UploadingSessions
<1>3. CASE Recover
  <2>1. ASSUME NEW row, RowDone(row, "done") \/ RowDone(row, "queued") \/ RowDone(row, "failed")
        PROVE  FALSE
    BY <1>1, <2>1 DEF RowDone, RecoveryType
  <2>2. ASSUME NEW row, CleanUp(row) \/ CleanUpStable(row) PROVE FALSE
    BY <1>1, <2>1, <2>2 DEF CleanUp, CleanUpStable, RecoveryType
  <2>3. ASSUME NEW row, recovery' = [recovery EXCEPT !.pc = "stable", !.row = row] PROVE FALSE
    BY <1>1, <2>3 DEF RecoveryType
  <2>4. QED BY <1>2, <1>3, <2>1, <2>2, <2>3
          DEF Recover, RecoverRow, RecoverStable, RecoverTemp, RecoverUnlinkTemp, RecoverUnlinkStable, CleanUpStable
<1>4. ASSUME NEW P, Restart(P) PROVE FALSE
  BY <1>4 DEF Restart, NotRecovering
<1>5. CASE ClientStep
  BY <1>0, <1>5 DEF ClientStep, Reserve, CreateBegin, ChunkBegin, FinalizeBegin, ConfirmBegin,
       ChunkCancelled, FinalizeUnavailable, FinalizeCancelled, AbortUpload, CancelJob, bootVars
<1>6. ASSUME NEW r \in Reqs, Resume(r) PROVE UNCHANGED recovery
  BY <1>6 DEF Resume, CreateInsert, InsertRefused, ChunkWritten, ChunkFailed, ConfirmMissing, ConfirmProceed,
       ConfirmUnavailable, HashFailed, HashedDuplicate, HashedVersion, HashedNew,
       RegisterAsset, RenameFile, FinalizeThrows, CommitUpload, bootVars
<1>7. CASE Sweep \/ CrashMidway \/ \E j \in Jobs : TrackerFail(j)
  BY <1>0, <1>7 DEF Sweep, SweepUploadSession, SweepQueuedJob, TrackerFail, bootVars,
       CrashMidway, CrashInCreate, CrashInVersion, CrashInSweep, CrashInCommit, Crash
<1>8. QED BY <1>3, <1>4, <1>5, <1>6, <1>7, <1>0 DEF Next

-----------------------------------------------------------------------------
(* Each part of the invariant, from the summaries.                           *)

LEMMA SessionUpdated ==
  ASSUME NEW s \in SessionType
  PROVE  /\ \A st : /\ [s EXCEPT !.status = st].status = st
                    /\ [s EXCEPT !.status = st].job = s.job
         /\ \A n : /\ [s EXCEPT !.received = n].status = s.status
                   /\ [s EXCEPT !.received = n].job = s.job
                   /\ [s EXCEPT !.received = n].received = n
BY DEF SessionType

LEMMA SessionsStay ==
  ASSUME UploadInv, NEW u \in Uploads, SessionStep(u)
  PROVE  /\ session[u].status # "none" => session'[u].status # "none"
         /\ session'[u].status # "none" => session'[u].job \in Jobs
         /\ session'[u].status = "awaiting_confirmation" =>
              session[u].status = "awaiting_confirmation" \/ written[u] = FileSize
         /\ session'[u].status = "uploading" =>
              \/ session'[u].received = 0
              \/ /\ session[u].status = "uploading"
                 /\ \/ session'[u].received = session[u].received
                    \/ u \in temp => session'[u].received <= written'[u]
<1>1. session[u] \in SessionType
  BY DEF UploadInv, TypeOK
<1>2. session[u].status # "none" => session[u].job \in Jobs
  BY DEF UploadInv, Sessions
<1>3. CASE session'[u] = session[u]
  BY <1>2, <1>3
<1>4. ASSUME NEW st \in {"cancelled", "finalized", "purged", "awaiting_confirmation"},
             session[u].job \in Jobs,
             session'[u] = [session[u] EXCEPT !.status = st],
             st = "awaiting_confirmation" => written[u] = FileSize
      PROVE  /\ session'[u].status # "none" /\ session'[u].status # "uploading"
             /\ session'[u].job \in Jobs
             /\ session'[u].status = "awaiting_confirmation" => written[u] = FileSize
  BY <1>1, <1>4, SessionUpdated
<1>5. ASSUME NEW j \in Jobs, NEW a \in Nat,
             session'[u] = [status |-> "uploading", job |-> j, received |-> 0, replace |-> a]
      PROVE  /\ session'[u].status = "uploading" /\ session'[u].received = 0
             /\ session'[u].job \in Jobs
  BY <1>5
<1>6. ASSUME NEW off \in Nat,
             session[u].status # "none",
             session'[u] = [session[u] EXCEPT !.received = EndOf(off)],
             u \in temp => EndOf(off) <= written'[u]
      PROVE  /\ session'[u].status = session[u].status
             /\ session'[u].job \in Jobs
             /\ u \in temp => session'[u].received <= written'[u]
  BY <1>1, <1>2, <1>6, SessionUpdated
<1>7. QED BY <1>3, <1>4, <1>5, <1>6 DEF SessionStep

LEMMA HandlersKept == UploadInv /\ Next => Handlers' /\ Recovering'
<1> SUFFICES ASSUME UploadInv, Next PROVE Handlers' /\ Recovering'
  OBVIOUS
<1>1. \A u \in Uploads : session[u].status # "none" => session'[u].status # "none"
  BY SessionSteps, SessionsStay
<1>2. ASSUME NEW r \in Reqs
      PROVE  /\ req'[r].pc = "create" => req'[r].u \in Uploads /\ req'[r].j \in Jobs
             /\ req'[r].pc \notin {"idle", "create"} =>
                  req'[r].u \in Uploads /\ session[req'[r].u].status # "none"
  <2>1. temp \subseteq Uploads
    BY DEF UploadInv, TypeOK
  <2>2. QED BY <2>1, HandlerSteps, HandlerHolds DEF HandlerStep
<1>3. Handlers'
  BY <1>1, <1>2 DEF Handlers
<1>4. Recovering'
  BY <1>1, RecoverySteps DEF Recovering, UploadInv
<1>5. QED BY <1>3, <1>4

LEMMA OffsetsKept == UploadInv /\ Next => OffsetsCovered'
<1> SUFFICES ASSUME UploadInv, Next, NEW r \in Reqs, req'[r].pc = "write"
             PROVE  req'[r].off <= written'[req'[r].u]
  BY DEF OffsetsCovered
<1> DEFINE q == req'[r]
<1>1. q.u \in Uploads /\ q.off \in Nat /\ q.off <= written[q.u]
  <2>1. CASE q = req[r]
    BY <2>1, HandlerHolds DEF UploadInv, OffsetsCovered
  <2>2. CASE /\ q.u \in temp /\ session[q.u].status = "uploading"
             /\ q.off = session[q.u].received
    <3>1. q.u \in Uploads
      BY <2>2 DEF UploadInv, TypeOK
    <3>2. session[q.u].received \in Nat
      BY <3>1, SessionFields DEF UploadInv, TypeOK
    <3>3. QED BY <2>2, <3>1, <3>2 DEF UploadInv, AckedBytesOnDisk
  <2>3. QED BY <2>1, <2>2, HandlerSteps DEF HandlerStep
<1>2. written[q.u] <= written'[q.u]
  BY <1>1, FileSteps DEF FileStep
<1>3. written[q.u] \in Nat /\ written'[q.u] \in Nat
  BY <1>1, TypeKept DEF UploadInv, TypeOK
<1>4. QED BY <1>1, <1>2, <1>3

LEMMA AckedKept == UploadInv /\ Next => AckedBytesOnDisk'
<1> SUFFICES ASSUME UploadInv, Next, NEW u \in temp', session'[u].status = "uploading"
             PROVE  session'[u].received <= written'[u]
  BY DEF AckedBytesOnDisk
<1>1. u \in Uploads /\ u \in temp
  BY TypeKept, FileSteps DEF UploadInv, TypeOK, FileStep
<1>2. written[u] \in Nat /\ written'[u] \in Nat /\ written[u] <= written'[u]
  BY <1>1, TypeKept, FileSteps DEF UploadInv, TypeOK, FileStep
<1>3. session[u] \in SessionType /\ session[u].received \in Nat
  BY <1>1, SessionFields DEF UploadInv, TypeOK
<1>4. session[u].status = "uploading" => session[u].received <= written[u]
  BY <1>1 DEF UploadInv, AckedBytesOnDisk
<1>5. SessionStep(u)
  BY <1>1, SessionSteps
<1>6. QED BY <1>1, <1>2, <1>3, <1>4, <1>5, SessionsStay

LEMMA CompleteKept == UploadInv /\ Next => CompleteInHand' /\ CompleteAwaiting'
<1> SUFFICES ASSUME UploadInv, Next PROVE CompleteInHand' /\ CompleteAwaiting'
  OBVIOUS
<1>1. \A u \in Uploads : /\ written[u] \in Nat /\ written'[u] \in Nat
                         /\ written[u] <= FileSize
                         /\ written[u] <= written'[u] /\ written'[u] <= FileSize
  BY TypeKept, FileSteps DEF UploadInv, TypeOK, FileStep, WrittenBounded
<1>2. \A u \in Uploads : written[u] = FileSize => written'[u] = FileSize
  BY <1>1, UploadAssumption
<1>3. CompleteAwaiting'
  <2> SUFFICES ASSUME NEW u \in Uploads, session'[u].status = "awaiting_confirmation"
               PROVE  written'[u] = FileSize
    BY DEF CompleteAwaiting
  <2>1. session[u].status = "awaiting_confirmation" \/ written[u] = FileSize
    BY SessionSteps, SessionsStay
  <2>2. QED BY <1>2, <2>1 DEF UploadInv, CompleteAwaiting
<1>4. CompleteInHand'
  <2> SUFFICES ASSUME NEW r \in Reqs,
                      req'[r].pc \in {"access", "hash", "stat", "rename", "commit"}
               PROVE  written'[req'[r].u] = FileSize
    BY DEF CompleteInHand
  <2> DEFINE q == req'[r]
  <2>1. q.u \in Uploads
    BY HandlersKept DEF Handlers
  <2>2. CASE /\ q.u \in temp /\ session[q.u].status = "uploading"
             /\ session[q.u].received = FileSize
    BY <1>1, <2>1, <2>2, UploadAssumption DEF UploadInv, AckedBytesOnDisk
  <2>3. CASE session[q.u].status = "awaiting_confirmation"
    BY <1>2, <2>1, <2>3 DEF UploadInv, CompleteAwaiting
  <2>4. CASE /\ q.u = req[r].u
             /\ req[r].pc \in {"access", "hash", "stat", "rename", "commit"}
    BY <1>2, <2>1, <2>4 DEF UploadInv, CompleteInHand
  <2>5. QED BY <2>2, <2>3, <2>4, HandlerSteps DEF HandlerStep
<1>5. QED BY <1>3, <1>4

LEMMA RegisterComplete ==
  ASSUME UploadInv, NEW r \in Reqs, RegisterAsset(r)
  PROVE  OnlyCompleteFiles'
<1>1. written[req[r].u] = FileSize
  BY DEF RegisterAsset, At, UploadInv, CompleteInHand
<1>2. PICK row : lib' = Append(lib, row) /\ row.hash.size = FileSize
  BY <1>1 DEF RegisterAsset, Register, HashOf
<1>3. lib \in Seq(VersionType)
  BY DEF UploadInv, TypeOK
<1>4. QED BY <1>2, <1>3 DEF UploadInv, OnlyCompleteFiles

LEMMA StableRowComplete ==
  ASSUME UploadInv, NEW k, lib' = [lib EXCEPT ![k].at = "stable"]
  PROVE  OnlyCompleteFiles'
<1> SUFFICES ASSUME NEW i \in DOMAIN lib' PROVE lib'[i].hash.size = FileSize
  BY DEF OnlyCompleteFiles
<1>1. i \in DOMAIN lib /\ lib[i] \in VersionType
  BY DEF UploadInv, TypeOK
<1>2. lib'[i] = lib[i] \/ lib'[i] = [lib[i] EXCEPT !.at = "stable"]
  BY <1>1
<1>3. lib'[i].hash = lib[i].hash
  BY <1>1, <1>2 DEF VersionType
<1>4. QED BY <1>1, <1>3 DEF UploadInv, OnlyCompleteFiles

LEMMA LibraryKept == UploadInv /\ Next => OnlyCompleteFiles'
<1> SUFFICES ASSUME UploadInv, Next PROVE OnlyCompleteFiles'
  OBVIOUS
<1> USE DEF libVars
<1>0. CASE UNCHANGED lib
  BY <1>0 DEF UploadInv, OnlyCompleteFiles
<1>1. CASE ClientStep
  BY <1>0, <1>1 DEF ClientStep, Reserve, CreateBegin, ChunkBegin, FinalizeBegin, ConfirmBegin,
       ChunkCancelled, FinalizeUnavailable, FinalizeCancelled, AbortUpload, CancelJob
<1>2. ASSUME NEW r \in Reqs, Resume(r) PROVE OnlyCompleteFiles'
  <2>1. CASE RegisterAsset(r)
    BY <2>1, RegisterComplete
  <2>2. CASE CommitUpload(r)
    BY <2>2, StableRowComplete DEF CommitUpload
  <2>3. CASE ~RegisterAsset(r) /\ ~CommitUpload(r)
    BY <1>0, <1>2, <2>3 DEF Resume, CreateInsert, InsertRefused, ChunkWritten, ChunkFailed, ConfirmMissing,
         ConfirmProceed, ConfirmUnavailable, HashFailed, HashedDuplicate, HashedVersion,
         HashedNew, RenameFile, FinalizeThrows
  <2>4. QED BY <2>1, <2>2, <2>3
<1>3. CASE Sweep \/ Recover \/ \E j \in Jobs : TrackerFail(j)
  BY <1>0, <1>3 DEF Sweep, SweepUploadSession, SweepQueuedJob, TrackerFail,
       Recover, RecoverRow, RecoverStable, RecoverTemp, RecoverUnlinkTemp, RecoverUnlinkStable, CleanUpStable
<1>4. CASE CrashMidway
  <2>1. UNCHANGED lib \/ \E k : lib' = [lib EXCEPT ![k].at = "stable"]
    BY <1>4 DEF CrashMidway, CrashInCreate, CrashInVersion, CrashInSweep, CrashInCommit
  <2>2. QED BY <1>0, <2>1, StableRowComplete
<1>5. ASSUME NEW P, Restart(P) PROVE OnlyCompleteFiles'
  BY <1>0, <1>5 DEF Restart
<1>6. QED BY <1>1, <1>2, <1>3, <1>4, <1>5 DEF Next

LEMMA InvStep == UploadInv /\ [Next]_vars => UploadInv'
<1> SUFFICES ASSUME UploadInv, [Next]_vars PROVE UploadInv'
  OBVIOUS
<1>1. CASE Next
  <2>1. TypeOK'
    BY <1>1, TypeKept
  <2>2. Sessions'
    BY <1>1, SessionSteps, SessionsStay DEF Sessions
  <2>3. WrittenBounded'
    BY <1>1, FileSteps DEF FileStep, WrittenBounded
  <2>4. QED BY <1>1, <2>1, <2>2, <2>3, HandlersKept, OffsetsKept, AckedKept, CompleteKept,
               LibraryKept DEF UploadInv
<1>2. CASE UNCHANGED vars
  BY <1>2 DEF vars, jobVars, fileVars, libVars, bootVars, UploadInv, TypeOK, Sessions, Handlers,
       Recovering, WrittenBounded, OffsetsCovered, AckedBytesOnDisk, CompleteInHand,
       CompleteAwaiting, OnlyCompleteFiles
<1>3. QED BY <1>1, <1>2

LEMMA InvInit == Init => UploadInv
<1> SUFFICES ASSUME Init PROVE UploadInv
  OBVIOUS
<1>1. TypeOK
  BY InitTyped
<1>2. NoSession.status = "none" /\ Idle.pc = "idle" /\ NotRecovering.pc = "idle"
  BY DEF NoSession, Idle, NotRecovering
<1>3. Sessions /\ Handlers /\ Recovering
  BY <1>2 DEF Init, Sessions, Handlers, Recovering
<1>4. WrittenBounded
  BY UploadAssumption DEF Init, WrittenBounded
<1>5. OffsetsCovered /\ CompleteInHand /\ CompleteAwaiting
  BY <1>2 DEF Init, OffsetsCovered, CompleteInHand, CompleteAwaiting
<1>6. AckedBytesOnDisk /\ OnlyCompleteFiles
  BY DEF Init, AckedBytesOnDisk, OnlyCompleteFiles
<1>7. QED BY <1>1, <1>3, <1>4, <1>5, <1>6 DEF UploadInv

-----------------------------------------------------------------------------
(* The inductive invariant holds in every reachable state: whatever clients, *)
(* sweeps, the tracker, recovery and crashes do to the sessions and files of *)
(* the upload routes.                                                        *)
THEOREM Invariant == Spec => []UploadInv
<1>1. Init => UploadInv
  BY InvInit
<1>2. UploadInv /\ [Next]_vars => UploadInv'
  BY InvStep
<1>3. QED BY <1>1, <1>2, PTL DEF Spec

(* Job rows, sessions, library rows, handlers and recovery keep their types, *)
(* for any number of jobs, uploads and handlers, through crashes.            *)
THEOREM TypesCorrect == Spec => []TypeOK
<1>1. UploadInv => TypeOK
  BY DEF UploadInv
<1>2. QED BY <1>1, Invariant, PTL

(* The offset a PATCH acknowledges never exceeds the bytes in the temp file, *)
(* with any number of PATCHes, resumes, sweeps and restarts in flight.       *)
THEOREM AcknowledgedBytes == Spec => []AckedBytesOnDisk
<1>1. UploadInv => AckedBytesOnDisk
  BY DEF UploadInv
<1>2. QED BY <1>1, Invariant, PTL

(* finalizeUploadedAsset never registers a file whose bytes are not all      *)
(* there, although it checks the offset in one segment and registers in a    *)
(* later one, and although the file may be unlinked in between.              *)
THEOREM CompleteFilesOnly == Spec => []OnlyCompleteFiles
<1>1. UploadInv => OnlyCompleteFiles
  BY DEF UploadInv
<1>2. QED BY <1>1, Invariant, PTL

-----------------------------------------------------------------------------
(* A set of row numbers has a largest member: the least distance from the end. *)
LEMMA LargestRow ==
  ASSUME NEW n \in Nat, NEW S, S \subseteq 1 .. n, S # {}
  PROVE  \E i \in S : \A k \in S : k <= i
<1> DEFINE T == {m \in Nat : n - m \in S}
<1>1. T # {}
  <2>1. PICK i \in S : TRUE
    OBVIOUS
  <2>2. n - i \in T
    BY <2>1
  <2>3. QED BY <2>2
<1>2. PICK m \in T : \A k \in T : ~(<<k, m>> \in OpToRel(<, Nat))
  <2>1. T \subseteq Nat
    OBVIOUS
  <2>2. IsWellFoundedOn(OpToRel(<, Nat), Nat)
    BY NatLessThanWellFounded
  <2>3. QED BY <1>1, <2>1, <2>2, WFMin
<1>3. \A k \in T : ~(k < m)
  BY <1>2 DEF OpToRel
<1>4. n - m \in S
  OBVIOUS
<1>5. ASSUME NEW k \in S PROVE k <= n - m
  <2>1. n - k \in T
    BY <1>5
  <2>2. ~(n - k < m)
    BY <1>3, <2>1
  <2>3. QED BY <2>2, <1>5
<1>6. QED BY <1>4, <1>5

LEMMA LastIs ==
  ASSUME NEW n \in Nat, NEW S, S \subseteq 1 .. n
  PROVE  /\ S # {} => Last(S) \in S /\ \A k \in S : k <= Last(S)
         /\ \A i \in S : (\A k \in S : k <= i) => Last(S) = i
<1>1. ASSUME S # {} PROVE Last(S) \in S /\ \A k \in S : k <= Last(S)
  BY <1>1, LargestRow DEF Last
<1>2. ASSUME NEW i \in S, \A k \in S : k <= i PROVE Last(S) = i
  <2>1. Last(S) \in S /\ i <= Last(S)
    BY <1>1, <1>2
  <2>2. Last(S) <= i
    BY <1>2, <2>1
  <2>3. i \in Int /\ Last(S) \in Int
    <3>1. \A k \in S : k \in Int
      OBVIOUS
    <3>2. QED BY <2>1, <3>1
  <2>4. QED BY <2>1, <2>2, <2>3
<1>3. QED BY <1>1, <1>2

-----------------------------------------------------------------------------
(***************************************************************************)
(* The inductive invariant behind DoneIsInLibrary.  A job is completed by  *)
(* a commit, by a confirm that finds its own bytes, or by recovery from    *)
(* what a row says after a crash; each must have been preceded by a        *)
(* registration of that job's bytes, and what a handler or a row carries   *)
(* across an await or a restart must still name them.                      *)
(***************************************************************************)
InLibrary(j) == \E i \in DOMAIN lib : lib[i].hash.bytes = ContentOf[j]

\* An upload id in a create call's hands is in nobody else's, and has no session.
FreshCreates ==
  running => \A r \in Reqs : req[r].pc = "create" =>
    /\ session[req[r].u].status = "none"
    /\ \A s \in Reqs : req[s].u = req[r].u => s = r

KnownTargets ==
  /\ \A r \in Reqs :
       /\ req[r].target \in AssetIds \cup {0}
       /\ req[r].pc \in {"rename", "commit"} => req[r].target # 0
  /\ \A u \in Uploads : session[u].replace \in AssetIds \cup {0}

\* An asset is named by its first row, which is no duplicate.
FirstRows == \A a \in AssetIds : a \in DOMAIN lib /\ lib[a].asset = a /\ ~lib[a].dup

\* A duplicate says what the row before it says.
LatestIsCurrent == \A a \in AssetIds : lib[LatestRow(a)].hash = lib[CurrentRow(a)].hash

Registered ==
  \A r \in Reqs : req[r].pc \in {"rename", "commit"} => InLibrary(session[req[r].u].job)

AssetKnown == \A j \in Jobs : jobAsset[j] # 0 => InLibrary(j)

\* The rows recovery works from were read before the requests beside it.
RowsKnown ==
  /\ \A row \in recovery.todo \cup {recovery.row} : row.asset # 0 => InLibrary(row.job)
  /\ recovery.pc = "stable" => recovery.row.asset # 0

LibraryInv ==
  /\ UploadInv
  /\ FreshCreates
  /\ FirstRows
  /\ KnownTargets
  /\ Registered
  /\ AssetKnown
  /\ RowsKnown
  /\ DoneIsInLibrary

LEMMA RowTyped ==
  ASSUME TypeOK, NEW i \in DOMAIN lib
  PROVE  lib[i] \in VersionType /\ lib[i].asset \in Nat /\ lib[i].dup \in BOOLEAN
<1>1. lib[i] \in VersionType
  BY DEF TypeOK
<1>2. QED BY <1>1 DEF VersionType

LEMMA LatestHolds ==
  ASSUME TypeOK, NEW a \in AssetIds
  PROVE  /\ LatestRow(a) \in DOMAIN lib
         /\ lib[LatestRow(a)].asset = a
         /\ \A k \in RowsOf(a) : k <= LatestRow(a)
<1>1. RowsOf(a) # {} /\ RowsOf(a) \subseteq 1 .. Len(lib) /\ Len(lib) \in Nat
  BY DEF AssetIds, RowsOf, TypeOK
<1>2. LatestRow(a) \in RowsOf(a) /\ \A k \in RowsOf(a) : k <= LatestRow(a)
  BY <1>1, LastIs DEF LatestRow
<1>3. QED BY <1>2 DEF RowsOf

LEMMA CurrentHolds ==
  ASSUME TypeOK, FirstRows, NEW a \in AssetIds
  PROVE  /\ CurrentRow(a) \in DOMAIN lib
         /\ lib[CurrentRow(a)].asset = a
         /\ ~lib[CurrentRow(a)].dup
         /\ \A k \in RowsOf(a) : ~lib[k].dup => k <= CurrentRow(a)
<1> DEFINE S == {i \in RowsOf(a) : ~lib[i].dup}
<1>1. a \in S /\ S \subseteq 1 .. Len(lib) /\ Len(lib) \in Nat
  BY DEF FirstRows, RowsOf, TypeOK
<1>2. Last(S) \in S /\ \A k \in S : k <= Last(S)
  <2> HIDE DEF S
  <2>1. QED BY <1>1, LastIs
<1>3. QED BY <1>2 DEF RowsOf, CurrentRow

-----------------------------------------------------------------------------
(* What one step can do to the library: nothing, a new row at the end, or    *)
(* a new path in one row.                                                    *)

Marked(k) == lib' = [lib EXCEPT ![k].at = "stable"]

LEMMA LibrarySteps ==
  ASSUME Next
  PROVE  \/ lib' = lib
         \/ \E r \in Reqs : RegisterAsset(r)
         \/ \E r \in Reqs : At(r, {"commit"}) /\ Marked(LatestRow(req[r].target))
<1> USE DEF libVars
<1>1. CASE ClientStep
  BY <1>1 DEF ClientStep, Reserve, CreateBegin, ChunkBegin, FinalizeBegin, ConfirmBegin,
       ChunkCancelled, FinalizeUnavailable, FinalizeCancelled, AbortUpload, CancelJob
<1>2. ASSUME NEW r \in Reqs, Resume(r), ~RegisterAsset(r), ~CommitUpload(r) PROVE lib' = lib
  BY <1>2 DEF Resume, CreateInsert, InsertRefused, ChunkWritten, ChunkFailed, ConfirmMissing,
       ConfirmProceed, ConfirmUnavailable, HashFailed, HashedDuplicate, HashedVersion,
       HashedNew, RenameFile, FinalizeThrows
<1>3. CASE Sweep \/ Recover \/ \E j \in Jobs : TrackerFail(j)
  BY <1>3 DEF Sweep, SweepUploadSession, SweepQueuedJob, TrackerFail,
       Recover, RecoverRow, RecoverStable, RecoverTemp, RecoverUnlinkTemp, RecoverUnlinkStable, CleanUpStable
<1>4. CASE CrashMidway
  BY <1>4 DEF CrashMidway, CrashInCreate, CrashInVersion, CrashInSweep, CrashInCommit, Marked
<1>5. ASSUME NEW P, Restart(P) PROVE lib' = lib
  BY <1>5 DEF Restart
<1>6. ASSUME NEW r \in Reqs, CommitUpload(r)
      PROVE  At(r, {"commit"}) /\ Marked(LatestRow(req[r].target))
  BY <1>6 DEF CommitUpload, Marked
<1>7. QED BY <1>1, <1>2, <1>3, <1>4, <1>5, <1>6 DEF Next

NewRow(u, a) ==
  [asset |-> IF a = 0 THEN Len(lib) + 1 ELSE a,
   key   |-> KeyOf[session[u].job],
   hash  |-> HashOf(u),
   src   |-> u,
   at    |-> "temp",
   dup   |-> a # 0 /\ lib[LatestRow(a)].hash = HashOf(u)]

LEMMA Registers ==
  ASSUME TypeOK, NEW r \in Reqs, RegisterAsset(r)
  PROVE  LET row == NewRow(req[r].u, req[r].target)
         IN  /\ req[r].pc = "stat"
             /\ lib' = Append(lib, row)
             /\ Len(lib') = Len(lib) + 1
             /\ DOMAIN lib' = DOMAIN lib \cup {Len(lib) + 1}
             /\ lib'[Len(lib) + 1] = row
             /\ \A i \in DOMAIN lib : lib'[i] = lib[i]
             /\ req'[r] = [req[r] EXCEPT !.pc = "rename", !.target = row.asset]
             /\ \A s \in Reqs \ {r} : req'[s] = req[s]
<1> DEFINE row == NewRow(req[r].u, req[r].target)
<1>1. lib' = Append(lib, row)
  BY DEF RegisterAsset, Register, NewRow
<1>2. lib \in Seq(VersionType) /\ Len(lib) \in Nat
  BY DEF TypeOK
<1> HIDE DEF row
<1>3. /\ Len(lib') = Len(lib) + 1
      /\ DOMAIN lib' = DOMAIN lib \cup {Len(lib) + 1}
      /\ lib'[Len(lib) + 1] = row
      /\ \A i \in DOMAIN lib : lib'[i] = lib[i]
  BY <1>1, <1>2
<1>4. req' = [req EXCEPT ![r].pc = "rename", ![r].target = row.asset]
  BY <1>3 DEF RegisterAsset
<1>5. req'[r] = [req[r] EXCEPT !.pc = "rename", !.target = row.asset]
  BY <1>4 DEF TypeOK
<1>6. \A s \in Reqs \ {r} : req'[s] = req[s]
  BY <1>4 DEF TypeOK
<1>7. req[r].pc = "stat"
  BY DEF RegisterAsset, At
<1>8. QED BY <1>1, <1>3, <1>5, <1>6, <1>7 DEF row

MarkedFacts(k) ==
  /\ DOMAIN lib' = DOMAIN lib
  /\ \A i \in DOMAIN lib :
       /\ lib'[i].asset = lib[i].asset /\ lib'[i].hash = lib[i].hash
       /\ lib'[i].dup = lib[i].dup /\ lib'[i].src = lib[i].src
       /\ lib'[i].at = IF i = k THEN "stable" ELSE lib[i].at

LEMMA Marks ==
  ASSUME TypeOK, NEW k, Marked(k)
  PROVE  MarkedFacts(k)
<1>1. DOMAIN lib' = DOMAIN lib
  BY DEF Marked, TypeOK
<1>2. ASSUME NEW i \in DOMAIN lib
      PROVE  /\ lib'[i].asset = lib[i].asset /\ lib'[i].hash = lib[i].hash
             /\ lib'[i].dup = lib[i].dup /\ lib'[i].src = lib[i].src
             /\ lib'[i].at = IF i = k THEN "stable" ELSE lib[i].at
  <2>1. lib[i] \in VersionType
    BY RowTyped
  <2>2. lib'[i] = IF i = k THEN [lib[i] EXCEPT !.at = "stable"] ELSE lib[i]
    BY DEF Marked, TypeOK
  <2>3. QED BY <2>1, <2>2 DEF VersionType
<1>3. QED BY <1>1, <1>2 DEF MarkedFacts

\* Rows are only added, and what they say of asset, content and rank stays.
Grows ==
  \A i \in DOMAIN lib :
    /\ i \in DOMAIN lib'
    /\ lib'[i].asset = lib[i].asset
    /\ lib'[i].hash = lib[i].hash
    /\ lib'[i].dup = lib[i].dup

LEMMA LibraryGrows ==
  ASSUME TypeOK, Next
  PROVE  Grows
<1>1. CASE lib' = lib
  BY <1>1 DEF Grows
<1>2. ASSUME NEW r \in Reqs, RegisterAsset(r) PROVE Grows
  BY <1>2, Registers DEF Grows
<1>3. ASSUME NEW k, Marked(k) PROVE Grows
  BY <1>3, Marks DEF Grows, MarkedFacts
<1>4. QED BY <1>1, <1>2, <1>3, LibrarySteps

LEMMA StaysInLibrary ==
  ASSUME TypeOK, Next
  PROVE  /\ \A j : InLibrary(j) => \E i \in DOMAIN lib' : lib'[i].hash.bytes = ContentOf[j]
         /\ AssetIds \subseteq AssetIds'
<1>1. Grows
  BY LibraryGrows
<1>2. QED BY <1>1 DEF Grows, InLibrary, AssetIds

LEMMA SessionJobStays ==
  ASSUME UploadInv, FreshCreates, Next, NEW u \in Uploads, session[u].status # "none"
  PROVE  session'[u].job = session[u].job
<1>1. session[u] \in SessionType
  BY DEF UploadInv, TypeOK
<1>2. ~(\E r \in Reqs : At(r, {"create"}) /\ u = req[r].u)
  BY DEF FreshCreates, At
<1>3. \/ session'[u] = session[u]
      \/ \E st : session'[u] = [session[u] EXCEPT !.status = st]
      \/ \E n : session'[u] = [session[u] EXCEPT !.received = n]
  BY <1>2, SessionSteps DEF SessionStep
<1>4. \A st : [session[u] EXCEPT !.status = st].job = session[u].job
  BY <1>1 DEF SessionType
<1>5. \A n : [session[u] EXCEPT !.received = n].job = session[u].job
  BY <1>1 DEF SessionType
<1>6. QED BY <1>3, <1>4, <1>5

LEMMA ReplaceStays ==
  ASSUME UploadInv, Next, NEW u \in Uploads
  PROVE  \/ session'[u].replace = session[u].replace
         \/ \E r \in Reqs : session'[u].replace = req[r].target
<1>1. session[u] \in SessionType
  BY DEF UploadInv, TypeOK
<1>2. \A st : [session[u] EXCEPT !.status = st].replace = session[u].replace
  BY <1>1 DEF SessionType
<1>3. \A n : [session[u] EXCEPT !.received = n].replace = session[u].replace
  BY <1>1 DEF SessionType
<1>4. \/ session'[u] = session[u]
      \/ \E st : session'[u] = [session[u] EXCEPT !.status = st]
      \/ \E n : session'[u] = [session[u] EXCEPT !.received = n]
      \/ \E r \in Reqs : session'[u].replace = req[r].target
  <2>1. ASSUME NEW r \in Reqs, NEW j, NEW a, a = req[r].target,
               session'[u] = [status |-> "uploading", job |-> j, received |-> 0, replace |-> a]
        PROVE  session'[u].replace = req[r].target
    BY <2>1
  <2>2. QED BY <2>1, SessionSteps DEF SessionStep
<1>5. QED BY <1>2, <1>3, <1>4

LEMMA FirstRowsKept ==
  ASSUME LibraryInv, Next
  PROVE  FirstRows'
<1> SUFFICES ASSUME NEW i \in DOMAIN lib'
             PROVE  LET a == lib'[i].asset
                    IN  a \in DOMAIN lib' /\ lib'[a].asset = a /\ ~lib'[a].dup
  BY DEF FirstRows, AssetIds
<1>0. TypeOK /\ UploadInv /\ FirstRows /\ KnownTargets
  BY DEF LibraryInv, UploadInv
<1>1. Grows
  BY <1>0, LibraryGrows
<1>2. ASSUME NEW a \in AssetIds PROVE a \in DOMAIN lib' /\ lib'[a].asset = a /\ ~lib'[a].dup
  BY <1>0, <1>1 DEF FirstRows, Grows
<1>3. CASE i \in DOMAIN lib
  BY <1>1, <1>2, <1>3 DEF Grows, AssetIds
<1>4. ASSUME NEW r \in Reqs, RegisterAsset(r), i \notin DOMAIN lib
      PROVE  LET a == lib'[i].asset
             IN  a \in DOMAIN lib' /\ lib'[a].asset = a /\ ~lib'[a].dup
  <2>1. i = Len(lib) + 1 /\ lib'[i] = NewRow(req[r].u, req[r].target)
    BY <1>0, <1>4, Registers
  <2>2. req[r].target \in AssetIds \cup {0}
    BY <1>0 DEF KnownTargets
  <2>3. CASE req[r].target = 0
    <3>1. lib'[i].asset = i
      BY <2>1, <2>3 DEF NewRow
    <3>2. ~lib'[i].dup
      <4>1. (req[r].target # 0 /\ lib[LatestRow(req[r].target)].hash = HashOf(req[r].u)) = FALSE
        BY <2>3
      <4>2. NewRow(req[r].u, req[r].target).dup = FALSE
        BY <4>1 DEF NewRow
      <4>3. QED BY <2>1, <4>2
    <3>3. QED BY <3>1, <3>2
  <2>4. CASE req[r].target \in AssetIds /\ req[r].target # 0
    BY <1>2, <2>1, <2>4 DEF NewRow
  <2>5. QED BY <2>2, <2>3, <2>4
<1>5. DOMAIN lib' = DOMAIN lib \/ \E r \in Reqs : RegisterAsset(r)
  BY <1>0, LibrarySteps, Marks DEF MarkedFacts
<1>6. QED BY <1>3, <1>4, <1>5

\* A handler comes to the rename only by registering, and past it by renaming.
LEMMA LateHandlers ==
  ASSUME UploadInv, Next, NEW r \in Reqs, req'[r].pc \in {"rename", "commit"}
  PROVE  \/ req'[r] = req[r]
         \/ RegisterAsset(r)
         \/ RenameFile(r) /\ req'[r] = [req[r] EXCEPT !.pc = "commit"]
<1>0. /\ req \in [Reqs -> RequestType] /\ Idle.pc = "idle" /\ Idle.pc \notin {"rename", "commit"}
      /\ req[r] \in RequestType
  BY DEF UploadInv, TypeOK, Idle
<1>1. CASE ClientStep
  <2>1. ASSUME NEW x \in Reqs, NEW e, req' = [req EXCEPT ![x] = e], e.pc \notin {"rename", "commit"}
        PROVE  req'[r] = req[r]
    BY <1>0, <2>1
  <2>2. ASSUME NEW x \in Reqs, NEW j \in Jobs, NEW a, CreateBegin(x, j, a) PROVE req'[r] = req[r]
    BY <2>1, <2>2 DEF CreateBegin, Idle
  <2>3. ASSUME NEW x \in Reqs, NEW u \in Uploads, NEW off, ChunkBegin(x, u, off)
        PROVE  req'[r] = req[r]
    BY <2>1, <2>3 DEF ChunkBegin, Idle
  <2>4. ASSUME NEW x \in Reqs, NEW u \in Uploads, FinalizeBegin(x, u) PROVE req'[r] = req[r]
    BY <2>1, <2>4 DEF FinalizeBegin, Idle
  <2>5. ASSUME NEW x \in Reqs, NEW u \in Uploads, NEW a, ConfirmBegin(x, u, a)
        PROVE  req'[r] = req[r]
    BY <2>1, <2>5 DEF ConfirmBegin, Idle
  <2>6. QED BY <1>1, <2>2, <2>3, <2>4, <2>5 DEF ClientStep, Reserve,
       ChunkCancelled, FinalizeUnavailable, FinalizeCancelled, AbortUpload, CancelJob
<1>2. ASSUME NEW x \in Reqs, Resume(x), ~RegisterAsset(r), ~RenameFile(r) PROVE req'[r] = req[r]
  <2>1. x = r => FALSE
    <3>1. ASSUME x = r
          PROVE  \/ req'[r] = Idle
                 \/ \E p \in {"hash", "stat"} : req'[r] = [req[r] EXCEPT !.pc = p]
      BY <1>0, <1>2, <3>1 DEF Resume, CreateInsert, InsertRefused, ChunkWritten, ChunkFailed, ConfirmMissing,
         ConfirmProceed, ConfirmUnavailable, HashFailed, HashedDuplicate, HashedVersion,
         HashedNew, FinalizeThrows, CommitUpload
    <3>2. QED BY <1>0, <3>1 DEF RequestType
  <2>2. \E e : req' = [req EXCEPT ![x] = e]
    BY <1>2 DEF Resume, CreateInsert, InsertRefused, ChunkWritten, ChunkFailed, ConfirmMissing,
       ConfirmProceed, ConfirmUnavailable, HashFailed, HashedDuplicate, HashedVersion,
       HashedNew, RegisterAsset, RenameFile, FinalizeThrows, CommitUpload
  <2>3. QED BY <1>0, <2>1, <2>2
<1>3. CASE RenameFile(r)
  BY <1>0, <1>3 DEF RenameFile
<1>4. CASE Sweep \/ Recover \/ CrashMidway \/ \E j \in Jobs : TrackerFail(j)
  BY <1>4 DEF Sweep, SweepUploadSession, SweepQueuedJob, TrackerFail, Recover, RecoverRow,
     RecoverStable, RecoverTemp, RecoverUnlinkTemp, RecoverUnlinkStable, CleanUpStable, CrashMidway, CrashInCreate, CrashInVersion,
     CrashInSweep, CrashInCommit, Crash
<1>5. ASSUME NEW P, Restart(P) PROVE FALSE
  BY <1>0, <1>5 DEF Restart
<1>6. QED BY <1>1, <1>2, <1>3, <1>4, <1>5 DEF Next

LEMMA RegisteredKept ==
  ASSUME LibraryInv, Next
  PROVE  Registered'
<1> SUFFICES ASSUME NEW r \in Reqs, req'[r].pc \in {"rename", "commit"}
             PROVE  \E i \in DOMAIN lib' :
                      lib'[i].hash.bytes = ContentOf[session'[req'[r].u].job]
  BY DEF Registered, InLibrary
<1>0. UploadInv /\ TypeOK /\ FreshCreates /\ req[r] \in RequestType
  BY DEF LibraryInv, UploadInv, TypeOK
<1>1. CASE req[r].pc \in {"rename", "commit"} /\ req'[r].u = req[r].u
  <2>1. req[r].u \in Uploads /\ session[req[r].u].status # "none"
    BY <1>0, <1>1, HandlerHolds
  <2>2. session'[req[r].u].job = session[req[r].u].job
    BY <1>0, <2>1, SessionJobStays
  <2>3. InLibrary(session[req[r].u].job)
    BY <1>1 DEF LibraryInv, Registered
  <2>4. \E i \in DOMAIN lib' : lib'[i].hash.bytes = ContentOf[session[req[r].u].job]
    BY <1>0, <2>3, StaysInLibrary
  <2>5. QED BY <1>1, <2>2, <2>4
<1>2. CASE RegisterAsset(r)
  <2>1. req[r].u \in Uploads /\ session[req[r].u].status # "none"
    BY <1>0, <1>2, HandlerHolds, Registers
  <2>2. session'[req[r].u].job = session[req[r].u].job
    BY <1>2 DEF RegisterAsset
  <2>3. /\ Len(lib) + 1 \in DOMAIN lib'
        /\ lib'[Len(lib) + 1] = NewRow(req[r].u, req[r].target)
        /\ req'[r].u = req[r].u
    BY <1>0, <1>2, Registers DEF RequestType
  <2>4. lib'[Len(lib) + 1].hash.bytes = ContentOf[session[req[r].u].job]
    BY <2>3 DEF NewRow, HashOf
  <2>5. QED BY <2>2, <2>3, <2>4
<1>3. CASE RenameFile(r) /\ req'[r] = [req[r] EXCEPT !.pc = "commit"]
  <2>1. req[r].pc = "rename" /\ req'[r].u = req[r].u
    BY <1>0, <1>3 DEF RenameFile, At, RequestType
  <2>2. QED BY <1>1, <2>1
<1>4. QED BY <1>0, <1>1, <1>2, <1>3, LateHandlers

\* A handler's target is what it was given, until the registration names it.
TargetStep(r) ==
  \/ req'[r].target = req[r].target /\ (req'[r].pc \in {"rename", "commit"} => req[r].pc = "rename" \/ req'[r] = req[r])
  \/ req'[r].target \in AssetIds \cup {0} /\ req'[r].pc \notin {"rename", "commit"}
  \/ RegisterAsset(r)

LEMMA TargetSteps ==
  ASSUME LibraryInv, Next, NEW r \in Reqs
  PROVE  TargetStep(r)
<1>0. /\ req \in [Reqs -> RequestType] /\ Idle.pc = "idle" /\ Idle.target = 0
      /\ req[r] \in RequestType
      /\ \A u \in Uploads : session[u].replace \in AssetIds \cup {0}
  BY DEF LibraryInv, UploadInv, TypeOK, Idle, KnownTargets
<1>1. CASE UNCHANGED req
  BY <1>1 DEF TargetStep
<1>2. CASE ClientStep
  <2>1. ASSUME NEW x \in Reqs, NEW e, req' = [req EXCEPT ![x] = e],
               e.pc \notin {"rename", "commit"}, e.target \in AssetIds \cup {0}
        PROVE  TargetStep(r)
    <3>1. req'[r] = IF x = r THEN e ELSE req[r]
      BY <1>0, <2>1
    <3>2. QED BY <2>1, <3>1 DEF TargetStep
  <2>2. ASSUME NEW x \in Reqs, NEW j \in Jobs, NEW a \in AssetIds \cup {0}, CreateBegin(x, j, a)
        PROVE  TargetStep(r)
    <3>1. PICK u \in Uploads : CreateTakes(x, j, a, u)
      BY <2>2, CreateTakesFresh
    <3>2. QED BY <2>1, <3>1 DEF CreateTakes, Idle
  <2>3. ASSUME NEW x \in Reqs, NEW u \in Uploads, NEW off, ChunkBegin(x, u, off)
        PROVE  TargetStep(r)
    BY <2>1, <2>3 DEF ChunkBegin, Idle
  <2>4. ASSUME NEW x \in Reqs, NEW u \in Uploads, FinalizeBegin(x, u) PROVE TargetStep(r)
    BY <1>0, <2>1, <2>4 DEF FinalizeBegin, Idle
  <2>5. ASSUME NEW x \in Reqs, NEW u \in Uploads, NEW a \in AssetIds \cup {0}, ConfirmBegin(x, u, a)
        PROVE  TargetStep(r)
    BY <2>1, <2>5 DEF ConfirmBegin, Idle
  <2>6. QED BY <1>1, <1>2, <2>2, <2>3, <2>4, <2>5 DEF ClientStep, Reserve,
       ChunkCancelled, FinalizeUnavailable, FinalizeCancelled, AbortUpload, CancelJob
<1>3. ASSUME NEW x \in Reqs, Resume(x) PROVE TargetStep(r)
  <2>1. CASE x # r
    <3>1. \E e : req' = [req EXCEPT ![x] = e]
      BY <1>3 DEF Resume, CreateInsert, InsertRefused, ChunkWritten, ChunkFailed, ConfirmMissing,
         ConfirmProceed, ConfirmUnavailable, HashFailed, HashedDuplicate, HashedVersion,
         HashedNew, RegisterAsset, RenameFile, FinalizeThrows, CommitUpload
    <3>2. QED BY <1>0, <2>1, <3>1 DEF TargetStep
  <2>2. CASE x = r /\ (ConfirmProceed(r) \/ HashedNew(r))
    <3>1. \E p \in {"hash", "stat"} : req'[r] = [req[r] EXCEPT !.pc = p]
      BY <1>0, <2>2 DEF ConfirmProceed, HashedNew
    <3>2. QED BY <1>0, <3>1 DEF TargetStep, RequestType
  <2>3. CASE RegisterAsset(r)
    BY <2>3 DEF TargetStep
  <2>4. CASE x = r /\ RenameFile(r)
    <3>1. req'[r] = [req[r] EXCEPT !.pc = "commit"] /\ req[r].pc = "rename"
      BY <1>0, <2>4 DEF RenameFile, At
    <3>2. QED BY <1>0, <3>1 DEF TargetStep, RequestType
  <2>5. CASE x = r /\ req' = [req EXCEPT ![r] = Idle]
    BY <1>0, <2>5 DEF TargetStep
  <2>6. QED BY <1>3, <2>1, <2>2, <2>3, <2>4, <2>5 DEF Resume, CreateInsert, InsertRefused, ChunkWritten,
       ChunkFailed, ConfirmMissing, ConfirmUnavailable, HashFailed, HashedDuplicate,
       HashedVersion, FinalizeThrows, CommitUpload
<1>4. CASE Sweep \/ Recover \/ CrashMidway \/ \E j \in Jobs : TrackerFail(j)
  BY <1>1, <1>4 DEF Sweep, SweepUploadSession, SweepQueuedJob, TrackerFail, Recover, RecoverRow,
     RecoverStable, RecoverTemp, RecoverUnlinkTemp, RecoverUnlinkStable, CleanUpStable, CrashMidway, CrashInCreate, CrashInVersion,
     CrashInSweep, CrashInCommit, Crash
<1>5. ASSUME NEW P, Restart(P) PROVE TargetStep(r)
  BY <1>0, <1>5 DEF Restart, TargetStep
<1>6. QED BY <1>2, <1>3, <1>4, <1>5 DEF Next

LEMMA NoAssetZero == TypeOK /\ FirstRows => 0 \notin AssetIds
BY DEF FirstRows, TypeOK

LEMMA TargetsKept ==
  ASSUME LibraryInv, Next
  PROVE  KnownTargets'
<1>0. UploadInv /\ TypeOK /\ KnownTargets /\ AssetIds \subseteq AssetIds'
  BY StaysInLibrary DEF LibraryInv, UploadInv
<1>1. \A u \in Uploads : session'[u].replace \in AssetIds' \cup {0}
  BY <1>0, ReplaceStays DEF KnownTargets
<1>2. ASSUME NEW r \in Reqs
      PROVE  /\ req'[r].target \in AssetIds' \cup {0}
             /\ req'[r].pc \in {"rename", "commit"} => req'[r].target # 0
  <2>1. CASE RegisterAsset(r)
    <3>1. req[r] \in RequestType
      BY <1>0 DEF TypeOK
    <3>2. /\ Len(lib) + 1 \in DOMAIN lib'
          /\ lib'[Len(lib) + 1] = NewRow(req[r].u, req[r].target)
          /\ req'[r].target = NewRow(req[r].u, req[r].target).asset
      BY <1>0, <2>1, <3>1, Registers DEF RequestType
    <3>3. req'[r].target \in AssetIds'
      BY <3>2 DEF AssetIds
    <3>4. req'[r].target # 0
      <4>1. Len(lib) \in Nat /\ req[r].target \in Nat
        BY <1>0, <3>1, RequestFields DEF TypeOK
      <4>2. req'[r].target = IF req[r].target = 0 THEN Len(lib) + 1 ELSE req[r].target
        BY <3>2 DEF NewRow
      <4>3. QED BY <4>1, <4>2
    <3>5. QED BY <3>3, <3>4
  <2>2. QED BY <1>0, <2>1, TargetSteps DEF TargetStep, KnownTargets
<1>3. QED BY <1>1, <1>2 DEF KnownTargets

LEMMA AssetSteps ==
  ASSUME TypeOK, Next, NEW j \in Jobs, jobAsset'[j] # jobAsset[j]
  PROVE  \E r \in Reqs : req[r].pc = "commit" /\ j = session[req[r].u].job
<1> USE DEF jobVars
<1>1. ASSUME NEW r \in Reqs, req[r].pc = "commit",
             jobAsset' = [jobAsset EXCEPT ![session[req[r].u].job] = req[r].target]
      PROVE  j = session[req[r].u].job
  BY <1>1 DEF TypeOK
<1>2. CASE ClientStep
  BY <1>2 DEF ClientStep, Reserve, CreateBegin, ChunkBegin, FinalizeBegin, ConfirmBegin,
       ChunkCancelled, FinalizeUnavailable, FinalizeCancelled, AbortUpload, CancelJob
<1>3. ASSUME NEW r \in Reqs, Resume(r) PROVE CommitUpload(r)
  BY <1>3 DEF Resume, CreateInsert, InsertRefused, ChunkWritten, ChunkFailed, ConfirmMissing,
       ConfirmProceed, ConfirmUnavailable, HashFailed, HashedDuplicate, HashedVersion,
       HashedNew, RegisterAsset, RenameFile, FinalizeThrows
<1>4. CASE Sweep \/ Recover \/ \E k \in Jobs : TrackerFail(k)
  BY <1>4 DEF Sweep, SweepUploadSession, SweepQueuedJob, TrackerFail,
       Recover, RecoverRow, RecoverStable, RecoverTemp, RecoverUnlinkTemp, RecoverUnlinkStable, CleanUpStable
<1>5. CASE CrashMidway
  BY <1>1, <1>5 DEF CrashMidway, CrashInCreate, CrashInVersion, CrashInSweep, CrashInCommit, At
<1>6. ASSUME NEW P, Restart(P) PROVE FALSE
  BY <1>6 DEF Restart
<1>7. ASSUME NEW r \in Reqs, CommitUpload(r) PROVE req[r].pc = "commit" /\ j = session[req[r].u].job
  BY <1>1, <1>7 DEF CommitUpload, At
<1>8. QED BY <1>2, <1>3, <1>4, <1>5, <1>6, <1>7 DEF Next

LEMMA AssetsKept ==
  ASSUME LibraryInv, Next
  PROVE  AssetKnown'
<1> SUFFICES ASSUME NEW j \in Jobs, jobAsset'[j] # 0
             PROVE  \E i \in DOMAIN lib' : lib'[i].hash.bytes = ContentOf[j]
  BY DEF AssetKnown, InLibrary
<1>1. UploadInv /\ TypeOK
  BY DEF LibraryInv, UploadInv
<1>2. InLibrary(j)
  <2>1. CASE jobAsset'[j] = jobAsset[j]
    BY <2>1 DEF LibraryInv, AssetKnown
  <2>2. CASE jobAsset'[j] # jobAsset[j]
    BY <1>1, <2>2, AssetSteps DEF LibraryInv, Registered
  <2>3. QED BY <2>1, <2>2
<1>3. QED BY <1>1, <1>2, StaysInLibrary

\* Rows enter recovery at the restart, and are only taken from there.
RowSteps ==
  /\ recovery'.todo \subseteq recovery.todo
  /\ recovery'.row \in {NoRow, recovery.row} \cup recovery.todo
  /\ recovery'.pc = "stable" => recovery' = recovery \/ recovery'.row.asset # 0

LEMMA RecoverRows ==
  ASSUME TypeOK, Recover
  PROVE  RowSteps
<1>0. recovery \in RecoveryType
  BY DEF TypeOK
<1> DEFINE From(row) == recovery'.todo \subseteq recovery.todo /\ recovery'.row \in {NoRow, row}
                        /\ recovery'.pc # "stable"
<1>1. ASSUME NEW row, NEW st, RowDone(row, st) PROVE From(row)
  BY <1>0, <1>1 DEF RowDone, RecoveryType
<1>2. ASSUME NEW row, CleanUp(row) \/ CleanUpStable(row) PROVE From(row)
  BY <1>0, <1>1, <1>2 DEF CleanUp, CleanUpStable, RecoveryType
<1>3. ASSUME NEW row, LookUpSession(row) PROVE From(row)
  <2>1. CASE CleanUp(row)
    BY <1>2, <2>1
  <2>2. ASSUME NEW u, recovery' = [recovery EXCEPT !.pc = "temp", !.row = row, !.u = u]
        PROVE  From(row)
    BY <1>0, <2>2 DEF RecoveryType
  <2>3. QED BY <1>3, <2>1, <2>2 DEF LookUpSession
<1>4. ASSUME NEW row \in recovery.todo, RecoverRow(row) PROVE RowSteps
  <2>1. CASE row.asset # 0 /\ recovery' = [recovery EXCEPT !.pc = "stable", !.row = row]
    BY <1>0, <2>1 DEF RowSteps, RecoveryType
  <2>2. QED BY <1>3, <1>4, <2>1 DEF RecoverRow, RowSteps
<1>5. ASSUME From(recovery.row) PROVE RowSteps
  BY <1>5 DEF RowSteps
<1>6. CASE RecoverStable \/ RecoverTemp \/ RecoverUnlinkTemp \/ RecoverUnlinkStable
  BY <1>1, <1>2, <1>3, <1>5, <1>6 DEF RecoverStable, RecoverTemp, RecoverUnlinkTemp, RecoverUnlinkStable, CleanUpStable
<1>7. QED BY <1>4, <1>6 DEF Recover

LEMMA RecoveryAlone ==
  ASSUME TypeOK, Next, ~Recover, \A P \in SUBSET Jobs : ~Restart(P)
  PROVE  recovery' = recovery
<1>1. CASE ClientStep
  BY <1>1 DEF ClientStep, Reserve, CreateBegin, ChunkBegin, FinalizeBegin, ConfirmBegin,
       ChunkCancelled, FinalizeUnavailable, FinalizeCancelled, AbortUpload, CancelJob, bootVars
<1>2. ASSUME NEW r \in Reqs, Resume(r) PROVE UNCHANGED recovery
  BY <1>2 DEF Resume, CreateInsert, InsertRefused, ChunkWritten, ChunkFailed, ConfirmMissing, ConfirmProceed,
       ConfirmUnavailable, HashFailed, HashedDuplicate, HashedVersion, HashedNew,
       RegisterAsset, RenameFile, FinalizeThrows, CommitUpload, bootVars
<1>3. CASE Sweep \/ CrashMidway \/ \E j \in Jobs : TrackerFail(j)
  BY <1>3 DEF Sweep, SweepUploadSession, SweepQueuedJob, TrackerFail, bootVars,
       CrashMidway, CrashInCreate, CrashInVersion, CrashInSweep, CrashInCommit, Crash
<1>4. QED BY <1>1, <1>2, <1>3 DEF Next

LEMMA RowsKept ==
  ASSUME LibraryInv, Next
  PROVE  RowsKnown'
<1>0. UploadInv /\ TypeOK /\ RowsKnown /\ AssetKnown /\ NoRow.asset = 0
  BY DEF LibraryInv, UploadInv, NoRow
<1> DEFINE Known(row) ==
      row.asset # 0 => \E i \in DOMAIN lib' : lib'[i].hash.bytes = ContentOf[row.job]
<1>1. \A row \in recovery.todo \cup {recovery.row, NoRow} : Known(row)
  BY <1>0, StaysInLibrary DEF RowsKnown
<1>2. CASE RowSteps
  BY <1>0, <1>1, <1>2 DEF RowSteps, RowsKnown, InLibrary
<1>3. ASSUME NEW P \in SUBSET Jobs, Restart(P) PROVE RowsKnown'
  <2>1. recovery'.row = NoRow /\ recovery'.pc = "idle"
    BY <1>3 DEF Restart, NotRecovering
  <2>2. ASSUME NEW row \in recovery'.todo PROVE Known(row)
    <3>1. PICK j \in Jobs : row = [job |-> j, asset |-> jobAsset[j], stable |-> jobStable[j],
                                   temp |-> jobTemp[j]]
      BY <1>3, <2>2 DEF Restart, NotRecovering
    <3>2. jobAsset[j] # 0 => InLibrary(j)
      BY <1>0 DEF AssetKnown
    <3>3. QED BY <1>0, <3>1, <3>2, StaysInLibrary
  <2>3. QED BY <1>1, <2>1, <2>2 DEF RowsKnown, InLibrary
<1>4. CASE recovery' = recovery
  BY <1>0, <1>1, <1>4 DEF RowsKnown, InLibrary
<1>5. QED BY <1>0, <1>2, <1>3, <1>4, RecoverRows, RecoveryAlone

\* A job becomes done by a commit, by a confirm that finds its own bytes, or by
\* the recovery of a row that has its asset.
DoneStep(j) ==
  \/ \E r \in Reqs : req[r].pc = "commit" /\ j = session[req[r].u].job
  \/ \E r \in Reqs : /\ HashedDuplicate(r) /\ req[r].via = "confirm"
                     /\ j = session[req[r].u].job
  \/ recovery.pc = "stable" /\ recovery.row.job = j

LEMMA StatusBecomes ==
  ASSUME TypeOK, NEW k, NEW j \in Jobs, jobStatus[j] # "done",
         \/ Becomes(k, Failed) \/ Becomes(k, Progressed)
         \/ Becomes(k, Awaiting) \/ Becomes(k, Cancelled)
  PROVE  jobStatus'[j] # "done"
<1>1. \A st : /\ st # "done" => Failed(st) # "done" /\ Progressed(st) # "done"
              /\ st # "done" => Awaiting(st) # "done" /\ Cancelled(st) # "done"
  BY DEF Failed, Progressed, Awaiting, Cancelled, HasRow
<1>2. QED BY <1>1 DEF Becomes, TypeOK

LEMMA DoneSteps ==
  ASSUME TypeOK, Next, NEW j \in Jobs, jobStatus'[j] = "done", jobStatus[j] # "done"
  PROVE  DoneStep(j)
<1> USE DEF jobVars
<1>0. jobStatus' # jobStatus
  OBVIOUS
<1>1. ASSUME NEW k, Becomes(k, Failed) \/ Becomes(k, Progressed) \/ Becomes(k, Awaiting)
                    \/ Becomes(k, Cancelled)
      PROVE  FALSE
  BY <1>1, StatusBecomes
<1>2. CASE ClientStep
  <2>1. ASSUME NEW b, Reserve(b) PROVE FALSE
    BY <2>1 DEF Reserve
  <2>2. QED BY <1>0, <1>1, <1>2, <2>1 DEF ClientStep, CreateBegin, ChunkBegin, FinalizeBegin,
       ConfirmBegin, ChunkCancelled, FinalizeUnavailable, FinalizeCancelled, AbortUpload, CancelJob
<1>3. ASSUME NEW r \in Reqs, Resume(r) PROVE DoneStep(j)
  <2>1. ASSUME NEW k, Becomes(k, Completed) PROVE j = k
    BY <2>1 DEF Becomes, TypeOK
  <2>2. CASE CommitUpload(r)
    BY <2>1, <2>2 DEF CommitUpload, At, DoneStep
  <2>3. CASE HashedDuplicate(r)
    BY <1>1, <2>1, <2>3 DEF HashedDuplicate, DoneStep
  <2>4. QED BY <1>0, <1>1, <1>3, <2>2, <2>3 DEF Resume, CreateInsert, InsertRefused, ChunkWritten, ChunkFailed,
       ConfirmMissing, ConfirmProceed, ConfirmUnavailable, HashFailed, HashedVersion, HashedNew,
       RegisterAsset, RenameFile, FinalizeThrows
<1>4. CASE Sweep \/ \E k \in Jobs : TrackerFail(k)
  <2>1. ASSUME NEW k, SweepQueuedJob(k) PROVE FALSE
    BY <2>1 DEF SweepQueuedJob, TypeOK
  <2>2. QED BY <1>1, <1>4, <2>1 DEF Sweep, SweepUploadSession, TrackerFail
<1>5. CASE Recover
  <2>1. ASSUME NEW row, NEW st, RowDone(row, st) PROVE st = "done" /\ j = row.job
    BY <2>1 DEF RowDone, TypeOK
  <2>2. ASSUME NEW row, CleanUp(row) \/ CleanUpStable(row) PROVE FALSE
    BY <1>0, <2>1, <2>2 DEF CleanUp, CleanUpStable
  <2>3. ASSUME NEW row, LookUpSession(row) PROVE FALSE
    BY <1>0, <2>2, <2>3 DEF LookUpSession
  <2>4. QED BY <1>0, <1>5, <2>1, <2>2, <2>3
          DEF Recover, RecoverRow, RecoverStable, RecoverTemp, RecoverUnlinkTemp, RecoverUnlinkStable, CleanUpStable, DoneStep
<1>6. CASE CrashMidway
  <2>1. ASSUME NEW k, jobStatus' = [jobStatus EXCEPT ![k] = Completed(@)] PROVE j = k
    BY <2>1 DEF TypeOK
  <2>2. ASSUME NEW r \in Reqs, NEW n \in 1 .. 4, CrashInCommit(r, n) PROVE DoneStep(j)
    BY <1>0, <2>1, <2>2 DEF CrashInCommit, At, DoneStep
  <2>3. QED BY <1>0, <1>6, <2>2 DEF CrashMidway, CrashInCreate, CrashInVersion, CrashInSweep
<1>7. ASSUME NEW P \in SUBSET Jobs, Restart(P) PROVE FALSE
  BY <1>7 DEF Restart
<1>8. QED BY <1>2, <1>3, <1>4, <1>5, <1>6, <1>7 DEF Next

LEMMA DoneKept ==
  ASSUME LibraryInv, Next
  PROVE  DoneIsInLibrary'
<1> SUFFICES ASSUME NEW j \in Jobs, jobStatus'[j] = "done"
             PROVE  \E i \in DOMAIN lib' : lib'[i].hash.bytes = ContentOf[j]
  BY DEF DoneIsInLibrary
<1>0. UploadInv /\ TypeOK /\ FirstRows
  BY DEF LibraryInv, UploadInv
<1>1. InLibrary(j)
  <2>1. CASE jobStatus[j] = "done"
    BY <2>1 DEF LibraryInv, DoneIsInLibrary, InLibrary
  <2>2. ASSUME NEW r \in Reqs, req[r].pc = "commit", j = session[req[r].u].job PROVE InLibrary(j)
    BY <2>2 DEF LibraryInv, Registered
  <2>3. ASSUME NEW r \in Reqs, HashedDuplicate(r), req[r].via = "confirm",
               j = session[req[r].u].job
        PROVE  InLibrary(j)
    <3>1. IsExactHashMatch(req[r].target, HashOf(req[r].u))
      BY <2>3 DEF HashedDuplicate, Outcome
    <3>2. CurrentRow(req[r].target) \in DOMAIN lib
      BY <1>0, <3>1, CurrentHolds DEF IsExactHashMatch
    <3>3. lib[CurrentRow(req[r].target)].hash.bytes = ContentOf[j]
      BY <2>3, <3>1 DEF IsExactHashMatch, HashOf
    <3>4. QED BY <3>2, <3>3 DEF InLibrary
  <2>4. ASSUME recovery.pc = "stable", recovery.row.job = j PROVE InLibrary(j)
    BY <2>4 DEF LibraryInv, RowsKnown
  <2>5. QED BY <1>0, <2>1, <2>2, <2>3, <2>4, DoneSteps DEF DoneStep
<1>2. QED BY <1>0, <1>1, StaysInLibrary

\* Where the upload id in a handler's hands comes from.
HandlerTakes(r) ==
  \/ req'[r].u = req[r].u /\ (req'[r].pc = "create" => req'[r] = req[r])
  \/ req'[r] = Idle
  \/ req'[r].pc # "create" /\ session[req'[r].u].status # "none"
  \/ \E j \in Jobs, a \in AssetIds \cup {0}, u \in Uploads :
       /\ CreateBegin(r, j, a)
       /\ CreateTakes(r, j, a, u)

LEMMA HandlerTakesUpload ==
  ASSUME UploadInv, Next, NEW r \in Reqs
  PROVE  HandlerTakes(r)
<1>0. TypeOK /\ req \in [Reqs -> RequestType] /\ req[r] \in RequestType
  BY DEF UploadInv, TypeOK
<1>1. CASE UNCHANGED req
  BY <1>1 DEF HandlerTakes
<1>2. CASE ClientStep
  <2>1. ASSUME NEW x \in Reqs, NEW u, NEW e, req' = [req EXCEPT ![x] = e],
               e.pc # "create", e.u = u, session[u].status # "none"
        PROVE  HandlerTakes(r)
    <3>1. req'[r] = IF x = r THEN e ELSE req[r]
      BY <1>0, <2>1
    <3>2. QED BY <2>1, <3>1 DEF HandlerTakes
  <2>2. ASSUME NEW x \in Reqs, NEW j \in Jobs, NEW a \in AssetIds \cup {0}, CreateBegin(x, j, a)
        PROVE  HandlerTakes(r)
    <3>1. PICK u \in Uploads : CreateTakes(x, j, a, u)
      BY <2>2, CreateTakesFresh
    <3>2. CASE x = r
      BY <2>2, <3>1, <3>2 DEF HandlerTakes
    <3>3. CASE x # r
      BY <1>0, <3>1, <3>3 DEF CreateTakes, HandlerTakes
    <3>4. QED BY <3>2, <3>3
  <2>3. ASSUME NEW x \in Reqs, NEW u \in Uploads, NEW off, ChunkBegin(x, u, off)
        PROVE  HandlerTakes(r)
    <3> DEFINE e == [Idle EXCEPT !.pc = "write", !.u = u, !.off = off]
    <3>0. e.pc # "create" /\ e.u = u
      BY DEF Idle
    <3>1. req' = [req EXCEPT ![x] = e]
      BY <2>3 DEF ChunkBegin
    <3>2. session[u].status # "none"
      BY <2>3 DEF ChunkBegin
    <3> HIDE DEF e
    <3>3. QED BY <2>1, <3>0, <3>1, <3>2
  <2>4. ASSUME NEW x \in Reqs, NEW u \in Uploads, FinalizeBegin(x, u) PROVE HandlerTakes(r)
    <3> DEFINE e == [Idle EXCEPT !.pc = IF u \in temp THEN "hash" ELSE "unreadable",
                           !.via = "finalize", !.u = u, !.target = session[u].replace]
    <3>0. e.pc # "create" /\ e.u = u
      BY DEF Idle
    <3>1. req' = [req EXCEPT ![x] = e]
      BY <2>4 DEF FinalizeBegin
    <3>2. session[u].status # "none"
      BY <2>4 DEF FinalizeBegin
    <3> HIDE DEF e
    <3>3. QED BY <2>1, <3>0, <3>1, <3>2
  <2>5. ASSUME NEW x \in Reqs, NEW u \in Uploads, NEW a \in AssetIds \cup {0}, ConfirmBegin(x, u, a)
        PROVE  HandlerTakes(r)
    <3> DEFINE e == [Idle EXCEPT !.pc = "access", !.via = "confirm", !.u = u, !.target = a]
    <3>0. e.pc # "create" /\ e.u = u
      BY DEF Idle
    <3>1. req' = [req EXCEPT ![x] = e]
      BY <2>5 DEF ConfirmBegin
    <3>2. session[u].status # "none"
      BY <2>5 DEF ConfirmBegin
    <3> HIDE DEF e
    <3>3. QED BY <2>1, <3>0, <3>1, <3>2
  <2>6. QED BY <1>1, <1>2, <2>2, <2>3, <2>4, <2>5 DEF ClientStep, Reserve,
       ChunkCancelled, FinalizeUnavailable, FinalizeCancelled, AbortUpload, CancelJob
<1>3. ASSUME NEW x \in Reqs, Resume(x) PROVE HandlerTakes(r)
  <2>1. CASE x # r
    <3>1. \E e : req' = [req EXCEPT ![x] = e]
      BY <1>3 DEF Resume, CreateInsert, InsertRefused, ChunkWritten, ChunkFailed, ConfirmMissing,
         ConfirmProceed, ConfirmUnavailable, HashFailed, HashedDuplicate, HashedVersion,
         HashedNew, RegisterAsset, RenameFile, FinalizeThrows, CommitUpload
    <3>2. QED BY <1>0, <2>1, <3>1 DEF HandlerTakes
  <2>2. CASE x = r /\ (ConfirmProceed(r) \/ HashedNew(r) \/ RenameFile(r))
    <3>1. \E p \in {"hash", "stat", "commit"} : req'[r] = [req[r] EXCEPT !.pc = p]
      BY <1>0, <2>2 DEF ConfirmProceed, HashedNew, RenameFile
    <3>2. QED BY <1>0, <3>1 DEF HandlerTakes, RequestType
  <2>3. CASE RegisterAsset(r)
    <3>0. PICK t : req'[r] = [req[r] EXCEPT !.pc = "rename", !.target = t]
      BY <1>0, <2>3, Registers
    <3>1. req'[r].pc = "rename" /\ req'[r].u = req[r].u
      BY <1>0, <3>0 DEF RequestType
    <3>2. QED BY <3>1 DEF HandlerTakes
  <2>4. CASE x = r /\ req' = [req EXCEPT ![r] = Idle]
    BY <1>0, <2>4 DEF HandlerTakes
  <2>5. QED BY <1>3, <2>1, <2>2, <2>3, <2>4 DEF Resume, CreateInsert, InsertRefused, ChunkWritten,
       ChunkFailed, ConfirmMissing, ConfirmUnavailable, HashFailed, HashedDuplicate,
       HashedVersion, FinalizeThrows, CommitUpload
<1>4. CASE Sweep \/ Recover \/ CrashMidway \/ \E j \in Jobs : TrackerFail(j)
  BY <1>1, <1>4 DEF Sweep, SweepUploadSession, SweepQueuedJob, TrackerFail, Recover, RecoverRow,
     RecoverStable, RecoverTemp, RecoverUnlinkTemp, RecoverUnlinkStable, CleanUpStable, CrashMidway, CrashInCreate, CrashInVersion,
     CrashInSweep, CrashInCommit, Crash
<1>5. ASSUME NEW P, Restart(P) PROVE HandlerTakes(r)
  BY <1>0, <1>5 DEF Restart, HandlerTakes
<1>6. QED BY <1>2, <1>3, <1>4, <1>5 DEF Next

\* Nothing but its own insert gives a session to an upload that has none.
LEMMA NoneStays ==
  ASSUME UploadInv, Next, \A P \in SUBSET Jobs : ~Restart(P),
         NEW u \in Uploads, session[u].status = "none", session'[u].status # "none"
  PROVE  \E r \in Reqs : /\ req[r].pc = "create" /\ req[r].u = u
                         /\ running' => req'[r] = Idle
<1> USE DEF At, Crash
<1>1. CASE session' = session
  BY <1>1
<1>2. session \in [Uploads -> SessionType] /\ req \in [Reqs -> RequestType]
  BY DEF UploadInv, TypeOK
<1>3. ASSUME NEW x, session[x].status # "none" \/ x \notin Uploads,
             \/ \E st : session' = [session EXCEPT ![x].status = st]
             \/ \E n : session' = [session EXCEPT ![x].received = n]
      PROVE  FALSE
  BY <1>2, <1>3
<1>4. CASE ClientStep
  BY <1>1, <1>3, <1>4 DEF ClientStep, Reserve, CreateBegin, ChunkBegin, FinalizeBegin,
       ConfirmBegin, ChunkCancelled, FinalizeUnavailable, FinalizeCancelled, AbortUpload,
       CancelJob, SessionBecomes
<1>5. ASSUME NEW r \in Reqs, Resume(r)
      PROVE  /\ req[r].pc = "create" /\ req[r].u = u
             /\ running' => req'[r] = Idle
  <2>1. CASE CreateInsert(r)
    BY <1>2, <2>1 DEF CreateInsert
  <2>2. CASE ~CreateInsert(r)
    <3>1. req[r].pc \notin {"idle", "create"} => session[req[r].u].status # "none"
      BY HandlerHolds
    <3>2. QED
      BY <1>1, <1>3, <1>5, <2>2, <3>1 DEF Resume, InsertRefused, ChunkWritten, ChunkFailed,
         ConfirmMissing, ConfirmProceed, ConfirmUnavailable, HashFailed, HashedDuplicate,
         HashedVersion, HashedNew, RegisterAsset, RenameFile, FinalizeThrows, CommitUpload,
         SessionBecomes
  <2>3. QED BY <2>1, <2>2
<1>6. CASE Sweep \/ \E j \in Jobs : TrackerFail(j)
  BY <1>1, <1>3, <1>6 DEF Sweep, SweepUploadSession, SweepQueuedJob, TrackerFail, SessionBecomes
<1>7. CASE Recover
  <2>1. recovery.pc = "temp" => session[recovery.u].status # "none"
    BY DEF UploadInv, Recovering
  <2>2. QED BY <1>1, <1>3, <1>7, <2>1 DEF Recover, RecoverRow, RecoverStable, RecoverTemp,
          RecoverUnlinkTemp, RecoverUnlinkStable, CleanUpStable, SessionBecomes
<1>8. CASE CrashMidway
  <2>1. ASSUME NEW r \in Reqs, CrashInCreate(r) PROVE req[r].pc = "create" /\ req[r].u = u
    BY <1>2, <2>1 DEF CrashInCreate
  <2>2. ASSUME NEW r \in Reqs, CrashInVersion(r) PROVE FALSE
    <3>1. session[req[r].u].status # "none"
      BY <2>2, HandlerHolds DEF CrashInVersion
    <3>2. QED BY <1>3, <2>2, <3>1 DEF CrashInVersion, SessionBecomes
  <2>3. ASSUME NEW x \in Uploads, CrashInSweep(x) PROVE FALSE
    BY <1>3, <2>3 DEF CrashInSweep, SessionBecomes
  <2>4. ASSUME NEW r \in Reqs, NEW n \in 1 .. 4, CrashInCommit(r, n) PROVE FALSE
    BY <1>1, <2>4 DEF CrashInCommit
  <2>5. running' = FALSE
    BY <1>8 DEF CrashMidway, CrashInCreate, CrashInVersion, CrashInSweep, CrashInCommit
  <2>6. QED BY <1>8, <2>1, <2>2, <2>3, <2>4, <2>5 DEF CrashMidway
<1>9. QED BY <1>4, <1>5, <1>6, <1>7, <1>8 DEF Next

\* A server that runs was running before, or was just started.
LEMMA RunsOn ==
  ASSUME Next, running', \A P \in SUBSET Jobs : ~Restart(P)
  PROVE  running
BY DEF Next, ClientStep, Reserve, CreateBegin, ChunkBegin, FinalizeBegin, ConfirmBegin,
   ChunkCancelled, FinalizeUnavailable, FinalizeCancelled, AbortUpload, CancelJob, Free, Resume,
   CreateInsert, InsertRefused, ChunkWritten, ChunkFailed, ConfirmMissing, ConfirmProceed, ConfirmUnavailable,
   HashFailed, HashedDuplicate, HashedVersion, HashedNew, RegisterAsset, RenameFile,
   FinalizeThrows, CommitUpload, At, Sweep, SweepUploadSession, SweepQueuedJob, TrackerFail,
   Recover, RecoverRow, RecoverStable, RecoverTemp, RecoverUnlinkTemp, RecoverUnlinkStable, CleanUpStable, CrashMidway, CrashInCreate,
   CrashInVersion, CrashInSweep, CrashInCommit, Crash

LEMMA FreshKept ==
  ASSUME LibraryInv, Next
  PROVE  FreshCreates'
<1> SUFFICES ASSUME running', NEW r \in Reqs, req'[r].pc = "create"
             PROVE  /\ session'[req'[r].u].status = "none"
                    /\ \A s \in Reqs : req'[s].u = req'[r].u => s = r
  BY DEF FreshCreates
<1> DEFINE u == req'[r].u
<1>0. /\ UploadInv /\ FreshCreates /\ Idle.pc = "idle" /\ Idle.u = NoUpload
      /\ NoUpload \notin Uploads /\ NoSession.status = "none"
      /\ req \in [Reqs -> RequestType]
  BY UploadAssumption DEF LibraryInv, UploadInv, TypeOK, Idle, NoSession
<1>1. \A P \in SUBSET Jobs : ~Restart(P)
  BY <1>0 DEF Restart
<1>2. running
  BY <1>1, RunsOn
<1>3. u \in Uploads
  BY <1>0, HandlersKept DEF Handlers
<1>4. session[u].status = "none"
  <2>1. CASE req'[r] = req[r]
    BY <1>0, <1>2, <2>1 DEF FreshCreates
  <2>2. ASSUME NEW j, NEW a, NEW x \in Uploads, CreateTakes(r, j, a, x) PROVE session[u].status = "none"
    <3>1. u = x
      BY <1>0, <2>2 DEF CreateTakes, Idle
    <3>2. QED BY <1>0, <2>2, <3>1 DEF CreateTakes
  <2>3. QED BY <1>0, <2>1, <2>2, HandlerTakesUpload DEF HandlerTakes
<1>5. session'[u].status = "none"
  <2> SUFFICES ASSUME session'[u].status # "none" PROVE FALSE
    OBVIOUS
  <2>1. PICK x \in Reqs : req[x].pc = "create" /\ req[x].u = u /\ req'[x] = Idle
    BY <1>0, <1>1, <1>3, <1>4, NoneStays
  <2>2. x # r
    BY <1>0, <2>1
  <2>3. req[r].u # u
    BY <1>0, <1>2, <2>1, <2>2 DEF FreshCreates
  <2>4. PICK j \in Jobs, a \in AssetIds \cup {0}, y \in Uploads : CreateTakes(r, j, a, y)
    BY <1>0, <2>3, HandlerTakesUpload DEF HandlerTakes
  <2>5. y = u
    BY <1>0, <2>4 DEF CreateTakes, Idle
  <2>6. QED BY <2>1, <2>4, <2>5 DEF CreateTakes
<1>6. ASSUME NEW s \in Reqs, req'[s].u = u PROVE s = r
  <2>1. ASSUME NEW x \in Reqs, NEW j, NEW a, NEW v \in Uploads, CreateTakes(x, j, a, v), NEW y \in Reqs, y # x
        PROVE  req'[y].u # req'[x].u
    <3>1. req'[x].u = v /\ req'[y] = req[y]
      BY <1>0, <2>1 DEF CreateTakes, Idle
    <3>2. QED BY <2>1, <3>1 DEF CreateTakes
  <2>2. CASE \E j \in Jobs, a \in AssetIds \cup {0}, v \in Uploads :
                CreateTakes(r, j, a, v) \/ CreateTakes(s, j, a, v)
    BY <1>6, <2>1, <2>2
  <2>3. CASE req'[r] = req[r] /\ req[s].u = u
    BY <1>0, <1>2, <2>3 DEF FreshCreates
  <2>4. HandlerTakes(r) /\ HandlerTakes(s)
    BY <1>0, HandlerTakesUpload
  <2>5. req'[s] # Idle /\ req'[r] # Idle
    BY <1>0, <1>3, <1>6
  <2>6. QED BY <1>4, <1>6, <2>2, <2>3, <2>4, <2>5 DEF HandlerTakes
<1>7. QED BY <1>5, <1>6

LEMMA LibraryInvStep == LibraryInv /\ [Next]_vars => LibraryInv'
<1> SUFFICES ASSUME LibraryInv, [Next]_vars PROVE LibraryInv'
  OBVIOUS
<1>1. CASE Next
  <2>1. UploadInv'
    BY <1>1, InvStep DEF LibraryInv
  <2>2. QED BY <1>1, <2>1, FreshKept, FirstRowsKept, TargetsKept, RegisteredKept, AssetsKept,
               RowsKept, DoneKept DEF LibraryInv
<1>2. CASE UNCHANGED vars
  <2>1. UploadInv'
    BY <1>2, InvStep DEF LibraryInv
  <2>2. FreshCreates' /\ FirstRows' /\ KnownTargets'
    BY <1>2 DEF vars, jobVars, fileVars, libVars, bootVars, LibraryInv, FreshCreates, FirstRows,
       KnownTargets, AssetIds
  <2>3. Registered' /\ AssetKnown' /\ RowsKnown' /\ DoneIsInLibrary'
    BY <1>2 DEF vars, jobVars, fileVars, libVars, bootVars, LibraryInv, Registered, AssetKnown,
       RowsKnown, DoneIsInLibrary, InLibrary
  <2>4. QED BY <2>1, <2>2, <2>3 DEF LibraryInv
<1>3. QED BY <1>1, <1>2

LEMMA LibraryInvInit == Init => LibraryInv
<1> SUFFICES ASSUME Init PROVE LibraryInv
  OBVIOUS
<1>1. UploadInv
  BY InvInit
<1>2. Idle.pc = "idle" /\ Idle.target = 0 /\ NoSession.replace = 0
  BY DEF Idle, NoSession
<1>3. /\ recovery.todo = {} /\ recovery.row.asset = 0 /\ recovery.pc = "idle"
  BY DEF Init, NotRecovering, NoRow
<1>4. FreshCreates /\ FirstRows /\ KnownTargets
  BY <1>2 DEF Init, FreshCreates, FirstRows, KnownTargets, AssetIds
<1>5. Registered /\ AssetKnown /\ RowsKnown /\ DoneIsInLibrary
  BY <1>2, <1>3 DEF Init, Registered, AssetKnown, RowsKnown, DoneIsInLibrary
<1>6. QED BY <1>1, <1>4, <1>5 DEF LibraryInv

LEMMA LibraryInvariant == Spec => []LibraryInv
<1>1. QED BY LibraryInvInit, LibraryInvStep, PTL DEF Spec

(* A job that reads done has its client's bytes in the library, whichever way *)
(* it came to be done: a commit, a confirmed duplicate or boot recovery, also *)
(* after crashes between the statements of a commit.                          *)
THEOREM DoneJobsInLibrary == Spec => []DoneIsInLibrary
<1>1. LibraryInv => DoneIsInLibrary
  BY DEF LibraryInv
<1>2. QED BY <1>1, LibraryInvariant, PTL

-----------------------------------------------------------------------------
(***************************************************************************)
(* The inductive invariant behind StableFileExists.  A handler that has    *)
(* renamed its file carries that fact to its commit, beside a recovery     *)
(* that deletes stable files: the rows it works from were read before the  *)
(* requests beside it, so what they call an orphan must have been one      *)
(* since the crash that tore its commit.                                   *)
(***************************************************************************)
HasFile(a) == \E s \in stable : s.asset = a

\* What a rename has put in place, unless recovery takes it for an orphan.
Moved ==
  \A r \in Reqs : req[r].pc = "commit" =>
    req[r].u \notin temp /\ (req[r].target \in torn \/ HasFile(req[r].target))

\* A stable path without an asset id, in a job or in a row of recovery, is of a torn commit.
TornKnown ==
  /\ \A j \in Jobs : jobStable[j] # 0 /\ jobAsset[j] = 0 => jobStable[j] \in torn
  /\ \A row \in recovery.todo \cup {recovery.row} :
       row.stable # 0 /\ row.asset = 0 => row.stable \in torn
  /\ recovery.pc = "unlinkStable" => recovery.row.stable \in torn

FilesInv ==
  /\ LibraryInv
  /\ TornKnown
  /\ Moved
  /\ StableFileExists

UpStep ==
  \/ ClientStep
  \/ \E r \in Reqs : Resume(r)
  \/ Sweep
  \/ \E j \in Jobs : TrackerFail(j)

LEMMA GhostsGrow ==
  ASSUME Next
  PROVE  torn \subseteq torn' /\ refused \subseteq refused'
<1> USE DEF libVars, fileVars
<1>1. CASE ClientStep
  BY <1>1 DEF ClientStep, Reserve, CreateBegin, ChunkBegin, FinalizeBegin, ConfirmBegin,
       ChunkCancelled, FinalizeUnavailable, FinalizeCancelled, AbortUpload, CancelJob
<1>2. ASSUME NEW r \in Reqs, Resume(r) PROVE torn \subseteq torn' /\ refused \subseteq refused'
  BY <1>2 DEF Resume, CreateInsert, InsertRefused, ChunkWritten, ChunkFailed, ConfirmMissing,
       ConfirmProceed, ConfirmUnavailable, HashFailed, HashedDuplicate, HashedVersion,
       HashedNew, RegisterAsset, RenameFile, FinalizeThrows, CommitUpload
<1>3. CASE Sweep \/ Recover \/ \E j \in Jobs : TrackerFail(j)
  BY <1>3 DEF Sweep, SweepUploadSession, SweepQueuedJob, TrackerFail,
       Recover, RecoverRow, RecoverStable, RecoverTemp, RecoverUnlinkTemp, RecoverUnlinkStable
<1>4. CASE CrashMidway
  BY <1>4 DEF CrashMidway, CrashInCreate, CrashInVersion, CrashInSweep, CrashInCommit
<1>5. ASSUME NEW P, Restart(P) PROVE torn \subseteq torn' /\ refused \subseteq refused'
  BY <1>5 DEF Restart
<1>6. QED BY <1>1, <1>2, <1>3, <1>4, <1>5 DEF Next

\* What one step can do to the stable files.
LEMMA StableSteps ==
  ASSUME Next
  PROVE  \/ stable' = stable
         \/ \E r \in Reqs : RenameFile(r)
         \/ RecoverUnlinkStable
<1> USE DEF libVars
<1>1. CASE ClientStep
  BY <1>1 DEF ClientStep, Reserve, CreateBegin, ChunkBegin, FinalizeBegin, ConfirmBegin,
       ChunkCancelled, FinalizeUnavailable, FinalizeCancelled, AbortUpload, CancelJob
<1>2. ASSUME NEW r \in Reqs, Resume(r), ~RenameFile(r) PROVE stable' = stable
  BY <1>2 DEF Resume, CreateInsert, InsertRefused, ChunkWritten, ChunkFailed, ConfirmMissing,
       ConfirmProceed, ConfirmUnavailable, HashFailed, HashedDuplicate, HashedVersion,
       HashedNew, RegisterAsset, FinalizeThrows, CommitUpload
<1>3. CASE Sweep \/ \E j \in Jobs : TrackerFail(j)
  BY <1>3 DEF Sweep, SweepUploadSession, SweepQueuedJob, TrackerFail
<1>4. CASE Recover
  BY <1>4 DEF Recover, RecoverRow, RecoverStable, RecoverTemp, RecoverUnlinkTemp
<1>5. CASE CrashMidway
  BY <1>5 DEF CrashMidway, CrashInCreate, CrashInVersion, CrashInSweep, CrashInCommit
<1>6. ASSUME NEW P, Restart(P) PROVE stable' = stable
  BY <1>6 DEF Restart
<1>7. QED BY <1>1, <1>2, <1>3, <1>4, <1>5, <1>6 DEF Next

\* Recovery deletes only files of torn commits.
LEMMA OnlyTornUnlinked ==
  ASSUME TornKnown, RecoverUnlinkStable
  PROVE  \A s \in stable : s \in stable' \/ s.asset \in torn
BY DEF RecoverUnlinkStable, TornKnown

LEMMA FilesStay ==
  ASSUME TornKnown, Next, NEW a, HasFile(a)
  PROVE  a \in torn' \/ \E s \in stable' : s.asset = a
<1>1. CASE stable' = stable
  BY <1>1 DEF HasFile
<1>2. ASSUME NEW r \in Reqs, RenameFile(r) PROVE \E s \in stable' : s.asset = a
  <2>1. stable' = {s \in stable : s.asset # req[r].target}
                    \cup {[asset |-> req[r].target, src |-> req[r].u]}
    BY <1>2 DEF RenameFile
  <2>2. CASE a = req[r].target
    <3>1. [asset |-> req[r].target, src |-> req[r].u] \in stable'
      BY <2>1
    <3>2. QED BY <2>2, <3>1
  <2>3. CASE a # req[r].target
    BY <2>1, <2>3 DEF HasFile
  <2>4. QED BY <2>2, <2>3
<1>3. CASE RecoverUnlinkStable
  BY <1>3, OnlyTornUnlinked, GhostsGrow DEF HasFile
<1>4. QED BY <1>1, <1>2, <1>3, StableSteps

\* A job learns a stable path from a commit, which may be cut short.
CommitFacts(r) ==
  LET j == session[req[r].u].job
  IN  /\ req[r].pc = "commit"
      /\ jobStable' = [jobStable EXCEPT ![j] = req[r].target]
      /\ \/ jobAsset' = [jobAsset EXCEPT ![j] = req[r].target]
         \/ jobAsset' = jobAsset /\ req[r].target \in torn'

LEMMA JobPathSteps ==
  ASSUME Next
  PROVE  \/ UNCHANGED <<jobStable, jobAsset>>
         \/ \E r \in Reqs : CommitFacts(r)
<1> USE DEF jobVars
<1>1. CASE ClientStep
  BY <1>1 DEF ClientStep, Reserve, CreateBegin, ChunkBegin, FinalizeBegin, ConfirmBegin,
       ChunkCancelled, FinalizeUnavailable, FinalizeCancelled, AbortUpload, CancelJob
<1>2. ASSUME NEW r \in Reqs, Resume(r), ~CommitUpload(r) PROVE UNCHANGED <<jobStable, jobAsset>>
  BY <1>2 DEF Resume, CreateInsert, InsertRefused, ChunkWritten, ChunkFailed, ConfirmMissing,
       ConfirmProceed, ConfirmUnavailable, HashFailed, HashedDuplicate, HashedVersion,
       HashedNew, RegisterAsset, RenameFile, FinalizeThrows
<1>3. ASSUME NEW r \in Reqs, CommitUpload(r) PROVE CommitFacts(r)
  BY <1>3 DEF CommitUpload, CommitFacts, At
<1>4. CASE Sweep \/ Recover \/ \E j \in Jobs : TrackerFail(j)
  BY <1>4 DEF Sweep, SweepUploadSession, SweepQueuedJob, TrackerFail,
       Recover, RecoverRow, RecoverStable, RecoverTemp, RecoverUnlinkTemp, RecoverUnlinkStable
<1>5. ASSUME NEW r \in Reqs, NEW n \in 1 .. 4, CrashInCommit(r, n) PROVE CommitFacts(r)
  BY <1>5 DEF CrashInCommit, CommitFacts, At
<1>6. ASSUME CrashMidway, \A r \in Reqs, n \in 1 .. 4 : ~CrashInCommit(r, n)
      PROVE  UNCHANGED <<jobStable, jobAsset>>
  BY <1>6 DEF CrashMidway, CrashInCreate, CrashInVersion, CrashInSweep
<1>7. ASSUME NEW P, Restart(P) PROVE UNCHANGED <<jobStable, jobAsset>>
  BY <1>7 DEF Restart
<1>8. QED BY <1>1, <1>2, <1>3, <1>4, <1>5, <1>6, <1>7 DEF Next, CrashMidway

\* Recovery comes to a stable file only by a row that has its path and no asset id.
LEMMA UnlinksOrphans ==
  ASSUME TypeOK, Recover, recovery'.pc = "unlinkStable"
  PROVE  /\ recovery'.row \in {recovery.row} \cup recovery.todo
         /\ recovery'.row.stable # 0 /\ recovery'.row.asset = 0
<1>0. recovery \in RecoveryType
  BY DEF TypeOK
<1> DEFINE From(row) == recovery'.row = row /\ row.stable # 0 /\ row.asset = 0
<1>1. ASSUME NEW row, NEW st, RowDone(row, st) PROVE FALSE
  BY <1>0, <1>1 DEF RowDone, RecoveryType
<1>2. ASSUME NEW row, CleanUpStable(row) PROVE From(row)
  BY <1>0, <1>1, <1>2 DEF CleanUpStable, RecoveryType
<1>3. ASSUME NEW row, CleanUp(row) PROVE From(row)
  BY <1>0, <1>2, <1>3 DEF CleanUp, RecoveryType
<1>4. ASSUME NEW row, LookUpSession(row) PROVE From(row)
  <2>1. ASSUME NEW u, recovery' = [recovery EXCEPT !.pc = "temp", !.row = row, !.u = u]
        PROVE  FALSE
    BY <1>0, <2>1 DEF RecoveryType
  <2>2. QED BY <1>3, <1>4, <2>1 DEF LookUpSession
<1>5. ASSUME NEW row \in recovery.todo, RecoverRow(row) PROVE From(row)
  <2>1. CASE recovery' = [recovery EXCEPT !.pc = "stable", !.row = row]
    BY <1>0, <2>1 DEF RecoveryType
  <2>2. QED BY <1>4, <1>5, <2>1 DEF RecoverRow
<1>6. CASE RecoverStable \/ RecoverTemp \/ RecoverUnlinkTemp \/ RecoverUnlinkStable
  <2>1. From(recovery.row)
    BY <1>1, <1>2, <1>3, <1>4, <1>6
       DEF RecoverStable, RecoverTemp, RecoverUnlinkTemp, RecoverUnlinkStable
  <2>2. QED BY <2>1
<1>7. QED BY <1>5, <1>6 DEF Recover

LEMMA TornKept ==
  ASSUME FilesInv, Next
  PROVE  TornKnown'
<1>0. /\ TypeOK /\ TornKnown /\ KnownTargets /\ torn \subseteq torn' /\ NoRow.stable = 0
      /\ 0 \notin AssetIds
  BY GhostsGrow, NoAssetZero DEF FilesInv, LibraryInv, UploadInv, NoRow
<1>1. ASSUME NEW j \in Jobs, jobStable'[j] # 0, jobAsset'[j] = 0 PROVE jobStable'[j] \in torn'
  <2>1. CASE UNCHANGED <<jobStable, jobAsset>>
    BY <1>0, <1>1, <2>1 DEF TornKnown
  <2>2. ASSUME NEW r \in Reqs, CommitFacts(r) PROVE jobStable'[j] \in torn'
    <3>1. req[r].target # 0
      BY <1>0, <2>2 DEF CommitFacts, KnownTargets
    <3>2. CASE j = session[req[r].u].job
      BY <1>0, <1>1, <2>2, <3>1, <3>2 DEF CommitFacts, TypeOK
    <3>3. CASE j # session[req[r].u].job
      BY <1>0, <1>1, <2>2, <3>3 DEF CommitFacts, TypeOK, TornKnown
    <3>4. QED BY <3>2, <3>3
  <2>3. QED BY <2>1, <2>2, JobPathSteps
<1> DEFINE Torn(row) == row.stable # 0 /\ row.asset = 0 => row.stable \in torn'
<1>2. \A row \in recovery.todo \cup {recovery.row, NoRow} : Torn(row)
  BY <1>0 DEF TornKnown
<1>3. ASSUME NEW P \in SUBSET Jobs, Restart(P)
      PROVE  /\ \A row \in recovery'.todo \cup {recovery'.row} : Torn(row)
             /\ recovery'.pc # "unlinkStable"
  <2>1. recovery'.row = NoRow /\ recovery'.pc = "idle"
    BY <1>3 DEF Restart, NotRecovering
  <2>2. ASSUME NEW row \in recovery'.todo PROVE Torn(row)
    <3>1. PICK j \in Jobs : row = [job |-> j, asset |-> jobAsset[j], stable |-> jobStable[j],
                                   temp |-> jobTemp[j]]
      BY <1>3, <2>2 DEF Restart, NotRecovering
    <3>2. QED BY <1>0, <3>1 DEF TornKnown
  <2>3. QED BY <1>2, <2>1, <2>2
<1>4. CASE Recover
  <2>1. \A row \in recovery'.todo \cup {recovery'.row} : Torn(row)
    BY <1>0, <1>2, <1>4, RecoverRows DEF RowSteps
  <2>2. recovery'.pc = "unlinkStable" => recovery'.row.stable \in torn'
    BY <1>0, <1>4, <2>1, UnlinksOrphans
  <2>3. QED BY <1>1, <2>1, <2>2 DEF TornKnown
<1>5. CASE recovery' = recovery
  BY <1>0, <1>1, <1>2, <1>5 DEF TornKnown
<1>6. QED BY <1>0, <1>1, <1>3, <1>4, <1>5, RecoveryAlone DEF TornKnown

LEMMA MovedKept ==
  ASSUME FilesInv, Next
  PROVE  Moved'
<1> SUFFICES ASSUME NEW r \in Reqs, req'[r].pc = "commit"
             PROVE  /\ req'[r].u \notin temp'
                    /\ req'[r].target \in torn' \/ \E s \in stable' : s.asset = req'[r].target
  BY DEF Moved, HasFile
<1>0. /\ UploadInv /\ TypeOK /\ TornKnown /\ req[r] \in RequestType
      /\ torn \subseteq torn'
  BY GhostsGrow DEF FilesInv, LibraryInv, UploadInv, TypeOK
<1>1. CASE req'[r] = req[r]
  <2>1. req[r].u \in Uploads /\ session'[req[r].u].status # "none"
    BY <1>0, <1>1, HandlersKept DEF Handlers
  <2>2. req[r].u \notin temp'
    BY <1>0, <1>1, <2>1, FileSteps DEF FileStep, FilesInv, Moved
  <2>3. req[r].target \in torn' \/ \E s \in stable' : s.asset = req[r].target
    BY <1>0, <1>1, FilesStay DEF FilesInv, Moved
  <2>4. QED BY <1>1, <2>2, <2>3
<1>2. CASE RegisterAsset(r)
  <2>0. PICK t : req'[r] = [req[r] EXCEPT !.pc = "rename", !.target = t]
    BY <1>0, <1>2, Registers
  <2>1. QED BY <1>0, <2>0 DEF RequestType
<1>3. CASE RenameFile(r) /\ req'[r] = [req[r] EXCEPT !.pc = "commit"]
  <2>1. req'[r].u = req[r].u /\ req'[r].target = req[r].target
    BY <1>0, <1>3 DEF RequestType
  <2>2. /\ temp' = temp \ {req[r].u}
        /\ [asset |-> req[r].target, src |-> req[r].u] \in stable'
    BY <1>3 DEF RenameFile
  <2>3. QED BY <2>1, <2>2
<1>4. QED BY <1>0, <1>1, <1>2, <1>3, LateHandlers

LEMMA StableKept ==
  ASSUME FilesInv, Next
  PROVE  StableFileExists'
<1> SUFFICES ASSUME NEW i \in DOMAIN lib', lib'[i].at = "stable"
             PROVE  \/ lib'[i].asset \in torn'
                    \/ \E s \in stable' : s.asset = lib'[i].asset
  BY DEF StableFileExists
<1>0. TypeOK /\ TornKnown /\ KnownTargets /\ torn \subseteq torn'
  BY GhostsGrow DEF FilesInv, LibraryInv, UploadInv
<1>1. ASSUME i \in DOMAIN lib, lib[i].at = "stable", lib'[i].asset = lib[i].asset
      PROVE  lib'[i].asset \in torn' \/ \E s \in stable' : s.asset = lib'[i].asset
  <2>1. lib[i].asset \in torn \/ HasFile(lib[i].asset)
    BY <1>1 DEF FilesInv, StableFileExists, HasFile
  <2>2. QED BY <1>0, <1>1, <2>1, FilesStay
<1>2. CASE lib' = lib
  BY <1>1, <1>2
<1>3. ASSUME NEW r \in Reqs, RegisterAsset(r) PROVE i \in DOMAIN lib /\ lib'[i] = lib[i]
  <2>1. CASE i = Len(lib) + 1
    <3>1. lib'[i] = NewRow(req[r].u, req[r].target)
      BY <1>0, <1>3, <2>1, Registers
    <3>2. QED BY <3>1 DEF NewRow
  <2>2. DOMAIN lib' = DOMAIN lib \cup {Len(lib) + 1} /\ \A k \in DOMAIN lib : lib'[k] = lib[k]
    BY <1>0, <1>3, Registers
  <2>3. QED BY <2>1, <2>2
<1>4. ASSUME NEW r \in Reqs, At(r, {"commit"}), Marked(LatestRow(req[r].target)),
             ~(lib[i].at = "stable")
      PROVE  lib'[i].asset \in torn' \/ \E s \in stable' : s.asset = lib'[i].asset
  <2>1. req[r].target \in AssetIds
    BY <1>0, <1>4 DEF KnownTargets, At
  <2>2. MarkedFacts(LatestRow(req[r].target))
    BY <1>0, <1>4, Marks
  <2>3. i = LatestRow(req[r].target) /\ i \in DOMAIN lib
    BY <1>4, <2>2 DEF MarkedFacts
  <2>4. lib'[i].asset = req[r].target
    BY <1>0, <2>1, <2>2, <2>3, LatestHolds DEF MarkedFacts
  <2>5. req[r].target \in torn \/ HasFile(req[r].target)
    BY <1>4 DEF FilesInv, Moved, At
  <2>6. QED BY <1>0, <2>4, <2>5, FilesStay
<1>5. ASSUME NEW r \in Reqs, Marked(LatestRow(req[r].target)), lib[i].at = "stable"
      PROVE  i \in DOMAIN lib /\ lib'[i].asset = lib[i].asset
  BY <1>0, <1>5, Marks DEF MarkedFacts
<1>6. QED BY <1>1, <1>2, <1>3, <1>4, <1>5, LibrarySteps

LEMMA FilesInvStep == FilesInv /\ [Next]_vars => FilesInv'
<1> SUFFICES ASSUME FilesInv, [Next]_vars PROVE FilesInv'
  OBVIOUS
<1>1. LibraryInv'
  BY LibraryInvStep DEF FilesInv
<1>2. CASE Next
  BY <1>1, <1>2, TornKept, MovedKept, StableKept DEF FilesInv
<1>3. CASE UNCHANGED vars
  BY <1>1, <1>3 DEF FilesInv, TornKnown, Moved, HasFile, StableFileExists,
     vars, jobVars, fileVars, libVars, bootVars
<1>4. QED BY <1>2, <1>3

LEMMA FilesInvInit == Init => FilesInv
<1> SUFFICES ASSUME Init PROVE FilesInv
  OBVIOUS
<1>1. Idle.pc = "idle"
  BY DEF Idle
<1>2. recovery.todo = {} /\ recovery.row.stable = 0 /\ recovery.pc = "idle"
  BY DEF Init, NotRecovering, NoRow
<1>3. TornKnown /\ Moved /\ StableFileExists
  BY <1>1, <1>2 DEF Init, TornKnown, Moved, StableFileExists
<1>4. QED BY <1>3, LibraryInvInit DEF FilesInv

LEMMA FilesInvariant == Spec => []FilesInv
<1>1. QED BY FilesInvInit, FilesInvStep, PTL DEF Spec

(* An asset row that names a stable path names a file that exists, also after *)
(* crashes and beside boot recovery, which deletes stable files: what it      *)
(* deletes is only ever the file of an asset whose commit was torn.           *)
THEOREM StableRowsHaveFiles == Spec => []StableFileExists
<1>1. FilesInv => StableFileExists
  BY DEF FilesInv
<1>2. QED BY <1>1, FilesInvariant, PTL

-----------------------------------------------------------------------------
(* While the server stays up: no handler was ever dropped, so every temp     *)
(* file and every job that waits for its client has an owner.                *)

Up == restarts = 0 /\ running

OnItsWay == {"uploading", "awaiting_confirmation"}

TempOwned ==
  \A u \in temp \ refused :
    \/ session[u].status \in OnItsWay
    \/ \E r \in Reqs : req[r].pc = "create" /\ req[r].u = u

UpInv ==
  /\ recovery = NotRecovering
  /\ TempOwned
  /\ AwaitingHasSession

WhileUp == FilesInv /\ (Up => UpInv)

LEMMA StaysUp ==
  ASSUME LibraryInv, Up => UpInv, Next, Up'
  PROVE  UpStep /\ UpInv /\ Next /\ recovery' = NotRecovering
<1>0. TypeOK
  BY DEF LibraryInv, UploadInv
<1>1. ASSUME NEW P \in SUBSET Jobs, Restart(P) PROVE FALSE
  BY <1>0, <1>1 DEF Restart, Up, TypeOK
<1>2. running
  BY <1>1, RunsOn DEF Up
<1>3. ~CrashMidway
  BY DEF CrashMidway, CrashInCreate, CrashInVersion, CrashInSweep, CrashInCommit, Crash, Up
<1>4. restarts' = restarts
  BY <1>1, <1>3 DEF Next, ClientStep, Reserve, CreateBegin, ChunkBegin, FinalizeBegin,
     ConfirmBegin, ChunkCancelled, FinalizeUnavailable, FinalizeCancelled, AbortUpload, CancelJob,
     Resume, CreateInsert, InsertRefused, ChunkWritten, ChunkFailed, ConfirmMissing, ConfirmProceed,
     ConfirmUnavailable, HashFailed, HashedDuplicate, HashedVersion, HashedNew, RegisterAsset,
     RenameFile, FinalizeThrows, CommitUpload, Sweep, SweepUploadSession, SweepQueuedJob,
     TrackerFail, Recover, RecoverRow, RecoverStable, RecoverTemp, RecoverUnlinkTemp, RecoverUnlinkStable, CleanUpStable, bootVars
<1>5. UpInv /\ recovery = NotRecovering
  BY <1>2, <1>4 DEF Up, UpInv
<1>6. ~Recover
  BY <1>5 DEF Recover, RecoverRow, RecoverStable, RecoverTemp, RecoverUnlinkTemp, RecoverUnlinkStable, CleanUpStable, NotRecovering
<1>7. recovery' = NotRecovering
  BY <1>0, <1>1, <1>5, <1>6, RecoveryAlone
<1>8. QED BY <1>1, <1>3, <1>5, <1>6, <1>7 DEF Next, UpStep

\* A session that ends takes its temp file with it.
LEMMA EndsUnlink ==
  ASSUME FilesInv, UpStep, NEW u \in Uploads,
         session[u].status \in OnItsWay, session'[u].status \notin OnItsWay
  PROVE  u \notin temp'
<1>0. /\ UploadInv /\ TypeOK /\ FreshCreates /\ session[u] \in SessionType
      /\ \A r \in Reqs : req[r].pc = "commit" => req[r].u \notin temp
  BY DEF FilesInv, LibraryInv, UploadInv, Moved, TypeOK
<1>1. session'[u] # session[u]
  OBVIOUS
<1>2. \A st, x : SessionBecomes(x, st) => u = x
  BY <1>0, <1>1 DEF SessionBecomes, TypeOK
<1>3. CASE ClientStep
  BY <1>1, <1>2, <1>3 DEF ClientStep, Reserve, CreateBegin, ChunkBegin, FinalizeBegin,
       ConfirmBegin, ChunkCancelled, FinalizeUnavailable, FinalizeCancelled, AbortUpload,
       CancelJob
<1>4. ASSUME NEW r \in Reqs, Resume(r) PROVE u \notin temp'
  <2>1. CASE CreateInsert(r)
    BY <1>0, <1>1, <2>1 DEF CreateInsert, TypeOK, OnItsWay
  <2>2. CASE ChunkWritten(r)
    <3>1. session'[u] = session[u] \/ session'[u] = [session[u] EXCEPT !.received = EndOf(req[r].off)]
      BY <1>0, <2>2 DEF ChunkWritten, TypeOK
    <3>2. session'[u].status = session[u].status
      BY <1>0, <3>1 DEF SessionType
    <3>3. QED BY <3>2
  <2>3. CASE HashedVersion(r)
    BY <1>0, <1>2, <2>3 DEF HashedVersion, SessionBecomes, SessionType, OnItsWay, TypeOK
  <2>4. QED BY <1>0, <1>1, <1>2, <1>4, <2>1, <2>2, <2>3 DEF Resume, InsertRefused, ChunkFailed,
         ConfirmMissing, ConfirmProceed, ConfirmUnavailable, HashFailed, HashedDuplicate,
         HashedNew, RegisterAsset, RenameFile, FinalizeThrows, CommitUpload, At, fileVars
<1>5. CASE Sweep \/ \E j \in Jobs : TrackerFail(j)
  BY <1>1, <1>2, <1>5 DEF Sweep, SweepUploadSession, SweepQueuedJob, TrackerFail
<1>6. QED BY <1>3, <1>4, <1>5 DEF UpStep

LEMMA OwnedKept ==
  ASSUME FilesInv, UpInv, Next, UpStep, running
  PROVE  TempOwned'
<1> SUFFICES ASSUME NEW u \in temp', u \notin refused'
             PROVE  \/ session'[u].status \in OnItsWay
                    \/ \E r \in Reqs : req'[r].pc = "create" /\ req'[r].u = u
  BY DEF TempOwned
<1>0. /\ UploadInv /\ TypeOK /\ FreshCreates /\ TempOwned /\ refused \subseteq refused'
      /\ req \in [Reqs -> RequestType] /\ session \in [Uploads -> SessionType]
  BY GhostsGrow DEF FilesInv, LibraryInv, UploadInv, UpInv, TypeOK
<1>1. u \in Uploads
  BY <1>0, TypeKept DEF TypeOK
<1>2. CASE u \notin temp
  <2> USE DEF fileVars
  <2>1. \E r \in Reqs, j \in Jobs, a \in AssetIds \cup {0} : CreateBegin(r, j, a)
    <3>1. CASE ClientStep
      BY <1>2, <3>1 DEF ClientStep, Reserve, ChunkBegin, FinalizeBegin,
       ConfirmBegin, ChunkCancelled, FinalizeUnavailable, FinalizeCancelled, AbortUpload, CancelJob
    <3>2. ASSUME NEW r \in Reqs, Resume(r) PROVE FALSE
      BY <1>2, <3>2 DEF Resume, CreateInsert, InsertRefused, ChunkWritten, ChunkFailed, ConfirmMissing,
         ConfirmProceed, ConfirmUnavailable, HashFailed, HashedDuplicate, HashedVersion,
         HashedNew, RegisterAsset, RenameFile, FinalizeThrows, CommitUpload
    <3>3. CASE Sweep \/ \E j \in Jobs : TrackerFail(j)
      BY <1>2, <3>3 DEF Sweep, SweepUploadSession, SweepQueuedJob, TrackerFail
    <3>4. QED BY <3>1, <3>2, <3>3 DEF UpStep
  <2>2. PICK r \in Reqs, j \in Jobs, a \in AssetIds \cup {0} : CreateBegin(r, j, a)
    BY <2>1
  <2>3. PICK x \in Uploads : CreateTakes(r, j, a, x)
    BY <2>2, CreateTakesFresh
  <2>4. x = u
    BY <1>2, <2>3 DEF CreateTakes
  <2>5. req'[r].pc = "create" /\ req'[r].u = u
    BY <1>0, <2>3, <2>4 DEF CreateTakes, Idle
  <2>6. QED BY <2>5
<1>3. CASE session[u].status \in OnItsWay
  BY <1>1, <1>3, EndsUnlink
<1>4. ASSUME NEW r \in Reqs, req[r].pc = "create", req[r].u = u
      PROVE  \/ session'[u].status \in OnItsWay
             \/ req'[r].pc = "create" /\ req'[r].u = u
  <2>1. CASE req'[r] = req[r]
    BY <1>4, <2>1
  <2>2. CASE CreateInsert(r)
    BY <1>0, <1>1, <1>4, <2>2 DEF CreateInsert, OnItsWay
  <2>7. CASE InsertRefused(r)
    BY <1>4, <2>7 DEF InsertRefused
  <2>3. CASE ClientStep
    <3>1. \A x, e : (req' = [req EXCEPT ![x] = e] /\ req[x] = Idle) => req'[r] = req[r]
      BY <1>0, <1>4 DEF Idle
    <3>2. QED BY <2>1, <2>3, <3>1 DEF ClientStep, Reserve, CreateBegin, ChunkBegin, FinalizeBegin,
       ConfirmBegin, ChunkCancelled, FinalizeUnavailable, FinalizeCancelled, AbortUpload,
       CancelJob, Free
  <2>4. ASSUME NEW x \in Reqs, Resume(x), ~CreateInsert(r), ~InsertRefused(r)
        PROVE  req'[r] = req[r]
    <3>1. x = r => FALSE
      BY <1>4, <2>4 DEF Resume, CreateInsert, InsertRefused, ChunkWritten, ChunkFailed, ConfirmMissing,
         ConfirmProceed, ConfirmUnavailable, HashFailed, HashedDuplicate, HashedVersion,
         HashedNew, RegisterAsset, RenameFile, FinalizeThrows, CommitUpload, At
    <3>2. \E e : req' = [req EXCEPT ![x] = e]
      BY <2>4 DEF Resume, CreateInsert, InsertRefused, ChunkWritten, ChunkFailed, ConfirmMissing,
         ConfirmProceed, ConfirmUnavailable, HashFailed, HashedDuplicate, HashedVersion,
         HashedNew, RegisterAsset, RenameFile, FinalizeThrows, CommitUpload
    <3>3. QED BY <1>0, <3>1, <3>2
  <2>5. CASE Sweep \/ \E j \in Jobs : TrackerFail(j)
    BY <2>1, <2>5 DEF Sweep, SweepUploadSession, SweepQueuedJob, TrackerFail
  <2>6. QED BY <2>1, <2>2, <2>3, <2>4, <2>5, <2>7 DEF UpStep
<1>5. QED BY <1>0, <1>2, <1>3, <1>4 DEF TempOwned

\* A session leaves the confirmation together with its job.
LEMMA EndsAwaiting ==
  ASSUME LibraryInv, UpStep, running, NEW u \in Uploads,
         session[u].status = "awaiting_confirmation",
         session'[u].status # "awaiting_confirmation"
  PROVE  jobStatus'[session[u].job] # "awaiting_confirmation"
<1>0. /\ UploadInv /\ TypeOK /\ FreshCreates /\ session[u] \in SessionType
      /\ session[u].job \in Jobs /\ jobStatus \in [Jobs -> JobStatuses]
  BY DEF LibraryInv, UploadInv, TypeOK, Sessions
<1>1. session'[u] # session[u]
  OBVIOUS
<1>2. \A st, x : SessionBecomes(x, st) => u = x
  BY <1>0, <1>1 DEF SessionBecomes, TypeOK
<1>3. /\ Becomes(session[u].job, Failed) => jobStatus'[session[u].job] # "awaiting_confirmation"
      /\ Becomes(session[u].job, Cancelled) => jobStatus'[session[u].job] # "awaiting_confirmation"
      /\ Becomes(session[u].job, Completed) => jobStatus'[session[u].job] # "awaiting_confirmation"
  BY <1>0 DEF Becomes, Failed, Cancelled, Completed, HasRow
<1>4. CASE ClientStep
  BY <1>1, <1>2, <1>3, <1>4 DEF ClientStep, Reserve, CreateBegin, ChunkBegin, FinalizeBegin,
       ConfirmBegin, ChunkCancelled, FinalizeUnavailable, FinalizeCancelled, AbortUpload,
       CancelJob
<1>5. ASSUME NEW r \in Reqs, Resume(r) PROVE jobStatus'[session[u].job] # "awaiting_confirmation"
  <2>1. CASE CreateInsert(r)
    BY <1>0, <1>1, <2>1 DEF CreateInsert, TypeOK, At, FreshCreates
  <2>2. CASE ChunkWritten(r)
    <3>1. session'[u] = session[u] \/ session'[u] = [session[u] EXCEPT !.received = EndOf(req[r].off)]
      BY <1>0, <2>2 DEF ChunkWritten, TypeOK
    <3>2. session'[u].status = session[u].status
      BY <1>0, <3>1 DEF SessionType
    <3>3. QED BY <3>2
  <2>3. CASE HashedVersion(r)
    BY <1>0, <1>2, <2>3 DEF HashedVersion, SessionBecomes, SessionType, TypeOK
  <2>4. QED BY <1>0, <1>1, <1>2, <1>3, <1>5, <2>1, <2>2, <2>3 DEF Resume, InsertRefused, ChunkFailed,
         ConfirmMissing, ConfirmProceed, ConfirmUnavailable, HashFailed, HashedDuplicate,
         HashedNew, RegisterAsset, RenameFile, FinalizeThrows, CommitUpload
<1>6. CASE Sweep \/ \E j \in Jobs : TrackerFail(j)
  BY <1>1, <1>2, <1>3, <1>6 DEF Sweep, SweepUploadSession, SweepQueuedJob, TrackerFail
<1>7. QED BY <1>4, <1>5, <1>6 DEF UpStep

\* A job comes to await its client only by the decision that parks its session.
LEMMA BeginsAwaiting ==
  ASSUME TypeOK, UpStep, NEW j \in Jobs,
         jobStatus[j] # "awaiting_confirmation", jobStatus'[j] = "awaiting_confirmation"
  PROVE  \E r \in Reqs : HashedVersion(r) /\ session[req[r].u].job = j
<1> USE DEF jobVars
<1>0. jobStatus' # jobStatus /\ jobStatus \in [Jobs -> JobStatuses]
  BY DEF TypeOK
<1>1. ASSUME NEW k, \/ Becomes(k, Failed) \/ Becomes(k, Progressed)
                    \/ Becomes(k, Completed) \/ Becomes(k, Cancelled)
      PROVE  FALSE
  BY <1>0, <1>1 DEF Becomes, Failed, Progressed, Completed, Cancelled, HasRow
<1>2. ASSUME NEW k, Becomes(k, Awaiting) PROVE k = j
  BY <1>0, <1>2 DEF Becomes
<1>3. CASE ClientStep
  <2>1. ASSUME NEW b, Reserve(b) PROVE FALSE
    BY <2>1 DEF Reserve
  <2>2. QED BY <1>0, <1>1, <1>3, <2>1 DEF ClientStep, CreateBegin, ChunkBegin, FinalizeBegin,
       ConfirmBegin, ChunkCancelled, FinalizeUnavailable, FinalizeCancelled, AbortUpload, CancelJob
<1>4. ASSUME NEW r \in Reqs, Resume(r) PROVE HashedVersion(r) /\ session[req[r].u].job = j
  BY <1>0, <1>1, <1>2, <1>4 DEF Resume, CreateInsert, InsertRefused, ChunkWritten, ChunkFailed, ConfirmMissing,
     ConfirmProceed, ConfirmUnavailable, HashFailed, HashedDuplicate, HashedVersion, HashedNew,
     RegisterAsset, RenameFile, FinalizeThrows, CommitUpload
<1>5. CASE Sweep \/ \E k \in Jobs : TrackerFail(k)
  <2>1. ASSUME NEW k, SweepQueuedJob(k) PROVE FALSE
    BY <1>0, <2>1 DEF SweepQueuedJob
  <2>2. QED BY <1>1, <1>5, <2>1 DEF Sweep, SweepUploadSession, TrackerFail
<1>6. QED BY <1>3, <1>4, <1>5 DEF UpStep

LEMMA AwaitingKept ==
  ASSUME LibraryInv, UpInv, Next, UpStep, running
  PROVE  AwaitingHasSession'
<1> SUFFICES ASSUME NEW j \in Jobs, jobStatus'[j] = "awaiting_confirmation"
             PROVE  \E u \in Uploads : /\ session'[u].job = j
                                       /\ session'[u].status = "awaiting_confirmation"
  BY DEF AwaitingHasSession
<1>0. UploadInv /\ TypeOK /\ FreshCreates
  BY DEF LibraryInv, UploadInv
<1>1. CASE jobStatus[j] = "awaiting_confirmation"
  <2>1. PICK u \in Uploads : session[u].job = j /\ session[u].status = "awaiting_confirmation"
    BY <1>1 DEF UpInv, AwaitingHasSession
  <2>2. session'[u].job = j
    BY <1>0, <2>1, SessionJobStays
  <2>3. QED BY <2>1, <2>2, EndsAwaiting
<1>2. ASSUME NEW r \in Reqs, HashedVersion(r), session[req[r].u].job = j
      PROVE  /\ req[r].u \in Uploads /\ session'[req[r].u].job = j
             /\ session'[req[r].u].status = "awaiting_confirmation"
  <2>1. req[r].u \in Uploads /\ session[req[r].u].status # "none"
    BY <1>0, <1>2, HandlerHolds DEF HashedVersion, At
  <2>2. session'[req[r].u].job = j
    BY <1>0, <1>2, <2>1, SessionJobStays
  <2>3. session'[req[r].u] = [session[req[r].u] EXCEPT !.status = "awaiting_confirmation"]
    BY <1>0, <1>2, <2>1 DEF HashedVersion, SessionBecomes, TypeOK
  <2>4. session[req[r].u] \in SessionType
    BY <1>0, <2>1 DEF TypeOK
  <2>5. session'[req[r].u].status = "awaiting_confirmation"
    BY <2>3, <2>4 DEF SessionType
  <2>6. QED BY <2>1, <2>2, <2>5
<1>3. QED BY <1>0, <1>1, <1>2, BeginsAwaiting

LEMMA WhileUpStep == WhileUp /\ [Next]_vars => WhileUp'
<1> SUFFICES ASSUME WhileUp, [Next]_vars PROVE WhileUp'
  OBVIOUS
<1>1. FilesInv /\ FilesInv' /\ LibraryInv /\ TypeOK
  BY FilesInvStep DEF WhileUp, FilesInv, LibraryInv, UploadInv
<1>2. ASSUME Next, Up' PROVE UpInv'
  <2>1. UpStep /\ UpInv /\ recovery' = NotRecovering
    BY <1>1, <1>2, StaysUp DEF WhileUp
  <2>2. running
    <3>1. \A P \in SUBSET Jobs : ~Restart(P)
      BY <1>1, <1>2 DEF Restart, Up, TypeOK
    <3>2. QED BY <1>2, <3>1, RunsOn DEF Up
  <2>3. QED BY <1>1, <1>2, <2>1, <2>2, OwnedKept, AwaitingKept DEF UpInv
<1>3. ASSUME UNCHANGED vars, Up' PROVE UpInv'
  <2>1. Up
    BY <1>3 DEF Up, vars, bootVars
  <2>2. UpInv
    BY <2>1 DEF WhileUp
  <2>3. QED BY <1>3, <2>2 DEF UpInv, TempOwned, AwaitingHasSession,
       vars, jobVars, fileVars, libVars, bootVars
<1>4. QED BY <1>1, <1>2, <1>3 DEF WhileUp

LEMMA WhileUpInit == Init => WhileUp
<1> SUFFICES ASSUME Init PROVE WhileUp
  OBVIOUS
<1>1. UpInv
  BY DEF Init, UpInv, TempOwned, AwaitingHasSession
<1>2. QED BY <1>1, FilesInvInit DEF WhileUp

LEMMA WhileUpInvariant == Spec => []WhileUp
<1>1. QED BY WhileUpInit, WhileUpStep, PTL DEF Spec

(* Until the server first goes down, every temp file on disk belongs to a     *)
(* session that a sweep can still expire, or to a handler that holds it, but  *)
(* for the files of create calls whose insert was refused.                    *)
THEOREM NoTempLeaks == Spec => [](Up => NoOrphanTemp)
<1>1. UpInv => NoOrphanTemp
  BY DEF UpInv, TempOwned, NoOrphanTemp, OnItsWay
<1>2. WhileUp => (Up => NoOrphanTemp)
  BY <1>1 DEF WhileUp
<1>3. QED BY <1>2, WhileUpInvariant, PTL

(* Until the server first goes down, a job that awaits confirmation has the   *)
(* session the confirm and decline buttons act on, with any number of routes, *)
(* sweeps and cancels in flight on the same upload.                           *)
THEOREM ConfirmHasSession == Spec => [](Up => AwaitingHasSession)
<1>1. WhileUp => (Up => AwaitingHasSession)
  BY DEF WhileUp, UpInv
<1>2. QED BY <1>1, WhileUpInvariant, PTL

-----------------------------------------------------------------------------
(* What registering and committing do to an asset's latest and current row.  *)

StableComplete ==
  \A s \in stable : written[s.src] = FileSize /\ session[s.src].status # "none"

\* What the rename is about to put, or has put, at the stable path.
RenamesCurrent ==
  \A r \in Reqs :
    /\ req[r].pc \in {"rename", "commit"} => HashOf(req[r].u) = lib[CurrentRow(req[r].target)].hash
    /\ req[r].pc = "commit" =>
         req[r].target \in torn \/ [asset |-> req[r].target, src |-> req[r].u] \in stable

CurrentInv ==
  /\ FilesInv
  /\ LatestIsCurrent
  /\ StableComplete
  /\ RenamesCurrent
  /\ StableHoldsCurrent

LEMMA SameRows ==
  ASSUME NEW a, RowsOf(a)' = RowsOf(a), \A i \in RowsOf(a) : lib'[i].dup = lib[i].dup
  PROVE  LatestRow(a)' = LatestRow(a) /\ CurrentRow(a)' = CurrentRow(a)
<1>1. {i \in RowsOf(a)' : ~lib'[i].dup} = {i \in RowsOf(a) : ~lib[i].dup}
  OBVIOUS
<1>2. QED BY <1>1 DEF LatestRow, CurrentRow, Last

LEMMA MarkedRows ==
  ASSUME TypeOK, NEW k, Marked(k), NEW a
  PROVE  /\ AssetIds' = AssetIds
         /\ LatestRow(a)' = LatestRow(a) /\ CurrentRow(a)' = CurrentRow(a)
<1>1. MarkedFacts(k)
  BY Marks
<1>2. RowsOf(a)' = RowsOf(a) /\ \A i \in RowsOf(a) : lib'[i].dup = lib[i].dup
  BY <1>1 DEF MarkedFacts, RowsOf
<1>3. AssetIds' = AssetIds
  BY <1>1 DEF MarkedFacts, AssetIds
<1>4. QED BY <1>2, <1>3, SameRows

LEMMA RegisteredRows ==
  ASSUME LibraryInv, LibraryInv', Next, NEW r \in Reqs, RegisterAsset(r),
         NEW row, row = NewRow(req[r].u, req[r].target), NEW b, b = row.asset
  PROVE  LET n == Len(lib) + 1
         IN  /\ b \in AssetIds'
             /\ AssetIds' = AssetIds \cup {b}
             /\ \A a \in AssetIds \ {b} :
                  LatestRow(a)' = LatestRow(a) /\ CurrentRow(a)' = CurrentRow(a)
             /\ LatestRow(b)' = n
             /\ ~row.dup => CurrentRow(b)' = n
             /\ row.dup => /\ b \in AssetIds
                           /\ CurrentRow(b)' = CurrentRow(b)
                           /\ lib[LatestRow(b)].hash = HashOf(req[r].u)
<1> DEFINE n == Len(lib) + 1
<1>0. /\ TypeOK /\ FirstRows /\ Len(lib) \in Nat /\ DOMAIN lib = 1 .. Len(lib)
      /\ req[r].target \in AssetIds \cup {0} /\ 0 \notin AssetIds
      /\ TypeOK' /\ FirstRows'
  <2>1. TypeOK /\ FirstRows /\ TypeOK' /\ FirstRows' /\ KnownTargets
    BY DEF LibraryInv, UploadInv
  <2>2. Len(lib) \in Nat /\ DOMAIN lib = 1 .. Len(lib)
    BY <2>1 DEF TypeOK
  <2>3. req[r].target \in AssetIds \cup {0} /\ 0 \notin AssetIds
    BY <2>1, NoAssetZero DEF KnownTargets
  <2>4. QED BY <2>1, <2>2, <2>3
<1>1. /\ Len(lib') = n /\ DOMAIN lib' = DOMAIN lib \cup {n} /\ lib'[n] = row
      /\ \A i \in DOMAIN lib : lib'[i] = lib[i]
  BY <1>0, Registers
<1>2. /\ req[r].target # 0 => b = req[r].target
      /\ row.dup <=> req[r].target # 0 /\ lib[LatestRow(req[r].target)].hash = HashOf(req[r].u)
  BY ZenonT(30) DEF NewRow
<1>3. row.dup => b \in AssetIds /\ lib[LatestRow(b)].hash = HashOf(req[r].u)
  BY <1>0, <1>2
<1>4. b \in AssetIds' /\ AssetIds' = AssetIds \cup {b}
  BY <1>1 DEF AssetIds
<1>5. ASSUME NEW a, a # b
      PROVE  LatestRow(a)' = LatestRow(a) /\ CurrentRow(a)' = CurrentRow(a)
  <2>1. RowsOf(a)' = RowsOf(a) /\ \A i \in RowsOf(a) : lib'[i].dup = lib[i].dup
    BY <1>1, <1>5 DEF RowsOf
  <2>2. QED BY <2>1, SameRows
<1>6. RowsOf(b)' = RowsOf(b) \cup {n} /\ RowsOf(b) \subseteq 1 .. Len(lib)
  <2>1. lib'[n].asset = b
    BY <1>1
  <2>2. QED BY <1>0, <1>1, <2>1 DEF RowsOf
<1>7. LatestRow(b)' = n
  <2>1. /\ RowsOf(b)' \subseteq 1 .. n /\ n \in Nat /\ n \in RowsOf(b)'
        /\ \A k \in RowsOf(b)' : k <= n
    BY <1>0, <1>6
  <2>2. Last(RowsOf(b)') = n
    BY <2>1, LastIs
  <2>3. QED BY <2>2 DEF LatestRow, Last
<1> DEFINE Cur == {i \in RowsOf(b) : ~lib[i].dup}
           CurN == {i \in RowsOf(b)' : ~lib'[i].dup}
<1>8. CurrentRow(b)' = Last(CurN)
  BY DEF CurrentRow, Last
<1>9. ASSUME ~row.dup PROVE CurrentRow(b)' = n
  <2>1. CurN \subseteq 1 .. n /\ n \in Nat /\ n \in CurN /\ \A k \in CurN : k <= n
    BY <1>0, <1>1, <1>6, <1>9
  <2> HIDE DEF CurN
  <2>2. QED BY <1>8, <2>1, LastIs
<1>10. ASSUME row.dup PROVE CurrentRow(b)' = CurrentRow(b)
  <2>1. CurN = Cur
    BY <1>0, <1>1, <1>6, <1>10
  <2>2. QED BY <1>8, <2>1 DEF CurrentRow
<1>11. QED BY <1>3, <1>4, <1>5, <1>7, <1>9, <1>10

LEMMA LatestKept ==
  ASSUME LibraryInv, LibraryInv', LatestIsCurrent, Next
  PROVE  LatestIsCurrent'
<1> SUFFICES ASSUME NEW a \in AssetIds'
             PROVE  lib'[LatestRow(a)'].hash = lib'[CurrentRow(a)'].hash
  BY DEF LatestIsCurrent
<1>0. TypeOK /\ FirstRows
  BY DEF LibraryInv, UploadInv
<1>1. CASE lib' = lib
  <2>1. AssetIds' = AssetIds /\ LatestRow(a)' = LatestRow(a) /\ CurrentRow(a)' = CurrentRow(a)
    BY <1>1 DEF AssetIds, LatestRow, CurrentRow, RowsOf, Last
  <2>2. QED BY <1>1, <2>1 DEF LatestIsCurrent
<1>2. ASSUME NEW k, Marked(k) PROVE lib'[LatestRow(a)'].hash = lib'[CurrentRow(a)'].hash
  BY <1>0, <1>2, MarkedRows, Marks, LatestHolds, CurrentHolds DEF MarkedFacts, LatestIsCurrent
<1>3. ASSUME NEW r \in Reqs, RegisterAsset(r)
      PROVE  lib'[LatestRow(a)'].hash = lib'[CurrentRow(a)'].hash
  <2>0. PICK row, b : row = NewRow(req[r].u, req[r].target) /\ b = row.asset
    OBVIOUS
  <2>1. /\ lib'[Len(lib) + 1] = row /\ row.hash = HashOf(req[r].u)
        /\ \A i \in DOMAIN lib : lib'[i] = lib[i]
    BY <1>0, <1>3, <2>0, Registers DEF NewRow
  <2>2. /\ AssetIds' = AssetIds \cup {b}
        /\ \A x \in AssetIds \ {b} :
             LatestRow(x)' = LatestRow(x) /\ CurrentRow(x)' = CurrentRow(x)
        /\ LatestRow(b)' = Len(lib) + 1
        /\ ~row.dup => CurrentRow(b)' = Len(lib) + 1
        /\ row.dup => /\ b \in AssetIds
                      /\ CurrentRow(b)' = CurrentRow(b)
                      /\ lib[LatestRow(b)].hash = HashOf(req[r].u)
    BY <1>3, <2>0, RegisteredRows
  <2>3. \A x \in AssetIds : /\ LatestRow(x) \in DOMAIN lib /\ CurrentRow(x) \in DOMAIN lib
                            /\ lib[LatestRow(x)].hash = lib[CurrentRow(x)].hash
    BY <1>0, LatestHolds, CurrentHolds DEF LatestIsCurrent
  <2>4. CASE a # b
    BY <2>1, <2>2, <2>3, <2>4
  <2>5. CASE a = b
    BY <2>1, <2>2, <2>3, <2>5
  <2>6. QED BY <2>4, <2>5
<1>4. QED BY <1>1, <1>2, <1>3, LibrarySteps

\* The content of a complete upload never changes.
LEMMA ContentStays ==
  ASSUME LibraryInv, Next, NEW u \in Uploads, session[u].status # "none", written[u] = FileSize
  PROVE  /\ session'[u].status # "none" /\ written'[u] = FileSize
         /\ [bytes |-> ContentOf[session'[u].job], size |-> written'[u]] = HashOf(u)
<1>1. UploadInv /\ FreshCreates /\ written[u] \in Nat /\ written'[u] \in Nat /\ FileSize \in Nat
  BY TypeKept, UploadAssumption DEF LibraryInv, UploadInv, TypeOK
<1>2. session'[u].job = session[u].job
  BY <1>1, SessionJobStays
<1>3. session'[u].status # "none"
  BY <1>1, SessionSteps, SessionsStay
<1>4. written'[u] = FileSize
  BY <1>1, FileSteps DEF FileStep
<1>5. QED BY <1>2, <1>3, <1>4 DEF HashOf

LEMMA CompleteFilesKept ==
  ASSUME LibraryInv, StableComplete, Next
  PROVE  StableComplete'
<1> SUFFICES ASSUME NEW s \in stable'
             PROVE  written'[s.src] = FileSize /\ session'[s.src].status # "none"
  BY DEF StableComplete
<1>0. UploadInv /\ TypeOK
  BY DEF LibraryInv, UploadInv
<1>1. CASE s \in stable
  <2>1. s.src \in Uploads
    BY <1>0, <1>1 DEF TypeOK
  <2>2. QED BY <1>1, <2>1, ContentStays DEF StableComplete
<1>2. ASSUME NEW r \in Reqs, RenameFile(r), s \notin stable
      PROVE  written'[s.src] = FileSize /\ session'[s.src].status # "none"
  <2>1. s.src = req[r].u
    BY <1>2 DEF RenameFile
  <2>2. req[r].u \in Uploads /\ session[req[r].u].status # "none" /\ written[req[r].u] = FileSize
    BY <1>0, <1>2, HandlerHolds DEF RenameFile, At, UploadInv, CompleteInHand
  <2>3. QED BY <2>1, <2>2, ContentStays
<1>3. CASE RecoverUnlinkStable
  BY <1>1, <1>3 DEF RecoverUnlinkStable
<1>4. QED BY <1>1, <1>2, <1>3, StableSteps

\* A step that registers nothing leaves the current version of every asset.
LEMMA CurrentStays ==
  ASSUME LibraryInv, Next, \A r \in Reqs : ~RegisterAsset(r), NEW a \in AssetIds
  PROVE  /\ AssetIds' = AssetIds
         /\ CurrentRow(a)' = CurrentRow(a)
         /\ lib'[CurrentRow(a)].hash = lib[CurrentRow(a)].hash
<1>0. TypeOK /\ FirstRows
  BY DEF LibraryInv, UploadInv
<1>1. CASE lib' = lib
  BY <1>1 DEF AssetIds, CurrentRow, RowsOf, Last
<1>2. ASSUME NEW k, Marked(k)
      PROVE  /\ AssetIds' = AssetIds
             /\ CurrentRow(a)' = CurrentRow(a)
             /\ lib'[CurrentRow(a)].hash = lib[CurrentRow(a)].hash
  BY <1>0, <1>2, MarkedRows, Marks, CurrentHolds DEF MarkedFacts
<1>3. QED BY <1>1, <1>2, LibrarySteps

LEMMA RenamesKept ==
  ASSUME \A r, s \in Reqs : r = s, CurrentInv, LibraryInv', LatestIsCurrent', Next
  PROVE  RenamesCurrent'
<1> SUFFICES ASSUME NEW r \in Reqs, NEW x \in RequestType, x = req'[r],
                    x.pc \in {"rename", "commit"}
             PROVE  /\ [bytes |-> ContentOf[session'[x.u].job], size |-> written'[x.u]]
                         = lib'[CurrentRow(x.target)'].hash
                    /\ x.pc = "commit" => \/ x.target \in torn'
                                          \/ [asset |-> x.target, src |-> x.u] \in stable'
  BY DEF RenamesCurrent, HashOf, LibraryInv, UploadInv, TypeOK
<1>0. /\ LibraryInv /\ UploadInv /\ TypeOK /\ FirstRows /\ KnownTargets /\ req[r] \in RequestType
      /\ req \in [Reqs -> RequestType] /\ RenamesCurrent /\ TornKnown /\ torn \subseteq torn'
  BY GhostsGrow DEF CurrentInv, FilesInv, LibraryInv, UploadInv, TypeOK
<1>1. ASSUME req[r].pc \in {"stat", "rename", "commit"}
      PROVE  /\ req[r].u \in Uploads
             /\ [bytes |-> ContentOf[session'[req[r].u].job], size |-> written'[req[r].u]]
                  = HashOf(req[r].u)
  BY <1>0, <1>1, HandlerHolds, ContentStays DEF UploadInv, CompleteInHand
<1>2. ASSUME req[r].pc \in {"rename", "commit"}, x.u = req[r].u, x.target = req[r].target
      PROVE  [bytes |-> ContentOf[session'[x.u].job], size |-> written'[x.u]]
                = lib'[CurrentRow(x.target)'].hash
  <2>1. \A s \in Reqs : ~RegisterAsset(s)
    BY <1>2 DEF RegisterAsset, At
  <2>2. x.target \in AssetIds
    BY <1>0, <1>2 DEF KnownTargets
  <2>3. HashOf(x.u) = lib[CurrentRow(x.target)].hash
    BY <1>0, <1>2 DEF RenamesCurrent
  <2>4. CurrentRow(x.target)' = CurrentRow(x.target)
        /\ lib'[CurrentRow(x.target)].hash = lib[CurrentRow(x.target)].hash
    BY <1>0, <2>1, <2>2, CurrentStays
  <2>5. QED BY <1>1, <1>2, <2>3, <2>4
<1>3. CASE x = req[r]
  <2>1. ASSUME x.pc = "commit"
        PROVE  x.target \in torn' \/ [asset |-> x.target, src |-> x.u] \in stable'
    <3>1. x.target \in torn \/ [asset |-> x.target, src |-> x.u] \in stable
      BY <1>0, <1>3, <2>1 DEF RenamesCurrent
    <3>2. \A s \in Reqs : ~RenameFile(s)
      BY <1>3, <2>1 DEF RenameFile, At
    <3>3. CASE stable' = stable
      BY <1>0, <3>1, <3>3
    <3>4. CASE RecoverUnlinkStable
      BY <1>0, <3>1, <3>4, OnlyTornUnlinked
    <3>5. QED BY <3>2, <3>3, <3>4, StableSteps
  <2>2. QED BY <1>2, <1>3, <2>1
<1>4. CASE RegisterAsset(r)
  <2>1. PICK row, b : row = NewRow(req[r].u, req[r].target) /\ b = row.asset
    OBVIOUS
  <2>2. PICK t : t = b /\ req'[r] = [req[r] EXCEPT !.pc = "rename", !.target = t]
    BY <1>0, <1>4, <2>1, Registers
  <2>3. x.pc = "rename" /\ x.u = req[r].u /\ x.target = b
    BY <1>0, <2>2 DEF RequestType
  <2>4. /\ lib'[Len(lib) + 1] = row /\ row.hash = HashOf(req[r].u)
        /\ \A i \in DOMAIN lib : lib'[i] = lib[i]
        /\ req[r].pc = "stat"
    BY <1>0, <1>4, <2>1, Registers DEF NewRow
  <2>5. /\ ~row.dup => CurrentRow(b)' = Len(lib) + 1
        /\ row.dup => /\ b \in AssetIds
                      /\ CurrentRow(b)' = CurrentRow(b)
                      /\ lib[LatestRow(b)].hash = HashOf(req[r].u)
    BY <1>0, <1>4, <2>1, RegisteredRows
  <2>6. lib'[CurrentRow(b)'].hash = HashOf(req[r].u)
    <3>1. CASE ~row.dup
      BY <2>4, <2>5, <3>1
    <3>2. CASE row.dup
      <4>1. /\ CurrentRow(b) \in DOMAIN lib
            /\ lib[LatestRow(b)].hash = lib[CurrentRow(b)].hash
        BY <1>0, <2>5, <3>2, CurrentHolds DEF CurrentInv, LatestIsCurrent
      <4>2. QED BY <2>4, <2>5, <3>2, <4>1
    <3>3. QED BY <3>1, <3>2
  <2>7. QED BY <1>1, <2>3, <2>4, <2>6
<1>5. CASE RenameFile(r) /\ x = [req[r] EXCEPT !.pc = "commit"]
  <2>1. x.u = req[r].u /\ x.target = req[r].target
    BY <1>0, <1>5 DEF RequestType
  <2>2. [asset |-> x.target, src |-> x.u] \in stable'
    BY <1>5, <2>1 DEF RenameFile
  <2>3. QED BY <1>2, <1>5, <2>1, <2>2 DEF RenameFile, At
<1>6. QED BY <1>0, <1>3, <1>4, <1>5, LateHandlers

LEMMA CurrentFileKept ==
  ASSUME CurrentInv, LibraryInv', Next
  PROVE  StableHoldsCurrent'
<1> SUFFICES ASSUME NEW a \in AssetIds', a \notin torn', NEW c, c = CurrentRow(a)', lib'[c].at = "stable"
             PROVE  \E s \in stable' :
                      /\ s.asset = a
                      /\ [bytes |-> ContentOf[session'[s.src].job], size |-> written'[s.src]]
                           = lib'[c].hash
  BY DEF StableHoldsCurrent, HashOf
<1> DEFINE Held == \E s \in stable' :
                      /\ s.asset = a
                      /\ [bytes |-> ContentOf[session'[s.src].job], size |-> written'[s.src]]
                           = lib'[c].hash
<1>0. /\ LibraryInv /\ UploadInv /\ TypeOK /\ FirstRows /\ KnownTargets /\ StableComplete
      /\ RenamesCurrent /\ TornKnown /\ torn \subseteq torn'
      /\ \A x \in AssetIds \ torn : lib[CurrentRow(x)].at = "stable" =>
           \E s \in stable : s.asset = x /\ HashOf(s.src) = lib[CurrentRow(x)].hash
  BY GhostsGrow DEF CurrentInv, FilesInv, LibraryInv, UploadInv, StableHoldsCurrent
<1>1. \A s \in stable :
        [bytes |-> ContentOf[session'[s.src].job], size |-> written'[s.src]] = HashOf(s.src)
  BY <1>0, ContentStays DEF StableComplete, TypeOK
<1>2. ASSUME NEW s \in stable, s \in stable', s.asset = a, HashOf(s.src) = lib'[c].hash
      PROVE  Held
  BY <1>1, <1>2
<1>3. ASSUME NEW r \in Reqs, RegisterAsset(r) PROVE Held
  <2>1. PICK row, b : row = NewRow(req[r].u, req[r].target) /\ b = row.asset
    OBVIOUS
  <2>2. /\ lib'[Len(lib) + 1] = row /\ row.at = "temp"
        /\ \A i \in DOMAIN lib : lib'[i] = lib[i]
    BY <1>0, <1>3, <2>1, Registers DEF NewRow
  <2>3. /\ AssetIds' = AssetIds \cup {b}
        /\ \A x \in AssetIds \ {b} : CurrentRow(x)' = CurrentRow(x)
        /\ ~row.dup => CurrentRow(b)' = Len(lib) + 1
        /\ row.dup => b \in AssetIds /\ CurrentRow(b)' = CurrentRow(b)
    BY <1>0, <1>3, <2>1, RegisteredRows
  <2>4. a \in AssetIds /\ c = CurrentRow(a)
    BY <2>2, <2>3
  <2>5. lib'[c] = lib[c]
    BY <1>0, <2>2, <2>4, CurrentHolds
  <2>6. stable' = stable
    BY <1>3 DEF RegisterAsset
  <2>7. PICK s \in stable : s.asset = a /\ HashOf(s.src) = lib[c].hash
    BY <1>0, <2>4, <2>5
  <2>8. QED BY <1>2, <2>5, <2>6, <2>7
<1>4. ASSUME \A r \in Reqs : ~RegisterAsset(r)
      PROVE  a \in AssetIds /\ c = CurrentRow(a) /\ lib'[c].hash = lib[c].hash /\ c \in DOMAIN lib
             /\ lib[c].asset = a
  <2>1. a \in AssetIds
    BY <1>0, <1>4, LibrarySteps, MarkedRows DEF AssetIds
  <2>2. QED BY <1>0, <1>4, <2>1, CurrentStays, CurrentHolds
<1>5. ASSUME NEW r \in Reqs, RenameFile(r) PROVE Held
  <2>1. /\ lib' = lib /\ req[r].pc = "rename"
        /\ stable' = {s \in stable : s.asset # req[r].target}
                       \cup {[asset |-> req[r].target, src |-> req[r].u]}
    BY <1>5 DEF RenameFile, At
  <2>2. a \in AssetIds /\ c = CurrentRow(a)
    BY <2>1 DEF AssetIds, CurrentRow, RowsOf, Last
  <2>3. CASE a = req[r].target
    <3>1. HashOf(req[r].u) = lib[c].hash
      BY <1>0, <2>1, <2>2, <2>3 DEF RenamesCurrent
    <3>2. req[r].u \in Uploads /\ session[req[r].u].status # "none" /\ written[req[r].u] = FileSize
      BY <1>0, <2>1, HandlerHolds DEF UploadInv, CompleteInHand
    <3>3. [bytes |-> ContentOf[session'[req[r].u].job], size |-> written'[req[r].u]] = lib'[c].hash
      BY <1>0, <2>1, <3>1, <3>2, ContentStays
    <3>4. [asset |-> a, src |-> req[r].u] \in stable'
      BY <2>1, <2>3
    <3>5. PICK s \in stable' : s.asset = a /\ s.src = req[r].u
      BY <3>4
    <3>6. QED BY <3>3, <3>5
  <2>4. CASE a # req[r].target
    <3>1. PICK s \in stable : s.asset = a /\ HashOf(s.src) = lib[c].hash
      BY <1>0, <2>1, <2>2
    <3>2. QED BY <1>2, <2>1, <2>4, <3>1
  <2>5. QED BY <2>3, <2>4
<1>6. ASSUME \A r \in Reqs : ~RenameFile(r)
      PROVE  \A s \in stable : s.asset = a => s \in stable'
  <2>1. CASE stable' = stable
    BY <2>1
  <2>2. CASE RecoverUnlinkStable
    BY <1>0, <2>2, OnlyTornUnlinked
  <2>3. QED BY <1>6, <2>1, <2>2, StableSteps
<1>7. ASSUME lib[c].at = "stable", \A s \in stable : s.asset = a => s \in stable',
             \A r \in Reqs : ~RegisterAsset(r)
      PROVE  Held
  BY <1>0, <1>2, <1>4, <1>7
<1>8. ASSUME NEW r \in Reqs, At(r, {"commit"}), Marked(LatestRow(req[r].target)),
             \A s \in stable : s.asset = a => s \in stable', lib[c].at # "stable",
             \A s \in Reqs : ~RegisterAsset(s)
      PROVE  Held
  <2>1. c = LatestRow(req[r].target)
    BY <1>0, <1>4, <1>8, Marks DEF MarkedFacts
  <2>2. req[r].target \in AssetIds /\ req[r].pc = "commit"
    BY <1>0, <1>8 DEF KnownTargets, At
  <2>3. a = req[r].target
    BY <1>0, <1>4, <1>8, <2>1, <2>2, LatestHolds
  <2>4. /\ HashOf(req[r].u) = lib[c].hash
        /\ [asset |-> a, src |-> req[r].u] \in stable
    BY <1>0, <1>4, <1>8, <2>2, <2>3 DEF RenamesCurrent
  <2>5. PICK s \in stable : s.asset = a /\ s.src = req[r].u
    BY <2>4
  <2>6. QED BY <1>2, <1>4, <1>8, <2>4, <2>5
<1>9. QED BY <1>3, <1>5, <1>6, <1>7, <1>8, LibrarySteps

LEMMA CurrentInvStep ==
  ASSUME \A r, s \in Reqs : r = s
  PROVE  CurrentInv /\ [Next]_vars => CurrentInv'
<1> SUFFICES ASSUME CurrentInv, [Next]_vars PROVE CurrentInv'
  OBVIOUS
<1>1. FilesInv /\ FilesInv' /\ LibraryInv /\ LibraryInv' /\ LatestIsCurrent /\ StableComplete
  BY FilesInvStep DEF CurrentInv, FilesInv
<1>2. CASE Next
  <2>1. LatestIsCurrent' /\ StableComplete'
    BY <1>1, <1>2, LatestKept, CompleteFilesKept
  <2>2. QED BY <1>1, <1>2, <2>1, RenamesKept, CurrentFileKept DEF CurrentInv
<1>3. CASE UNCHANGED vars
  <2> USE DEF vars, jobVars, libVars, fileVars, bootVars
  <2>1. AssetIds' = AssetIds
    BY <1>3 DEF AssetIds
  <2>2. ASSUME NEW a PROVE LatestRow(a)' = LatestRow(a) /\ CurrentRow(a)' = CurrentRow(a)
    BY <1>3 DEF LatestRow, CurrentRow, RowsOf, Last
  <2>3. ASSUME NEW u PROVE HashOf(u)' = HashOf(u)
    BY <1>3 DEF HashOf
  <2>4. LatestIsCurrent' /\ StableComplete'
    BY <1>1, <1>3, <2>1, <2>2 DEF LatestIsCurrent, StableComplete
  <2>5. RenamesCurrent'
    <3> SUFFICES ASSUME NEW r \in Reqs, NEW x, x = req[r]
                 PROVE  /\ x.pc \in {"rename", "commit"} =>
                             HashOf(x.u)' = lib'[CurrentRow(x.target)'].hash
                        /\ x.pc = "commit" => \/ x.target \in torn'
                                              \/ [asset |-> x.target, src |-> x.u] \in stable'
      BY <1>3 DEF RenamesCurrent
    <3>1. RenamesCurrent
      BY DEF CurrentInv
    <3>2. QED BY <1>3, <2>2, <2>3, <3>1 DEF RenamesCurrent
  <2>6. StableHoldsCurrent'
    BY <1>3, <2>1, <2>2, <2>3 DEF StableHoldsCurrent, CurrentInv
  <2>7. QED BY <1>1, <2>4, <2>5, <2>6 DEF CurrentInv
<1>4. QED BY <1>2, <1>3

LEMMA CurrentInvInit == Init => CurrentInv
<1> SUFFICES ASSUME Init PROVE CurrentInv
  OBVIOUS
<1>1. Idle.pc = "idle"
  BY DEF Idle
<1>2. LatestIsCurrent /\ StableComplete /\ RenamesCurrent /\ StableHoldsCurrent
  BY <1>1 DEF Init, LatestIsCurrent, StableComplete, RenamesCurrent, StableHoldsCurrent, AssetIds
<1>3. QED BY <1>2, FilesInvInit DEF CurrentInv

(* While handlers run one at a time, the file at an asset's stable path holds *)
(* the bytes of its current version, through failed renames, through crashes  *)
(* between the registration, the rename and the commit, and through recovery: *)
(* a version that was not moved stays at its temp path, and a duplicate's     *)
(* rename puts the same bytes back.                                           *)
THEOREM StableFileIsCurrent ==
  ASSUME \A r, s \in Reqs : r = s
  PROVE  Spec => []StableHoldsCurrent
<1>1. Init => CurrentInv
  BY CurrentInvInit
<1>2. CurrentInv /\ [Next]_vars => CurrentInv'
  BY CurrentInvStep
<1>3. CurrentInv => StableHoldsCurrent
  BY DEF CurrentInv
<1>4. QED BY <1>1, <1>2, <1>3, PTL DEF Spec
=============================================================================
