--------------------------- MODULE CommentMirror_proofs ---------------------------
(***************************************************************************)
(* Theorems of CommentMirror: its type invariant, that only a lost id makes  *)
(* a second copy, and that changes reach Frame.io, for any comments, texts,  *)
(* batches and numbers of attempts.                                          *)
(***************************************************************************)
EXTENDS CommentMirror, FiniteSetTheorems, TLAPS

Busy == worker.pc \in {"asked", "answered"}

\* The worker holds jobs of the table: the one whose request is under way is in flight, the
\* others of its batch are pending, and no job outlives its attempts.
WorkerOK ==
  /\ worker.batch \subseteq DOMAIN jobs
  /\ worker.pc = "idle" => worker.batch = {}
  /\ Busy => worker.job \in worker.batch /\ Job.status = "in_flight"
  /\ \A j \in worker.batch : Pending(j) \/ (Busy /\ j = worker.job)
  /\ Busy /\ Job.action # "create" => worker.fid \in Fids
  /\ worker.pc = "answered" => worker.fid \in Fids
  /\ \A j \in DOMAIN jobs : jobs[j].status \in {"pending", "in_flight"} => jobs[j].tries < MaxTries
  /\ \A j \in DOMAIN jobs : jobs[j].status = "abandoned" => jobs[j].tries > 0

Typed == TypeOK /\ WorkerOK

\* Rows and events speak of comments that Frame.io has or had.
RowsOK ==
  /\ \A f \in Fids : row[f].fid \in {NoFid, f} /\ (row[f].fid = NoFid <=> row[f].state = "none")
  /\ \A f \in Fids : row[f].state # "none" => remote[f].state # "none"
  /\ \A c \in Comments : row[c].fid # NoFid =>
       /\ row[c].state # "none"
       /\ remote[row[c].fid].state # "none" /\ remote[row[c].fid].of = c
  /\ \A e \in hooks : remote[e.fid].state # "none" /\ (e.kind = "deleted" => remote[e.fid].state = "deleted")
  /\ \A x \in pulled : remote[x.fid].state # "none"

IsCreate(j, c) == jobs[j].row = c /\ jobs[j].action = "create"

\* A comment has at most one create job, its first one, which succeeds when it gets its id.
JobsOK ==
  /\ \A j \in DOMAIN jobs : row[jobs[j].row].state # "none"
  /\ \A j \in DOMAIN jobs : jobs[j].action = "create" =>
       /\ jobs[j].row \in Comments /\ row[jobs[j].row].file
       /\ jobs[j].status = "succeeded" <=> row[jobs[j].row].fid # NoFid
       /\ \A k \in DOMAIN jobs : jobs[k].row = jobs[j].row => j <= k
  /\ \A c \in Comments : row[c].fid # NoFid => \E j \in DOMAIN jobs : IsCreate(j, c)
  /\ Busy /\ Job.action # "create" => worker.fid = row[Job.row].fid
  /\ worker.pc = "answered" /\ Job.action = "create" =>
       remote[worker.fid].state # "none" /\ remote[worker.fid].of = Job.row

StoreInv == Typed /\ RowsOK /\ JobsOK

IsCopy(f, c) == remote[f].state # "none" /\ remote[f].of = c

\* A copy of a comment whose id is not lost is named by its row, or by the answer on its way.
CopyInv ==
  \A c \in Comments \ lost, f \in Fids : IsCopy(f, c) =>
    /\ row[f].state = "none"
    /\ row[c].fid = f \/ (worker.pc = "answered" /\ worker.fid = f /\ IsCreate(worker.job, c))

Sends(c) == Busy /\ Job.row = c /\ Job.action \in {"create", "update"}

\* A job other than the one in hand that will bring c's text.
AnotherUpdate(c) ==
  \E j \in DOMAIN jobs : j # worker.job /\ jobs[j].row = c /\ jobs[j].action = "update" /\ jobs[j].status # "succeeded"

TextOf(c) ==
  /\ row[c].fid # NoFid => remote[row[c].fid].text = row[c].text \/ OnRecord(c, "update")
  /\ Sends(c) => row[c].text = worker.text \/ AnotherUpdate(c)
  /\ Sends(c) /\ worker.pc = "answered" => remote[worker.fid].text = worker.text

\* The text of a comment is on Frame.io, or in the request under way, or another job will
\* bring it.
TextInv ==
  /\ \A j \in DOMAIN jobs : jobs[j].action = "update" => jobs[j].row \in Comments
  /\ \A c \in Comments \ touched : TextOf(c)

\* Job k was tried before, or its worker died.
Late(k) == jobs[k].tries > 0 \/ (jobs[k].status = "in_flight" /\ ~(Busy /\ worker.job = k))

\* A tick takes the untried jobs that are before a job it takes.
Before == \A j \in worker.batch, k \in DOMAIN jobs : k < j /\ Pending(k) /\ jobs[k].tries = 0 => k \in worker.batch

DeletionOf(c) ==
  row[c].state = "deleted" =>
    \/ OnRecord(c, "delete")
    \/ row[c].fid # NoFid /\ remote[row[c].fid].state = "deleted"
    \/ \A k \in DOMAIN jobs : IsCreate(k, c) => Late(k)

\* The deletion of a comment is on Frame.io, or a job will bring it, or its create was late.
DeleteInv ==
  /\ Before
  /\ worker.pc = "answered" /\ Job.action = "delete" => remote[worker.fid].state = "deleted"
  /\ \A c \in Comments : DeletionOf(c)

-----------------------------------------------------------------------------
(* The table of jobs. *)

LEMMA AnyTextIn == AnyText \in Texts
BY MirrorAssumption DEF AnyText

LEMMA RestingIn == Resting \in WorkerType
BY AnyTextIn DEF Resting, WorkerType

LEMMA SeqElement ==
  ASSUME NEW S, NEW q \in Seq(S), NEW i \in DOMAIN q
  PROVE  q[i] \in S
OBVIOUS

\* The jobs are numbered from one, and each has its type.
LEMMA JobsTyped ==
  ASSUME TypeOK
  PROVE  /\ DOMAIN jobs = 1..Len(jobs) /\ Len(jobs) \in Nat
         /\ \A j \in DOMAIN jobs : /\ jobs[j] \in JobType /\ jobs[j].row \in Rows
                                   /\ jobs[j].action \in Actions /\ jobs[j].status \in Statuses
                                   /\ jobs[j].tries \in 0..MaxTries
<1>1. jobs \in Seq(JobType)
  BY DEF TypeOK
<1>2. \A j \in DOMAIN jobs : jobs[j] \in JobType
  BY <1>1, SeqElement
<1> QED BY <1>1, <1>2 DEF JobType

\* An enqueue leaves every job as it is, adds at most one, and there is one waiting for it.
LEMMA EnqueueFacts ==
  ASSUME TypeOK, NEW r \in Rows, NEW a \in Actions, Enqueue(r, a)
  PROVE  /\ jobs' \in Seq(JobType)
         /\ \A j \in DOMAIN jobs : j \in DOMAIN jobs' /\ jobs'[j] = jobs[j]
         /\ \A j \in DOMAIN jobs' : j \in DOMAIN jobs \/ (j = Len(jobs) + 1 /\ jobs'[j] = NewJob(r, a))
         /\ \E j \in DOMAIN jobs' : jobs'[j].row = r /\ jobs'[j].action = a /\ jobs'[j].status = "pending"
<1>1. NewJob(r, a) \in JobType
  BY MirrorAssumption DEF NewJob, JobType, Statuses
<1>2. CASE \E j \in DOMAIN jobs : Waiting(j, r, a)
  BY <1>2 DEF Enqueue, Waiting, TypeOK
<1>3. CASE ~\E j \in DOMAIN jobs : Waiting(j, r, a)
  <2> DEFINE l == Len(jobs) + 1
  <2>1. jobs' = Append(jobs, NewJob(r, a)) /\ jobs \in Seq(JobType)
    BY <1>3 DEF Enqueue, TypeOK
  <2>2. l \in DOMAIN jobs' /\ jobs'[l] = NewJob(r, a)
    BY <2>1
  <2>3. jobs' \in Seq(JobType)
    BY <1>1, <2>1
  <2>4. /\ \A j \in DOMAIN jobs : j \in DOMAIN jobs' /\ jobs'[j] = jobs[j]
        /\ \A j \in DOMAIN jobs' : j \in DOMAIN jobs \/ j = l
    BY <2>1
  <2> QED BY <2>2, <2>3, <2>4 DEF NewJob
<1> QED BY <1>2, <1>3

LEMMA SetJobFacts ==
  ASSUME TypeOK, NEW j \in DOMAIN jobs, NEW job \in JobType, SetJob(j, job)
  PROVE  /\ jobs' \in Seq(JobType) /\ DOMAIN jobs' = DOMAIN jobs
         /\ jobs'[j] = job /\ \A k \in DOMAIN jobs : k # j => jobs'[k] = jobs[k]
BY DEF TypeOK, SetJob

LEMMA FailedFacts ==
  ASSUME NEW job \in JobType, job.tries < MaxTries
  PROVE  /\ Failed(job) \in JobType /\ Failed(job).row = job.row /\ Failed(job).action = job.action
         /\ Failed(job).tries = job.tries + 1
         /\ \/ Failed(job).status = "abandoned"
            \/ Failed(job).status = "pending" /\ Failed(job).tries < MaxTries
<1>1. job.tries \in 0..MaxTries /\ job.tries + 1 \in 0..MaxTries
  BY MirrorAssumption DEF JobType
<1>2. CASE job.tries + 1 < MaxTries
  <2>1. Failed(job) = [job EXCEPT !.tries = job.tries + 1, !.status = "pending"]
    BY <1>2 DEF Failed
  <2> QED BY <1>1, <1>2, <2>1 DEF JobType, Statuses
<1>3. CASE ~(job.tries + 1 < MaxTries)
  <2>1. Failed(job) = [job EXCEPT !.tries = job.tries + 1, !.status = "abandoned"]
    BY <1>3 DEF Failed
  <2> QED BY <1>1, <2>1 DEF JobType, Statuses
<1> QED BY <1>2, <1>3

-----------------------------------------------------------------------------
(* What the steps do. *)

\* What staff do to row r and to the queue.
Staffed(r) ==
  /\ row' \in [Rows -> RowType] /\ \A q \in Rows : q # r => row'[q] = row[q]
  /\ row'[r].state # "none"
  /\ IF row[r].state = "none"
     THEN r \in Comments /\ row'[r].fid = NoFid /\ row'[r].state = "live"
     ELSE row'[r].fid = row[r].fid /\ row'[r].file = row[r].file
  /\ \/ jobs' = jobs
     \/ \E a \in Actions :
          /\ Enqueue(r, a) /\ (a = "create" <=> row[r].state = "none") /\ (a = "create" => row'[r].file)
          /\ a = "update" => r \in Comments
  /\ row[r].state # "none" /\ row'[r].text # row[r].text => Enqueue(r, "update")
  /\ row'[r].state = "deleted" /\ row[r].state # "deleted" => Enqueue(r, "delete")

LEMMA StaffFacts ==
  ASSUME TypeOK, StaffStep
  PROVE  /\ \E r \in Rows : Staffed(r)
         /\ worker' = worker /\ remote' = remote /\ hooks' = hooks /\ pulled' = pulled /\ restarts' = restarts
         /\ steps' = steps + 1 /\ lost' = lost /\ touched' = touched
<1>1. OnlyLocal
  BY DEF StaffStep, PostComment, EditText, SetCompleted, SetCompletedQuietly, DeleteComment
<1>2. \E r \in Rows : Staffed(r)
  <2> USE DEF TypeOK, Rows
  <2>1. ASSUME NEW c \in Comments, NEW file \in BOOLEAN, NEW t \in Texts, PostComment(c, file, t)
        PROVE  Staffed(c)
    <3>1. row[c].state = "none" /\ row' = [row EXCEPT ![c] = [state |-> "live", fid |-> NoFid, file |-> file,
                                                            text |-> t, done |-> FALSE]]
      BY <2>1 DEF PostComment
    <3>2. row' \in [Rows -> RowType]
      BY <3>1 DEF RowType, States
    <3>3. jobs' = jobs \/ (file /\ Enqueue(c, "create"))
      BY <2>1 DEF PostComment
    <3> QED BY <3>1, <3>2, <3>3 DEF Staffed, Actions
  <2>2. ASSUME NEW c \in Comments, NEW t \in Texts, EditText(c, t) PROVE Staffed(c)
    <3>1. row[c].state # "none" /\ row' = [row EXCEPT ![c].text = t] /\ Enqueue(c, "update")
      BY <2>2 DEF EditText
    <3>2. row' \in [Rows -> RowType]
      BY <3>1 DEF RowType
    <3> QED BY <3>1, <3>2 DEF Staffed, Actions, RowType
  <2>3. ASSUME NEW r \in Rows, NEW b \in BOOLEAN, SetCompleted(r, b) PROVE Staffed(r)
    <3>1. /\ row[r].state # "none" /\ row' = [row EXCEPT ![r].done = b]
          /\ Enqueue(r, "complete") \/ Enqueue(r, "uncomplete")
      BY <2>3 DEF SetCompleted
    <3>2. row' \in [Rows -> RowType]
      BY <3>1 DEF RowType
    <3> QED BY <3>1, <3>2 DEF Staffed, Actions, RowType
  <2>4. ASSUME NEW r \in Rows, NEW b \in BOOLEAN, SetCompletedQuietly(r, b) PROVE Staffed(r)
    <3>1. row[r].state # "none" /\ row' = [row EXCEPT ![r].done = b] /\ jobs' = jobs
      BY <2>4 DEF SetCompletedQuietly
    <3>2. row' \in [Rows -> RowType]
      BY <3>1 DEF RowType
    <3> QED BY <3>1, <3>2 DEF Staffed, RowType
  <2>5. ASSUME NEW r \in Rows, DeleteComment(r) PROVE Staffed(r)
    <3>1. row[r].state # "none" /\ row' = [row EXCEPT ![r].state = "deleted"] /\ Enqueue(r, "delete")
      BY <2>5 DEF DeleteComment
    <3>2. row' \in [Rows -> RowType]
      BY <3>1 DEF RowType, States
    <3> QED BY <3>1, <3>2 DEF Staffed, Actions, RowType
  <2> QED BY <2>1, <2>2, <2>3, <2>4, <2>5 DEF StaffStep
<1> QED BY <1>1, <1>2 DEF OnlyLocal, Counted, ghosts

\* The jobs after a step of staff.
Grown == \A j \in DOMAIN jobs : j \in DOMAIN jobs' /\ jobs'[j] = jobs[j]

LEMMA StaffJobs ==
  ASSUME TypeOK, NEW r \in Rows, Staffed(r)
  PROVE  /\ jobs' \in Seq(JobType) /\ Grown
         /\ \A j \in DOMAIN jobs' : j \in DOMAIN jobs \/ (j = Len(jobs) + 1 /\ \E a \in Actions : jobs'[j] = NewJob(r, a))
<1>1. CASE jobs' = jobs
  BY <1>1 DEF Grown, TypeOK
<1>2. ASSUME NEW a \in Actions, Enqueue(r, a)
      PROVE  /\ jobs' \in Seq(JobType) /\ Grown
             /\ \A j \in DOMAIN jobs' :
                  j \in DOMAIN jobs \/ (j = Len(jobs) + 1 /\ \E b \in Actions : jobs'[j] = NewJob(r, b))
  BY <1>2, EnqueueFacts DEF Grown
<1> QED BY <1>1, <1>2 DEF Staffed

LEMMA AfterFacts ==
  ASSUME TypeOK, NEW j \in worker.batch
  PROVE  /\ After(j) \in WorkerType /\ After(j).pc \in {"idle", "picking"}
         /\ After(j).batch = worker.batch \ {j}
         /\ After(j).pc = "idle" => After(j).batch = {}
<1>1. CASE worker.batch = {j}
  BY <1>1, RestingIn DEF After, Resting
<1>2. CASE worker.batch # {j}
  <2>1. After(j) = [Resting EXCEPT !.pc = "picking", !.batch = worker.batch \ {j}]
    BY <1>2 DEF After
  <2>2. worker.batch \in SUBSET Nat
    BY DEF TypeOK, WorkerType
  <2> QED BY <2>1, <2>2, RestingIn DEF WorkerType
<1> QED BY <1>1, <1>2

\* A job leaves the worker's hands with status and tries as in new.
Left(j, new) ==
  /\ j \in worker.batch /\ (Busy <=> ~Pending(j)) /\ (Busy => j = worker.job)
  /\ new \in JobType /\ new.row = jobs[j].row /\ new.action = jobs[j].action
  /\ \/ new.status = "succeeded" /\ new.tries = jobs[j].tries
     \/ new.status = "abandoned" /\ new.tries = jobs[j].tries + 1
     \/ new.status = "pending" /\ new.tries = jobs[j].tries + 1 /\ new.tries < MaxTries
  /\ jobs' \in Seq(JobType) /\ DOMAIN jobs' = DOMAIN jobs
  /\ jobs'[j] = new /\ (\A k \in DOMAIN jobs : k # j => jobs'[k] = jobs[k])
  /\ worker' \in WorkerType /\ worker'.pc \in {"idle", "picking"} /\ worker'.batch = worker.batch \ {j}
  /\ worker'.pc = "idle" => worker'.batch = {}

LEMMA LeftSucceeded ==
  ASSUME Typed, NEW j \in worker.batch, Busy <=> ~Pending(j), Busy => j = worker.job,
         SetJob(j, Succeeded(jobs[j])), worker' = After(j)
  PROVE  Left(j, Succeeded(jobs[j]))
<1>1. j \in DOMAIN jobs /\ jobs[j] \in JobType
  BY JobsTyped DEF Typed, WorkerOK
<1>2. /\ Succeeded(jobs[j]) \in JobType /\ Succeeded(jobs[j]).row = jobs[j].row
      /\ Succeeded(jobs[j]).action = jobs[j].action /\ Succeeded(jobs[j]).status = "succeeded"
      /\ Succeeded(jobs[j]).tries = jobs[j].tries
  BY <1>1 DEF Succeeded, JobType, Statuses
<1> QED BY <1>1, <1>2, SetJobFacts, AfterFacts DEF Left, Typed

LEMMA LeftFailed ==
  ASSUME Typed, NEW j \in worker.batch, Busy <=> ~Pending(j), Busy => j = worker.job,
         SetJob(j, Failed(jobs[j])), worker' = After(j)
  PROVE  Left(j, Failed(jobs[j]))
<1>1. j \in DOMAIN jobs /\ jobs[j] \in JobType
  BY JobsTyped DEF Typed, WorkerOK
<1>2. jobs[j].tries < MaxTries
  BY <1>1 DEF Typed, WorkerOK, Pending, Job
<1> QED BY <1>1, <1>2, FailedFacts, SetJobFacts, AfterFacts DEF Left, Typed

LEMMA NextFacts ==
  ASSUME Typed, NEW j, IsNext(j)
  PROVE  j \in worker.batch /\ j \in DOMAIN jobs /\ ~Busy /\ Pending(j) /\ jobs[j] \in JobType
<1>1. j \in worker.batch /\ ~Busy
  BY DEF IsNext, Busy
<1> QED BY <1>1, JobsTyped DEF Typed, WorkerOK

LEMMA BusyFacts ==
  ASSUME Typed, Busy
  PROVE  worker.job \in worker.batch /\ worker.job \in DOMAIN jobs /\ ~Pending(worker.job) /\ jobs[worker.job] \in JobType
<1>1. worker.job \in worker.batch /\ Job.status = "in_flight"
  BY DEF Typed, WorkerOK
<1> QED BY <1>1, JobsTyped DEF Typed, WorkerOK, Pending, Job

LEMMA PassFacts == ASSUME Typed, NEW j, Pass(j) PROVE Left(j, Succeeded(jobs[j]))
BY NextFacts, LeftSucceeded DEF Pass

LEMMA DeferFacts == ASSUME Typed, NEW j, Defer(j) PROVE Left(j, Failed(jobs[j]))
BY NextFacts, LeftFailed DEF Defer

LEMMA RefusedFacts == ASSUME Typed, Refused PROVE Left(worker.job, Failed(Job))
<1>1. Busy
  BY DEF Refused, Busy
<1> QED BY <1>1, BusyFacts, LeftFailed DEF Refused, Job

LEMMA AnsweredFacts == ASSUME Typed, Answered PROVE Left(worker.job, Succeeded(Job))
<1>1. Busy
  BY DEF Answered, Busy
<1> QED BY <1>1, BusyFacts, LeftSucceeded DEF Answered, Job

LEMMA AnswerLostFacts == ASSUME Typed, AnswerLost PROVE Left(worker.job, Failed(Job))
<1>1. Busy
  BY DEF AnswerLost, Busy
<1> QED BY <1>1, BusyFacts, LeftFailed DEF AnswerLost, Job

LEMMA LeftTyped ==
  ASSUME Typed, NEW j, NEW new, Left(j, new)
  PROVE  WorkerOK' /\ ~Busy' /\ jobs' \in Seq(JobType) /\ worker' \in WorkerType
<1>1. j \in DOMAIN jobs /\ \A k \in DOMAIN jobs : jobs[k].tries \in 0..MaxTries
  BY JobsTyped DEF Left, Typed, WorkerOK
<1>2. ~Busy'
  BY DEF Left, Busy
<1>3. worker'.batch \subseteq DOMAIN jobs' /\ (worker'.pc = "idle" => worker'.batch = {})
  BY DEF Left, Typed, WorkerOK
<1>4. \A k \in worker'.batch : Pending(k)'
  BY DEF Left, Typed, WorkerOK, Pending
<1>5. \A k \in DOMAIN jobs' : jobs'[k].status \in {"pending", "in_flight"} => jobs'[k].tries < MaxTries
  BY <1>1 DEF Left, Typed, WorkerOK
<1>6. \A k \in DOMAIN jobs' : jobs'[k].status = "abandoned" => jobs'[k].tries > 0
  BY <1>1 DEF Left, Typed, WorkerOK
<1> QED BY <1>2, <1>3, <1>4, <1>5, <1>6 DEF WorkerOK, Left, Busy

\* A request is sent.
LEMMA AskFacts ==
  ASSUME Typed, NEW j, Ask(j)
  PROVE  /\ j \in worker.batch /\ j \in DOMAIN jobs /\ Pending(j) /\ ~Busy
         /\ jobs' \in Seq(JobType) /\ DOMAIN jobs' = DOMAIN jobs
         /\ jobs'[j] = [jobs[j] EXCEPT !.status = "in_flight"]
         /\ \A k \in DOMAIN jobs : k # j => jobs'[k] = jobs[k]
         /\ worker' \in WorkerType /\ worker'.pc = "asked" /\ worker'.batch = worker.batch /\ worker'.job = j
         /\ worker'.text = Subject(j).text /\ worker'.fid = Subject(j).fid
         /\ jobs[j].action # "create" => Subject(j).fid # NoFid
<1>1. j \in worker.batch /\ j \in DOMAIN jobs /\ ~Busy /\ Pending(j) /\ jobs[j] \in JobType
  BY NextFacts DEF Ask
<1>2. InFlight(jobs[j]) \in JobType /\ InFlight(jobs[j]) = [jobs[j] EXCEPT !.status = "in_flight"]
  BY <1>1 DEF InFlight, JobType, Statuses
<1>3. Subject(j) \in RowType
  BY <1>1, JobsTyped DEF Subject, Typed, TypeOK
<1>4. /\ worker' \in WorkerType /\ worker'.pc = "asked" /\ worker'.batch = worker.batch /\ worker'.job = j
      /\ worker'.text = Subject(j).text /\ worker'.fid = Subject(j).fid
  <2>1. worker \in WorkerType /\ j \in Nat
    BY <1>1 DEF Typed, TypeOK, WorkerType
  <2> QED BY <1>3, <2>1 DEF Ask, WorkerType, RowType
<1>5. jobs[j].action # "create" => Subject(j).fid # NoFid
  BY DEF Ask, NothingToDo, TooEarly
<1> QED BY <1>1, <1>2, <1>4, <1>5, SetJobFacts DEF Ask, Typed

LEMMA AskTyped ==
  ASSUME Typed, NEW j, Ask(j)
  PROVE  WorkerOK' /\ jobs' \in Seq(JobType) /\ worker' \in WorkerType
<1>0. /\ DOMAIN jobs' = DOMAIN jobs
      /\ \A i \in DOMAIN jobs : i # j => jobs'[i] = jobs[i]
  <2>1. DOMAIN jobs' = DOMAIN jobs
    BY AskFacts
  <2>2. \A i \in DOMAIN jobs : i # j => jobs'[i] = jobs[i]
    BY AskFacts DEF Ask, SetJob
  <2> QED BY <2>1, <2>2
<1>1. /\ jobs'[j].status = "in_flight" /\ jobs'[j].action = jobs[j].action
      /\ jobs'[j].tries = jobs[j].tries /\ jobs[j].status = "pending" /\ j \in DOMAIN jobs
  <2>1. jobs[j] \in JobType /\ jobs[j].status = "pending"
    BY NextFacts DEF Ask, Pending
  <2>2. jobs'[j] = [jobs[j] EXCEPT !.status = "in_flight"] /\ j \in DOMAIN jobs
    BY AskFacts
  <2> QED BY <2>1, <2>2 DEF JobType
<1>2. Busy' /\ Job' = jobs'[j]
  BY AskFacts DEF Busy, Job
<1>3. worker'.batch \subseteq DOMAIN jobs' /\ \A k \in worker'.batch : Pending(k)' \/ k = worker'.job
  BY AskFacts DEF Typed, WorkerOK, Pending
<1>4. Job'.action # "create" => worker'.fid \in Fids
  <2>1. Subject(j).fid \in Fids \cup {NoFid}
    BY AskFacts, JobsTyped DEF Subject, Typed, TypeOK, RowType
  <2> QED BY <1>1, <1>2, <2>1, AskFacts
<1>5. ASSUME NEW k \in DOMAIN jobs'
      PROVE  /\ jobs'[k].status \in {"pending", "in_flight"} => jobs'[k].tries < MaxTries
             /\ jobs'[k].status = "abandoned" => jobs'[k].tries > 0
  <2>1. CASE k = j
    BY <1>1, <2>1 DEF Typed, WorkerOK
  <2>2. CASE k # j
    <3>1. k \in DOMAIN jobs /\ jobs'[k] = jobs[k]
      BY <1>0, <1>5, <2>2
    <3> QED BY <3>1 DEF Typed, WorkerOK
  <2> QED BY <2>1, <2>2
<1> QED BY <1>1, <1>2, <1>3, <1>4, <1>5, AskFacts DEF WorkerOK

-----------------------------------------------------------------------------
(* Frame.io *)

\* Comments on Frame.io stay, keep their author, and stay deleted.
RemoteGrows ==
  /\ remote' \in [Fids -> RemoteType]
  /\ \A f \in Fids : remote[f].state # "none" =>
       /\ remote'[f].state # "none" /\ remote'[f].of = remote[f].of
       /\ remote[f].state = "deleted" => remote'[f] = remote[f]

\* Events are of comments that are there, and "deleted" is said of deleted ones.
HooksTrue ==
  /\ hooks' \subseteq [kind : Kinds, fid : Fids, text : Texts]
  /\ \A e \in hooks' : e \in hooks \/ (/\ remote'[e.fid].state # "none"
                                       /\ e.kind = "deleted" => remote'[e.fid].state = "deleted")

LEMMA MadeFacts ==
  ASSUME TypeOK, NEW f \in Fids, NEW c \in Comments \cup {Author}, NEW t \in Texts, Made(f, c, t)
  PROVE  /\ RemoteGrows /\ HooksTrue
         /\ remote[f].state = "none" /\ remote' = [remote EXCEPT ![f] = [state |-> "live", text |-> t,
                                                                        done |-> FALSE, of |-> c]]
<1>1. remote[f].state = "none" /\ remote' = [remote EXCEPT ![f] = [state |-> "live", text |-> t,
                                                                  done |-> FALSE, of |-> c]]
  BY DEF Made, NextFid
<1>2. RemoteGrows
  BY <1>1 DEF RemoteGrows, TypeOK, RemoteType, States
<1>3. HooksTrue
  <2>1. remote'[f].state = "live"
    BY <1>1 DEF TypeOK
  <2> QED BY <2>1 DEF HooksTrue, Made, Notify, TypeOK, Kinds
<1> QED BY <1>1, <1>2, <1>3

LEMMA ChangedFacts ==
  ASSUME TypeOK, NEW f \in Fids, NEW kind \in Kinds, NEW new \in RemoteType, Changed(f, kind, new),
         new.of = remote[f].of, new.state \in {"live", "deleted"}, kind = "deleted" => new.state = "deleted"
  PROVE  RemoteGrows /\ HooksTrue /\ remote[f].state = "live" /\ remote' = [remote EXCEPT ![f] = new]
<1>1. remote[f].state = "live" /\ remote' = [remote EXCEPT ![f] = new]
  BY DEF Changed
<1>2. RemoteGrows
  BY <1>1 DEF RemoteGrows, TypeOK
<1>3. HooksTrue
  BY <1>1 DEF HooksTrue, Changed, Notify, TypeOK, RemoteType
<1> QED BY <1>1, <1>2, <1>3

LEMMA RetextedFacts ==
  ASSUME TypeOK, NEW f \in Fids, NEW t \in Texts, Retexted(f, t)
  PROVE  RemoteGrows /\ HooksTrue /\ remote[f].state = "live" /\ remote' = [remote EXCEPT ![f].text = t]
<1>1. remote[f] \in RemoteType /\ remote[f].state = "live"
  BY DEF Retexted, Changed, TypeOK
<1>2. [remote[f] EXCEPT !.text = t] \in RemoteType
  BY <1>1 DEF RemoteType
<1> QED BY <1>1, <1>2, ChangedFacts DEF Retexted, RemoteType, Kinds, TypeOK

LEMMA TickedFacts ==
  ASSUME TypeOK, NEW f \in Fids, NEW b \in BOOLEAN, Ticked(f, b)
  PROVE  RemoteGrows /\ HooksTrue /\ remote[f].state = "live" /\ remote' = [remote EXCEPT ![f].done = b]
<1>1. remote[f] \in RemoteType /\ remote[f].state = "live"
  BY DEF Ticked, Changed, TypeOK
<1>2. [remote[f] EXCEPT !.done = b] \in RemoteType
  BY <1>1 DEF RemoteType
<1> QED BY <1>1, <1>2, ChangedFacts DEF Ticked, RemoteType, Kinds, TypeOK

LEMMA ErasedFacts ==
  ASSUME TypeOK, NEW f \in Fids, Erased(f)
  PROVE  RemoteGrows /\ HooksTrue /\ remote[f].state = "live" /\ remote' = [remote EXCEPT ![f].state = "deleted"]
<1>1. remote[f] \in RemoteType /\ remote[f].state = "live"
  BY DEF Erased, Changed, TypeOK
<1>2. [remote[f] EXCEPT !.state = "deleted"] \in RemoteType
  BY <1>1 DEF RemoteType, States
<1> QED BY <1>1, <1>2, ChangedFacts DEF Erased, RemoteType, Kinds, TypeOK

-----------------------------------------------------------------------------
(* What events and pulls do to the rows. *)

\* Rows of unknown comments of S appear; an answer that such a row overtakes loses its id.
Imports(S) ==
  /\ row' \in [Rows -> RowType]
  /\ \A r \in Rows : row'[r] = row[r] \/ (/\ r \in Fids /\ ~HasRow(r) /\ \E x \in S : x.fid = r
                                         /\ row'[r].fid = r /\ row'[r].state = "live")
  /\ lost \subseteq lost' /\ lost' \subseteq Comments
  /\ worker.pc = "answered" => lost' = lost \cup OwnerOf(worker.fid) \/ row'[worker.fid] = row[worker.fid]

LEMMA InsertFacts ==
  ASSUME Typed, NEW S \in SUBSET [fid : Fids, text : Texts, done : BOOLEAN], Insert(S)
  PROVE  Imports(S)
<1> DEFINE new == {x \in S : ~HasRow(x.fid)}
           It(r) == CHOOSE x \in new : x.fid = r
<1>1. row' = [r \in Rows |-> IF \E x \in new : x.fid = r THEN Imported(r, It(r).text, It(r).done) ELSE row[r]]
  BY DEF Insert
<1>2. ASSUME NEW r \in Rows
      PROVE  \/ row'[r] = row[r]
             \/ /\ r \in Fids /\ ~HasRow(r) /\ \E x \in S : x.fid = r
                /\ row'[r] \in RowType /\ row'[r].fid = r /\ row'[r].state = "live"
  <2>1. CASE \E x \in new : x.fid = r
    <3>1. It(r) \in new /\ It(r).fid = r
      BY <2>1
    <3>2. It(r).text \in Texts /\ It(r).done \in BOOLEAN /\ r \in Fids /\ ~HasRow(r)
      BY <3>1
    <3>3. row'[r] = Imported(r, It(r).text, It(r).done)
      BY <1>1, <2>1
    <3> HIDE DEF It
    <3>4. row'[r] \in RowType /\ row'[r].fid = r /\ row'[r].state = "live"
      BY <3>2, <3>3 DEF Imported, RowType, States
    <3> QED BY <2>1, <3>2, <3>4
  <2>2. CASE ~\E x \in new : x.fid = r
    BY <1>1, <2>2
  <2> QED BY <2>1, <2>2
<1>3. row' \in [Rows -> RowType]
  <2>1. DOMAIN row' = Rows /\ row' = [r \in Rows |-> row'[r]]
    BY <1>1
  <2>2. \A r \in Rows : row'[r] \in RowType
    BY <1>2 DEF Typed, TypeOK
  <2> QED BY <2>1, <2>2
<1>4. lost \subseteq lost' /\ lost' \subseteq Comments
  BY DEF Insert, OwnerOf, Typed, TypeOK
<1>5. ASSUME worker.pc = "answered"
      PROVE  lost' = lost \cup OwnerOf(worker.fid) \/ row'[worker.fid] = row[worker.fid]
  <2>1. CASE \E x \in new : x.fid = worker.fid
    BY <1>5, <2>1 DEF Insert
  <2>2. CASE ~\E x \in new : x.fid = worker.fid
    <3>1. worker.fid \in Rows
      BY <1>5 DEF Typed, WorkerOK, Rows
    <3> QED BY <1>1, <2>2, <3>1
  <2> QED BY <2>1, <2>2
<1> QED BY <1>2, <1>3, <1>4, <1>5 DEF Imports

\* Rows of comment f change, but not their names.
Marks(f) ==
  /\ row' \in [Rows -> RowType]
  /\ \A r \in Rows : row[r].fid # f => row'[r] = row[r]
  /\ \A r \in Rows : row'[r].fid = row[r].fid /\ row'[r].file = row[r].file

LEMMA MarkFacts ==
  ASSUME TypeOK, NEW f \in Fids
  PROVE  /\ \A t \in Texts : SetText(f, t) => Marks(f) /\ \A r \in Rows : row'[r].state = row[r].state
         /\ \A b \in BOOLEAN : SetDone(f, b) =>
              Marks(f) /\ \A r \in Rows : row'[r].state = row[r].state /\ row'[r].text = row[r].text
         /\ SetDeleted(f) =>
              /\ Marks(f) /\ \A r \in Rows : row'[r].text = row[r].text
              /\ \A r \in Rows : row[r].fid = f => row'[r].state = "deleted"
<1>1. \A r \in Rows : row[r] \in RowType
  BY DEF TypeOK
<1>2. ASSUME NEW t \in Texts, SetText(f, t) PROVE Marks(f) /\ \A r \in Rows : row'[r].state = row[r].state
  BY <1>1, <1>2 DEF SetText, Marks, RowType
<1>3. ASSUME NEW b \in BOOLEAN, SetDone(f, b)
      PROVE  Marks(f) /\ \A r \in Rows : row'[r].state = row[r].state /\ row'[r].text = row[r].text
  BY <1>1, <1>3 DEF SetDone, Marks, RowType
<1>4. ASSUME SetDeleted(f)
      PROVE  /\ Marks(f) /\ \A r \in Rows : row'[r].text = row[r].text
             /\ \A r \in Rows : row[r].fid = f => row'[r].state = "deleted"
  BY <1>1, <1>4 DEF SetDeleted, Marks, RowType, States
<1> QED BY <1>2, <1>3, <1>4

\* What an event does, by kind.
LEMMA WebhookFacts ==
  ASSUME Typed, NEW e \in hooks, Webhook(e)
  PROVE  /\ e \in [kind : Kinds, fid : Fids, text : Texts] /\ hooks' \subseteq hooks
         /\ UNCHANGED <<jobs, worker, remote, pulled, restarts, steps>>
         /\ \/ /\ e.kind = "created" /\ Imports({[fid |-> e.fid, text |-> e.text, done |-> FALSE]})
               /\ touched' = touched
            \/ /\ e.kind # "created" /\ Marks(e.fid) /\ lost' = lost
               /\ \A r \in Rows : row'[r].state = row[r].state \/ (e.kind = "deleted" /\ row'[r].state = "deleted")
               /\ \/ touched' = touched /\ \A r \in Rows : row'[r].text = row[r].text
                  \/ touched' = touched \cup (RowsOf(e.fid) \cap Comments)
<1>1. e \in [kind : Kinds, fid : Fids, text : Texts] /\ hooks' \subseteq hooks
  BY DEF Webhook, Typed, TypeOK
<1>2. UNCHANGED <<jobs, worker, remote, pulled, restarts, steps>>
  BY DEF Webhook, counts
<1>3. e.fid \in Fids /\ e.text \in Texts
  BY <1>1
<1>4. CASE e.kind = "created" /\ Insert({[fid |-> e.fid, text |-> e.text, done |-> FALSE]}) /\ UNCHANGED touched
  <2> DEFINE S == {[fid |-> e.fid, text |-> e.text, done |-> FALSE]}
  <2>1. S \in SUBSET [fid : Fids, text : Texts, done : BOOLEAN]
    BY <1>3
  <2>2. Insert(S)
    BY <1>4
  <2> HIDE DEF S
  <2>3. Imports(S)
    BY <2>1, <2>2, InsertFacts
  <2> USE DEF S
  <2> QED BY <1>1, <1>2, <1>4, <2>3
<1>5. CASE /\ e.kind = "updated" /\ SetText(e.fid, e.text)
           /\ touched' = touched \cup (RowsOf(e.fid) \cap Comments) /\ UNCHANGED lost
  BY <1>1, <1>2, <1>3, <1>5, MarkFacts DEF Typed
<1>6. CASE \E b \in BOOLEAN : e.kind \in {"completed", "uncompleted"} /\ SetDone(e.fid, b) /\ UNCHANGED ghosts
  BY <1>1, <1>2, <1>3, <1>6, MarkFacts DEF Typed, ghosts
<1>7. CASE e.kind = "deleted" /\ SetDeleted(e.fid) /\ UNCHANGED ghosts
  <2>1. Marks(e.fid) /\ (\A r \in Rows : row'[r].text = row[r].text) /\ lost' = lost /\ touched' = touched
    BY <1>3, <1>7, MarkFacts DEF Typed, ghosts
  <2>2. \A r \in Rows : row'[r].state = row[r].state \/ row'[r].state = "deleted"
    BY <1>3, <1>7, MarkFacts DEF Typed, Marks
  <2> QED BY <1>1, <1>2, <1>7, <2>1, <2>2
<1> QED BY <1>4, <1>5, <1>6, <1>7 DEF Webhook

-----------------------------------------------------------------------------
(* The types and the worker's batch. *)

LEMMA TypedInit == Init => Typed
<1> SUFFICES ASSUME Init PROVE Typed
  OBVIOUS
<1>1. row \in [Rows -> RowType] /\ remote \in [Fids -> RemoteType]
  BY AnyTextIn DEF Init, NoRow, RowType, RemoteType, States
<1>2. jobs \in Seq(JobType) /\ DOMAIN jobs = {}
  BY DEF Init
<1>3. WorkerOK
  BY <1>2 DEF Init, WorkerOK, Resting, Busy
<1> QED BY <1>1, <1>2, <1>3, RestingIn DEF Init, Typed, TypeOK

LEMMA OutsideType ==
  ASSUME Typed
  PROVE  /\ \A r \in Rows : Staffed(r) => row' \in [Rows -> RowType]
         /\ \A S : Imports(S) => row' \in [Rows -> RowType] /\ lost' \subseteq Comments
         /\ \A f : Marks(f) => row' \in [Rows -> RowType]
BY DEF Staffed, Imports, Marks

LEMMA StaffTyped == ASSUME Typed, StaffStep PROVE Typed'
<1>1. PICK r \in Rows : Staffed(r)
  BY StaffFacts DEF Typed
<1>2. /\ worker' = worker /\ remote' = remote /\ hooks' = hooks /\ pulled' = pulled /\ restarts' = restarts
      /\ steps' = steps + 1 /\ lost' = lost /\ touched' = touched
  BY StaffFacts DEF Typed
<1>3. TypeOK'
  BY <1>1, <1>2, StaffJobs, OutsideType DEF Typed, TypeOK
<1>4. WorkerOK'
  <2>1. \A j \in DOMAIN jobs : j \in DOMAIN jobs' /\ jobs'[j] = jobs[j]
    BY <1>1, StaffJobs DEF Typed, Grown
  <2>2. \A j \in DOMAIN jobs' : j \in DOMAIN jobs \/ (jobs'[j].status = "pending" /\ jobs'[j].tries = 0)
    BY <1>1, StaffJobs DEF Typed, NewJob
  <2>3. /\ worker'.batch \subseteq DOMAIN jobs' /\ (worker'.pc = "idle" => worker'.batch = {})
        /\ Busy' => worker'.job \in worker'.batch /\ Job'.status = "in_flight"
        /\ Busy' /\ Job'.action # "create" => worker'.fid \in Fids
        /\ worker'.pc = "answered" => worker'.fid \in Fids
    BY <1>2, <2>1 DEF Typed, WorkerOK, Busy, Job
  <2>4. \A j \in worker'.batch : Pending(j)' \/ (Busy' /\ j = worker'.job)
    BY <1>2, <2>1 DEF Typed, WorkerOK, Busy, Pending
  <2>5. ASSUME NEW j \in DOMAIN jobs'
        PROVE  /\ jobs'[j].status \in {"pending", "in_flight"} => jobs'[j].tries < MaxTries
               /\ jobs'[j].status = "abandoned" => jobs'[j].tries > 0
    <3>1. CASE j \in DOMAIN jobs
      BY <2>1, <3>1 DEF Typed, WorkerOK
    <3>2. CASE j \notin DOMAIN jobs
      BY <2>2, <2>5, <3>2, MirrorAssumption
    <3> QED BY <3>1, <3>2
  <2> QED BY <2>3, <2>4, <2>5 DEF WorkerOK
<1> QED BY <1>3, <1>4 DEF Typed

\* A tick takes jobs that wait.
LEMMA TickFacts ==
  ASSUME Typed, NEW D, Tick(D)
  PROVE  /\ worker' \in WorkerType /\ worker'.pc = "picking" /\ worker.pc = "idle"
         /\ \A j \in worker'.batch : j \in DOMAIN jobs /\ Pending(j)
         /\ worker'.batch = Oldest({j \in DOMAIN jobs : Pending(j) /\ (jobs[j].tries = 0 \/ j \in D)}, BatchSize)
         /\ UNCHANGED <<row, jobs, remote, hooks, pulled, restarts, steps, lost, touched>>
<1> DEFINE B == Oldest({j \in DOMAIN jobs : Pending(j) /\ (jobs[j].tries = 0 \/ j \in D)}, BatchSize)
<1>1. worker' = [Resting EXCEPT !.pc = "picking", !.batch = B] /\ worker.pc = "idle"
  BY DEF Tick
<1>2. \A j \in B : j \in DOMAIN jobs /\ Pending(j)
  BY DEF Oldest
<1>3. B \subseteq Nat
  BY <1>2, JobsTyped DEF Typed
<1> HIDE DEF B
<1>4. worker' \in WorkerType /\ worker'.pc = "picking" /\ worker'.batch = B
  BY <1>1, <1>3, RestingIn DEF WorkerType
<1>5. UNCHANGED <<row, jobs, remote, hooks, pulled, restarts, steps, lost, touched>>
  BY DEF Tick, local, counts, ghosts
<1> QED BY <1>1, <1>2, <1>4, <1>5 DEF B

LEMMA TickTyped == ASSUME Typed, NEW D, Tick(D) PROVE Typed'
<1>1. TypeOK'
  BY TickFacts DEF Typed, TypeOK
<1>2. WorkerOK'
  <2>1. ~Busy' /\ jobs' = jobs /\ worker'.pc = "picking" /\ \A j \in worker'.batch : j \in DOMAIN jobs /\ Pending(j)
    BY TickFacts DEF Busy
  <2> QED BY <2>1 DEF Typed, WorkerOK, Pending, Busy
<1> QED BY <1>1, <1>2 DEF Typed

\* The worker and its jobs are as they were.
LEMMA IdleWorkerOK == ASSUME Typed, jobs' = jobs, worker' = worker PROVE WorkerOK'
BY DEF Typed, WorkerOK, Busy, Job, Pending

LEMMA JobLeaves ==
  ASSUME Typed, NEW j, NEW new, Left(j, new), row' \in [Rows -> RowType], lost' \subseteq Comments,
         UNCHANGED <<remote, hooks, pulled, restarts, steps, touched>>
  PROVE  Typed'
BY LeftTyped DEF Typed, TypeOK

LEMMA ProcessTyped == ASSUME Typed, NEW j \in worker.batch, Process(j) PROVE Typed'
<1>1. UNCHANGED <<row, remote, hooks, pulled, restarts, steps, lost, touched>>
  BY DEF Process, counts, ghosts
<1>2. CASE Pass(j)
  BY <1>1, <1>2, PassFacts, JobLeaves DEF Typed, TypeOK
<1>3. CASE Defer(j)
  BY <1>1, <1>3, DeferFacts, JobLeaves DEF Typed, TypeOK
<1>4. CASE Ask(j)
  BY <1>1, <1>4, AskTyped DEF Typed, TypeOK
<1> QED BY <1>2, <1>3, <1>4 DEF Process

LEMMA RefusedTyped == ASSUME Typed, Refused PROVE Typed'
<1>1. UNCHANGED <<row, remote, hooks, pulled, restarts, steps, lost, touched>>
  BY DEF Refused, counts, ghosts
<1> QED BY <1>1, RefusedFacts, JobLeaves DEF Typed, TypeOK

\* An answer names the row of a comment whose create it answers, and changes no other.
Names(c, f) ==
  /\ row' \in [Rows -> RowType] /\ \A r \in Rows : r # c => row'[r] = row[r]
  /\ row'[c] = row[c] \/ (row[c].fid = NoFid /\ row'[c] = [row[c] EXCEPT !.fid = f])
  /\ row'[c].fid # NoFid

LEMMA AnsweredNames ==
  ASSUME Typed, Answered
  PROVE  /\ UNCHANGED <<remote, hooks, pulled, restarts, steps, lost, touched>>
         /\ Job.row \in Rows /\ worker.fid \in Fids /\ worker.pc = "answered" /\ Busy
         /\ Job.action = "create" => Names(Job.row, worker.fid) /\ RowsOf(worker.fid) \subseteq {Job.row}
         /\ Job.action # "create" => row' = row
<1>1. UNCHANGED <<remote, hooks, pulled, restarts, steps, lost, touched>>
  BY DEF Answered, counts, ghosts
<1>2. Busy /\ worker.pc = "answered" /\ worker.fid \in Fids
  BY DEF Answered, Busy, Typed, WorkerOK
<1>3. Job.row \in Rows
  BY <1>2, BusyFacts, JobsTyped DEF Job, Typed
<1>4. ASSUME Job.action = "create" PROVE Names(Job.row, worker.fid) /\ RowsOf(worker.fid) \subseteq {Job.row}
  <2>1. row' = Tethered(Job.row, worker.fid) /\ RowsOf(worker.fid) \subseteq {Job.row}
    BY <1>4 DEF Answered, Taken
  <2>2. worker.fid # NoFid /\ row[Job.row] \in RowType
    BY <1>2, <1>3 DEF Typed, TypeOK, Fids, NoFid
  <2>3. CASE row[Job.row].fid = NoFid
    <3>1. row' = [row EXCEPT ![Job.row].fid = worker.fid]
      BY <2>1, <2>3 DEF Tethered
    <3>2. [row[Job.row] EXCEPT !.fid = worker.fid] \in RowType
      BY <1>2, <2>2 DEF RowType
    <3>3. row' \in [Rows -> RowType]
      BY <3>1, <3>2 DEF Typed, TypeOK
    <3>4. row'[Job.row] = [row[Job.row] EXCEPT !.fid = worker.fid] /\ \A r \in Rows : r # Job.row => row'[r] = row[r]
      BY <1>3, <3>1 DEF Typed, TypeOK
    <3>5. row'[Job.row].fid = worker.fid
      BY <2>2, <3>4 DEF RowType
    <3> QED BY <2>1, <2>2, <2>3, <3>3, <3>4, <3>5 DEF Names
  <2>4. CASE row[Job.row].fid # NoFid
    BY <2>1, <2>2, <2>4 DEF Tethered, Names, Typed, TypeOK
  <2> QED BY <2>3, <2>4
<1>5. Job.action # "create" => row' = row
  BY DEF Answered
<1> QED BY <1>1, <1>2, <1>3, <1>4, <1>5

LEMMA AnsweredTyped == ASSUME Typed, Answered PROVE Typed'
<1>1. row' \in [Rows -> RowType] /\ lost' \subseteq Comments
  BY AnsweredNames DEF Names, Typed, TypeOK
<1> QED BY <1>1, AnsweredNames, AnsweredFacts, JobLeaves

LEMMA AnswerLostTyped == ASSUME Typed, JobsOK, AnswerLost PROVE Typed'
<1>1. UNCHANGED <<row, remote, hooks, pulled, restarts, steps, touched>>
  BY DEF AnswerLost, counts
<1>2. lost' \subseteq Comments
  <2>1. Busy /\ worker.job \in DOMAIN jobs
    BY BusyFacts DEF AnswerLost, Busy
  <2> QED BY <2>1 DEF AnswerLost, JobsOK, Job, Typed, TypeOK
<1> QED BY <1>1, <1>2, AnswerLostFacts, JobLeaves DEF Typed, TypeOK

\* What Frame.io does for the worker.
Obeyed ==
  /\ RemoteGrows /\ HooksTrue /\ UNCHANGED <<row, jobs, pulled, restarts, steps, lost, touched>>
  /\ worker.pc = "asked" /\ worker' \in WorkerType /\ worker'.pc = "answered"
  /\ worker'.batch = worker.batch /\ worker'.job = worker.job /\ worker'.text = worker.text /\ worker'.fid \in Fids
  /\ \A f \in Fids : f # worker'.fid => remote'[f] = remote[f]
  /\ IF Job.action = "create"
     THEN /\ remote[worker'.fid].state = "none"
          /\ remote'[worker'.fid] = [state |-> "live", text |-> worker.text, done |-> FALSE, of |-> Job.row]
     ELSE /\ worker'.fid = worker.fid /\ remote[worker.fid].state = "live"
          /\ remote'[worker.fid].text = IF Job.action = "update" THEN worker.text ELSE remote[worker.fid].text
          /\ Job.action = "delete" => remote'[worker.fid].state = "deleted"

LEMMA ObeyFacts == ASSUME Typed, JobsOK, Obey PROVE Obeyed
<1>1. /\ UNCHANGED <<row, jobs, pulled, restarts, steps, lost, touched>> /\ worker.pc = "asked" /\ Busy
      /\ worker \in WorkerType /\ worker.text \in Texts
  BY DEF Obey, local, counts, ghosts, Busy, Typed, TypeOK, WorkerType
<1>2. worker.job \in DOMAIN jobs
  BY <1>1, BusyFacts
<1>3. CASE Job.action = "create"
  <2>1. PICK f \in Fids : Made(f, Job.row, worker.text) /\ worker' = [worker EXCEPT !.pc = "answered", !.fid = f]
    BY <1>3 DEF Obey
  <2>2. Job.row \in Comments
    BY <1>2, <1>3 DEF JobsOK, Job
  <2>3. /\ RemoteGrows /\ HooksTrue /\ remote[f].state = "none"
        /\ remote' = [remote EXCEPT ![f] = [state |-> "live", text |-> worker.text, done |-> FALSE, of |-> Job.row]]
    BY <1>1, <2>1, <2>2, MadeFacts DEF Typed
  <2>4. /\ worker' \in WorkerType /\ worker'.pc = "answered" /\ worker'.fid = f
        /\ worker'.batch = worker.batch /\ worker'.job = worker.job /\ worker'.text = worker.text
    BY <1>1, <2>1 DEF WorkerType
  <2>5. remote'[f] = [state |-> "live", text |-> worker.text, done |-> FALSE, of |-> Job.row]
        /\ \A g \in Fids : g # f => remote'[g] = remote[g]
    BY <2>3 DEF Typed, TypeOK
  <2> QED BY <1>1, <1>3, <2>3, <2>4, <2>5 DEF Obeyed
<1>4. CASE Job.action # "create"
  <2> DEFINE f == worker.fid
  <2>1. f \in Fids
    BY <1>1, <1>4 DEF Typed, WorkerOK
  <2>2. /\ worker' = [worker EXCEPT !.pc = "answered"]
        /\ \/ Job.action = "update" /\ Retexted(f, worker.text)
           \/ \E b \in BOOLEAN : Job.action \in {"complete", "uncomplete"} /\ Ticked(f, b)
           \/ Job.action = "delete" /\ Erased(f)
    BY <1>4 DEF Obey
  <2>3. /\ worker' \in WorkerType /\ worker'.pc = "answered" /\ worker'.fid = f
        /\ worker'.batch = worker.batch /\ worker'.job = worker.job /\ worker'.text = worker.text
    BY <1>1, <2>2 DEF WorkerType
  <2>4. /\ RemoteGrows /\ HooksTrue /\ remote[f].state = "live"
        /\ \A g \in Fids : g # f => remote'[g] = remote[g]
        /\ remote'[f].text = IF Job.action = "update" THEN worker.text ELSE remote[f].text
        /\ Job.action = "delete" => remote'[f].state = "deleted"
    <3>1. remote[f] \in RemoteType
      BY <2>1 DEF Typed, TypeOK
    <3>2. CASE Job.action = "update" /\ Retexted(f, worker.text)
      <4>1. RemoteGrows /\ HooksTrue /\ remote[f].state = "live" /\ remote' = [remote EXCEPT ![f].text = worker.text]
        BY <1>1, <2>1, <3>2, RetextedFacts DEF Typed
      <4> QED BY <2>1, <3>1, <3>2, <4>1 DEF Typed, TypeOK, RemoteType
    <3>3. ASSUME NEW b \in BOOLEAN, Job.action \in {"complete", "uncomplete"}, Ticked(f, b) PROVE <2>4
      <4>1. RemoteGrows /\ HooksTrue /\ remote[f].state = "live" /\ remote' = [remote EXCEPT ![f].done = b]
        BY <2>1, <3>3, TickedFacts DEF Typed
      <4> QED BY <2>1, <3>1, <3>3, <4>1 DEF Typed, TypeOK, RemoteType
    <3>4. CASE Job.action = "delete" /\ Erased(f)
      <4>1. RemoteGrows /\ HooksTrue /\ remote[f].state = "live" /\ remote' = [remote EXCEPT ![f].state = "deleted"]
        BY <2>1, <3>4, ErasedFacts DEF Typed
      <4> QED BY <2>1, <3>1, <3>4, <4>1 DEF Typed, TypeOK, RemoteType
    <3> QED BY <2>2, <3>2, <3>3, <3>4
  <2> QED BY <1>1, <1>4, <2>1, <2>3, <2>4 DEF Obeyed
<1> QED BY <1>3, <1>4

LEMMA ObeyTyped == ASSUME Typed, JobsOK, Obey PROVE Typed'
<1>1. Obeyed
  BY ObeyFacts
<1>2. TypeOK'
  BY <1>1 DEF Obeyed, RemoteGrows, HooksTrue, Typed, TypeOK
<1>3. WorkerOK'
  BY <1>1 DEF Obeyed, Typed, WorkerOK, Busy, Job, Pending
<1> QED BY <1>2, <1>3 DEF Typed

\* What others do on Frame.io.
Guested ==
  /\ RemoteGrows /\ HooksTrue /\ touched \subseteq touched' /\ touched' \subseteq Comments
  /\ \A f \in Fids : IF remote[f].state = "none" THEN remote'[f].state # "none" => remote'[f].of = Author
                     ELSE remote'[f].text = remote[f].text \/ OwnerOf(f) \subseteq touched'

LEMMA GuestFacts ==
  ASSUME Typed, GuestStep
  PROVE  Guested /\ UNCHANGED <<row, jobs, worker, pulled, restarts, lost>> /\ steps' = steps + 1
<1>1. UNCHANGED <<row, jobs, worker, pulled, restarts, lost>> /\ steps' = steps + 1
  BY DEF GuestStep, Counted, local
<1>2. \A f \in Fids : remote[f] \in RemoteType
  BY DEF Typed, TypeOK
<1>3. touched \subseteq Comments
  BY DEF Typed, TypeOK
<1>4. ASSUME NEW f \in Fids, NEW t \in Texts, Made(f, Author, t), touched' = touched PROVE Guested
  <2>1. /\ RemoteGrows /\ HooksTrue /\ remote[f].state = "none"
        /\ remote' = [remote EXCEPT ![f] = [state |-> "live", text |-> t, done |-> FALSE, of |-> Author]]
    BY <1>4, MadeFacts DEF Typed
  <2> QED BY <1>2, <1>3, <1>4, <2>1 DEF Guested, Typed, TypeOK
<1>5. ASSUME NEW f \in Fids, NEW t \in Texts, Retexted(f, t), touched' = touched \cup OwnerOf(f) PROVE Guested
  <2>1. RemoteGrows /\ HooksTrue /\ remote[f].state = "live" /\ remote' = [remote EXCEPT ![f].text = t]
    BY <1>5, RetextedFacts DEF Typed
  <2> QED BY <1>2, <1>3, <1>5, <2>1 DEF Guested, Typed, TypeOK, OwnerOf
<1>6. ASSUME NEW f \in Fids, NEW b \in BOOLEAN, Ticked(f, b), touched' = touched PROVE Guested
  <2>1. RemoteGrows /\ HooksTrue /\ remote[f].state = "live" /\ remote' = [remote EXCEPT ![f].done = b]
    BY <1>6, TickedFacts DEF Typed
  <2> QED BY <1>2, <1>3, <1>6, <2>1 DEF Guested, Typed, TypeOK, RemoteType
<1>7. ASSUME NEW f \in Fids, Erased(f), touched' = touched PROVE Guested
  <2>1. RemoteGrows /\ HooksTrue /\ remote[f].state = "live" /\ remote' = [remote EXCEPT ![f].state = "deleted"]
    BY <1>7, ErasedFacts DEF Typed
  <2> QED BY <1>2, <1>3, <1>7, <2>1 DEF Guested, Typed, TypeOK, RemoteType
<1> QED BY <1>1, <1>4, <1>5, <1>6, <1>7 DEF GuestStep

LEMMA GuestTyped == ASSUME Typed, GuestStep PROVE Typed'
<1>1. TypeOK'
  BY GuestFacts DEF Guested, RemoteGrows, HooksTrue, Typed, TypeOK
<1> QED BY <1>1, GuestFacts, IdleWorkerOK DEF Typed

LEMMA WebhookTyped == ASSUME Typed, NEW e \in hooks, Webhook(e) PROVE Typed'
<1>1. row' \in [Rows -> RowType] /\ lost' \subseteq Comments /\ touched' \subseteq Comments
  BY WebhookFacts DEF Imports, Marks, Typed, TypeOK
<1>2. /\ UNCHANGED <<jobs, worker, remote, pulled, restarts, steps>> /\ hooks' \subseteq hooks
  BY WebhookFacts
<1>3. TypeOK'
  BY <1>1, <1>2 DEF Typed, TypeOK
<1> QED BY <1>2, <1>3, IdleWorkerOK DEF Typed

LEMMA PullAnsweredTyped == ASSUME Typed, PullAnswered PROVE Typed'
<1>1. UNCHANGED <<row, jobs, worker, remote, hooks, restarts, steps, lost, touched>>
  BY DEF PullAnswered, local, counts, ghosts
<1>2. pulled' \subseteq [fid : Fids, text : Texts, done : BOOLEAN]
  BY DEF PullAnswered, Typed, TypeOK, RemoteType
<1> QED BY <1>1, <1>2, IdleWorkerOK DEF Typed, TypeOK

LEMMA PullFacts ==
  ASSUME Typed, PullInserts
  PROVE  Imports(pulled) /\ pulled' = {} /\ UNCHANGED <<jobs, worker, remote, hooks, restarts, steps, touched>>
<1>1. pulled \in SUBSET [fid : Fids, text : Texts, done : BOOLEAN]
  BY DEF Typed, TypeOK
<1> QED BY <1>1, InsertFacts DEF PullInserts, counts

LEMMA PullInsertsTyped == ASSUME Typed, PullInserts PROVE Typed'
BY PullFacts, IdleWorkerOK DEF Imports, Typed, TypeOK

LEMMA RestartTyped == ASSUME Typed, JobsOK, Restart PROVE Typed'
<1>1. /\ UNCHANGED <<row, jobs, remote, hooks, steps, touched>> /\ restarts' = restarts + 1
      /\ worker' = Resting /\ pulled' = {}
  BY DEF Restart, local
<1>2. lost' \subseteq Comments
  <2>1. worker.pc = "answered" => worker.job \in DOMAIN jobs
    BY BusyFacts DEF Busy
  <2> QED BY <2>1 DEF Restart, JobsOK, Job, Typed, TypeOK
<1>3. WorkerOK'
  BY <1>1 DEF Typed, WorkerOK, Resting, Busy
<1> QED BY <1>1, <1>2, <1>3, RestingIn DEF Typed, TypeOK

LEMMA TypedStep == ASSUME Typed, JobsOK, Next PROVE Typed'
BY StaffTyped, TickTyped, ProcessTyped, RefusedTyped, AnsweredTyped, AnswerLostTyped, ObeyTyped, GuestTyped,
   WebhookTyped, PullAnsweredTyped, PullInsertsTyped, RestartTyped DEF Next, WorkerStep

-----------------------------------------------------------------------------
(* Rows, events and Frame.io. *)

LEMMA Apart == Fids \subseteq Nat /\ NoFid \notin Fids /\ Comments \cap Fids = {} /\ Comments \subseteq Rows /\ Fids \subseteq Rows
BY MirrorAssumption DEF Fids, NoFid, Rows

LEMMA RowsKept ==
  ASSUME RowsOK, row' = row, remote' = remote, hooks' \subseteq hooks, pulled' \subseteq pulled
  PROVE  RowsOK'
BY DEF RowsOK

LEMMA RowsGrow ==
  ASSUME Typed, RowsOK, row' = row, pulled' = pulled, RemoteGrows, HooksTrue
  PROVE  RowsOK'
<1>1. \A f \in Fids : remote[f].state # "none" => remote'[f].state # "none" /\ remote'[f].of = remote[f].of
  BY DEF RemoteGrows
<1>2. \A e \in hooks : e.fid \in Fids
  BY DEF Typed, TypeOK
<1>3. \A x \in pulled : x.fid \in Fids
  BY DEF Typed, TypeOK
<1>4. \A c \in Comments : row[c].fid \in Fids \cup {NoFid}
  BY Apart DEF Typed, TypeOK, RowType
<1>5. \A e \in hooks' : remote'[e.fid].state # "none" /\ (e.kind = "deleted" => remote'[e.fid].state = "deleted")
  BY <1>1, <1>2 DEF RowsOK, HooksTrue, RemoteGrows
<1> QED BY <1>1, <1>3, <1>4, <1>5 DEF RowsOK

LEMMA RowsImported ==
  ASSUME Typed, RowsOK, NEW S, Imports(S), remote' = remote, hooks' \subseteq hooks, pulled' \subseteq pulled,
         \A x \in S : remote[x.fid].state # "none"
  PROVE  RowsOK'
<1>1. \A c \in Comments : row'[c] = row[c]
  BY Apart DEF Imports
<1>2. ASSUME NEW f \in Fids
      PROVE  /\ row'[f].fid \in {NoFid, f} /\ (row'[f].fid = NoFid <=> row'[f].state = "none")
             /\ row'[f].state # "none" => remote'[f].state # "none"
  <2>1. CASE row'[f] = row[f]
    BY <2>1 DEF RowsOK
  <2>2. CASE row'[f] # row[f]
    BY <2>2, Apart DEF Imports
  <2> QED BY <2>1, <2>2
<1> QED BY <1>1, <1>2 DEF RowsOK

LEMMA RowsStep == ASSUME StoreInv, Next PROVE RowsOK'
<1> USE DEF StoreInv
<1>1. CASE StaffStep
  <2>1. PICK r \in Rows : Staffed(r)
    BY <1>1, StaffFacts DEF Typed
  <2>2. remote' = remote /\ hooks' = hooks /\ pulled' = pulled
    BY <1>1, StaffFacts DEF Typed
  <2>3. /\ \A q \in Rows : q # r => row'[q] = row[q]
        /\ row'[r].fid = row[r].fid /\ (row'[r].state = "none" <=> row[r].state = "none" /\ r \notin Comments)
        /\ row'[r].state # "none" /\ (row[r].state = "none" => r \in Comments)
    <3>1. row[r].state = "none" => r \in Comments /\ row[r].fid = NoFid
      BY <2>1 DEF Staffed, RowsOK
    <3> QED BY <2>1, <3>1 DEF Staffed
  <2>4. \A f \in Fids : row'[f].fid = row[f].fid /\ (row'[f].state = "none" <=> row[f].state = "none")
    BY <2>3, Apart
  <2>5. \A c \in Comments : row'[c].fid = row[c].fid /\ (row[c].state # "none" => row'[c].state # "none")
    BY <2>3, Apart
  <2> QED BY <2>2, <2>4, <2>5 DEF RowsOK
<1>2. CASE \E D : Tick(D)
  BY <1>2, TickFacts, RowsKept
<1>3. CASE \E j \in worker.batch : Process(j)
  BY <1>3, RowsKept DEF Process
<1>4. CASE Refused \/ AnswerLost
  BY <1>4, RowsKept DEF Refused, AnswerLost
<1>5. CASE Answered
  <2>1. CASE Job.action = "create"
    <3>1. Names(Job.row, worker.fid) /\ remote' = remote /\ hooks' = hooks /\ pulled' = pulled /\ worker.fid \in Fids
      BY <1>5, <2>1, AnsweredNames
    <3>2. Job.row \in Comments /\ row[Job.row].state # "none"
      BY <1>5, <2>1, BusyFacts, AnsweredNames DEF JobsOK, Job
    <3>3. remote[worker.fid].state # "none" /\ remote[worker.fid].of = Job.row
      BY <1>5, <2>1, AnsweredNames DEF JobsOK
    <3>4. \A f \in Fids : row'[f] = row[f]
      BY <3>1, <3>2, Apart DEF Names
    <3>5. row[Job.row] \in RowType
      BY <3>2, Apart DEF Typed, TypeOK
    <3>6. row'[Job.row].state = row[Job.row].state /\ row'[Job.row].fid \in {row[Job.row].fid, worker.fid}
      BY <3>1, <3>5 DEF Names, RowType
    <3>7. \A c \in Comments : c # Job.row => row'[c] = row[c]
      BY <3>1, Apart DEF Names
    <3>8. row'[Job.row].fid = worker.fid \/ (row[Job.row].fid # NoFid /\ row'[Job.row].fid = row[Job.row].fid)
      BY <3>1, <3>6 DEF Names
    <3>9. \A c \in Comments : row'[c].fid # NoFid =>
            row'[c].state # "none" /\ remote[row'[c].fid].state # "none" /\ remote[row'[c].fid].of = c
      BY <3>2, <3>3, <3>6, <3>7, <3>8 DEF RowsOK
    <3> QED BY <3>1, <3>4, <3>9 DEF RowsOK
  <2>2. CASE Job.action # "create"
    BY <1>5, <2>2, AnsweredNames, RowsKept
  <2> QED BY <2>1, <2>2
<1>6. CASE Obey
  BY <1>6, ObeyFacts, RowsGrow DEF Obeyed
<1>7. CASE GuestStep
  BY <1>7, GuestFacts, RowsGrow DEF Guested
<1>8. ASSUME NEW e \in hooks, Webhook(e) PROVE RowsOK'
  <2>1. remote' = remote /\ hooks' \subseteq hooks /\ pulled' = pulled /\ e.fid \in Fids
    BY <1>8, WebhookFacts
  <2>2. remote[e.fid].state # "none"
    BY DEF RowsOK
  <2>3. CASE Imports({[fid |-> e.fid, text |-> e.text, done |-> FALSE]})
    BY <2>1, <2>2, <2>3, RowsImported
  <2>4. CASE Marks(e.fid) /\ \A r \in Rows : row'[r].state = row[r].state \/ row'[r].state = "deleted"
    <3>1. \A r \in Rows : row'[r].fid = row[r].fid /\ (row'[r].state = "none" <=> row[r].state = "none")
      <4>1. ASSUME NEW r \in Rows, row[r].fid = e.fid PROVE row[r].state # "none"
        <5>1. row[r].fid # NoFid
          BY <2>1, <4>1, Apart
        <5>2. CASE r \in Fids
          BY <5>1, <5>2 DEF RowsOK
        <5>3. CASE r \in Comments
          BY <5>1, <5>3 DEF RowsOK
        <5> QED BY <5>2, <5>3 DEF Rows
      <4> QED BY <2>4, <4>1 DEF Marks
    <3> QED BY <2>1, <3>1, Apart DEF RowsOK
  <2> QED BY <1>8, <2>3, <2>4, WebhookFacts
<1>9. CASE PullAnswered
  BY <1>9 DEF PullAnswered, RowsOK, local
<1>10. CASE PullInserts
  <2>1. Imports(pulled) /\ remote' = remote /\ hooks' = hooks /\ pulled' = {}
    BY <1>10, PullFacts
  <2>2. \A x \in pulled : remote[x.fid].state # "none"
    BY DEF RowsOK
  <2> QED BY <2>1, <2>2, RowsImported
<1>11. CASE Restart
  BY <1>11 DEF Restart, RowsOK, local
<1> QED BY <1>1, <1>2, <1>3, <1>4, <1>5, <1>6, <1>7, <1>8, <1>9, <1>10, <1>11 DEF Next, WorkerStep

-----------------------------------------------------------------------------
(* Create jobs and the request under way. *)

\* Rows that are there stay; comments and rows that are there keep their names.
Lasting ==
  /\ \A r \in Rows : row[r].state # "none" =>
       row'[r].state # "none" /\ row'[r].file = row[r].file /\ row'[r].fid = row[r].fid
  /\ \A c \in Comments : row'[c].fid = row[c].fid

StillThere == \A f \in Fids : remote[f].state # "none" => remote'[f].state # "none" /\ remote'[f].of = remote[f].of

LEMMA ImportsLast == ASSUME StoreInv, NEW S, Imports(S) PROVE Lasting
<1>1. \A c \in Comments : row'[c] = row[c]
  BY Apart DEF Imports
<1>2. ASSUME NEW f \in Fids, row[f].state # "none" PROVE row'[f] = row[f]
  <2>1. row[f].fid = f
    BY <1>2 DEF StoreInv, RowsOK
  <2> QED BY <1>2, <2>1, Apart DEF Imports, HasRow
<1> QED BY <1>1, <1>2 DEF Lasting, Rows

LEMMA MarksLast ==
  ASSUME StoreInv, NEW f, Marks(f), \A r \in Rows : row'[r].state = row[r].state \/ row'[r].state = "deleted"
  PROVE  Lasting
BY Apart DEF Lasting, Marks

LEMMA StaffLast == ASSUME StoreInv, NEW r \in Rows, Staffed(r) PROVE Lasting
<1>1. \A c \in Comments : row[c].state = "none" => row[c].fid = NoFid
  BY DEF StoreInv, RowsOK
<1> QED BY <1>1, Apart DEF Lasting, Staffed

LEMMA WebhookLast == ASSUME StoreInv, NEW e \in hooks, Webhook(e) PROVE Lasting
BY WebhookFacts, ImportsLast, MarksLast DEF StoreInv

LEMMA SameLast == ASSUME row' = row PROVE Lasting
BY DEF Lasting

LEMMA JobRow ==
  ASSUME StoreInv
  PROVE  /\ \A j \in DOMAIN jobs : jobs[j].row \in Rows /\ row[jobs[j].row].state # "none"
         /\ Busy => Job.row \in Rows /\ row[Job.row].state # "none"
<1>1. \A j \in DOMAIN jobs : jobs[j].row \in Rows /\ row[jobs[j].row].state # "none"
  BY JobsTyped DEF StoreInv, Typed, JobsOK
<1> QED BY <1>1, BusyFacts DEF StoreInv, Job

\* The table and the request stay, or the request is gone.
LEMMA JobsKept ==
  ASSUME StoreInv, jobs' = jobs, worker' = worker \/ ~Busy', Lasting, StillThere
  PROVE  JobsOK'
<1>1. \A j \in DOMAIN jobs : jobs[j].row \in Rows /\ row[jobs[j].row].state # "none"
  BY JobRow
<1>2. \A j \in DOMAIN jobs : row'[jobs[j].row].state # "none"
  BY <1>1 DEF Lasting
<1>3. \A j \in DOMAIN jobs : jobs[j].action = "create" =>
        /\ jobs[j].row \in Comments /\ row'[jobs[j].row].file
        /\ jobs[j].status = "succeeded" <=> row'[jobs[j].row].fid # NoFid
        /\ \A k \in DOMAIN jobs : jobs[k].row = jobs[j].row => j <= k
  BY <1>1 DEF Lasting, StoreInv, JobsOK
<1>4. \A c \in Comments : row'[c].fid # NoFid => \E j \in DOMAIN jobs : IsCreate(j, c)
  BY DEF Lasting, StoreInv, JobsOK
<1>5. Busy' => worker' = worker /\ Busy /\ Job' = Job
  BY DEF Busy, Job
<1>6. Busy' /\ Job'.action # "create" => worker'.fid = row'[Job'.row].fid
  BY <1>5, JobRow DEF StoreInv, JobsOK, Lasting
<1>7. worker'.pc = "answered" /\ Job'.action = "create" =>
        remote'[worker'.fid].state # "none" /\ remote'[worker'.fid].of = Job'.row
  <2> SUFFICES ASSUME worker'.pc = "answered", Job'.action = "create"
               PROVE  remote'[worker'.fid].state # "none" /\ remote'[worker'.fid].of = Job'.row
    OBVIOUS
  <2>1. worker' = worker /\ Job' = Job
    BY <1>5 DEF Busy
  <2>2. worker.fid \in Fids
    BY <2>1 DEF StoreInv, Typed, WorkerOK
  <2> QED BY <2>1, <2>2 DEF StoreInv, JobsOK, StillThere
<1> QED BY <1>2, <1>3, <1>4, <1>6, <1>7 DEF JobsOK, IsCreate

\* Of the create jobs no two are of one comment.
LEMMA OneCreate ==
  ASSUME StoreInv, NEW j \in DOMAIN jobs, NEW k \in DOMAIN jobs, jobs[j].row = jobs[k].row,
         jobs[j].action = "create", jobs[k].action = "create"
  PROVE  j = k
<1>1. j <= k /\ k <= j
  BY DEF StoreInv, JobsOK
<1>2. j \in Nat /\ k \in Nat
  BY JobsTyped DEF StoreInv, Typed
<1> QED BY <1>1, <1>2

LEMMA JobsLeft ==
  ASSUME StoreInv, NEW j, NEW new, Left(j, new),
         \A r \in Rows : row[r].state # "none" => row'[r].state # "none" /\ row'[r].file = row[r].file,
         \A r \in Rows : row'[r].fid = row[r].fid \/ (r = jobs[j].row /\ jobs[j].action = "create"),
         jobs[j].action = "create" => (new.status = "succeeded" <=> row'[jobs[j].row].fid # NoFid)
  PROVE  JobsOK'
<1>1. j \in DOMAIN jobs /\ \A i \in DOMAIN jobs : jobs[i].row \in Rows /\ row[jobs[i].row].state # "none"
  BY JobRow DEF Left, StoreInv, Typed, WorkerOK
<1>2. DOMAIN jobs' = DOMAIN jobs /\ \A i \in DOMAIN jobs : jobs'[i].row = jobs[i].row /\ jobs'[i].action = jobs[i].action
  BY DEF Left
<1>3. \A i \in DOMAIN jobs : row'[jobs[i].row].state # "none"
  BY <1>1
<1>4. ASSUME NEW i \in DOMAIN jobs, jobs[i].action = "create"
      PROVE  /\ jobs[i].row \in Comments /\ row'[jobs[i].row].file
             /\ jobs'[i].status = "succeeded" <=> row'[jobs[i].row].fid # NoFid
             /\ \A k \in DOMAIN jobs : jobs[k].row = jobs[i].row => i <= k
  <2>1. /\ jobs[i].row \in Comments /\ row[jobs[i].row].file
        /\ jobs[i].status = "succeeded" <=> row[jobs[i].row].fid # NoFid
        /\ \A k \in DOMAIN jobs : jobs[k].row = jobs[i].row => i <= k
    BY <1>4 DEF StoreInv, JobsOK
  <2>2. row'[jobs[i].row].file
    BY <1>1, <2>1
  <2>3. CASE i = j
    <3>1. jobs'[i] = new
      BY <2>3 DEF Left
    <3> QED BY <1>4, <2>1, <2>2, <2>3, <3>1
  <2>4. CASE i # j
    <3>1. jobs'[i] = jobs[i]
      BY <2>4 DEF Left
    <3>2. row'[jobs[i].row].fid = row[jobs[i].row].fid
      BY <1>1, <1>4, <2>4, OneCreate
    <3> QED BY <2>1, <2>2, <3>1, <3>2
  <2> QED BY <2>3, <2>4
<1>5. ASSUME NEW c \in Comments, row'[c].fid # NoFid PROVE \E i \in DOMAIN jobs : jobs[i].row = c /\ jobs[i].action = "create"
  <2>1. CASE row[c].fid # NoFid
    BY <2>1 DEF StoreInv, JobsOK, IsCreate
  <2>2. CASE row[c].fid = NoFid
    <3>1. c = jobs[j].row /\ jobs[j].action = "create"
      BY <1>5, <2>2, Apart
    <3> QED BY <1>1, <3>1
  <2> QED BY <2>1, <2>2
<1>6. ~Busy' /\ worker'.pc # "answered"
  BY DEF Left, Busy
<1>7. \A i \in DOMAIN jobs' : row'[jobs'[i].row].state # "none"
  BY <1>2, <1>3
<1>8. \A i \in DOMAIN jobs' : jobs'[i].action = "create" =>
        /\ jobs'[i].row \in Comments /\ row'[jobs'[i].row].file
        /\ jobs'[i].status = "succeeded" <=> row'[jobs'[i].row].fid # NoFid
        /\ \A k \in DOMAIN jobs' : jobs'[k].row = jobs'[i].row => i <= k
  BY <1>2, <1>4
<1>9. \A c \in Comments : row'[c].fid # NoFid => \E i \in DOMAIN jobs' : IsCreate(i, c)'
  BY <1>2, <1>5 DEF IsCreate
<1> QED BY <1>6, <1>7, <1>8, <1>9 DEF JobsOK

\* The job that staff's change to row r adds.
Fresh(r, j) ==
  /\ jobs'[j].row = r /\ jobs'[j].status = "pending" /\ jobs'[j].tries = 0
  /\ \A k \in DOMAIN jobs : k < j
  /\ jobs'[j].action = "create" <=> row[r].state = "none"
  /\ jobs'[j].action = "create" => row'[r].file
  /\ jobs'[j].action = "update" => r \in Comments

LEMMA StaffJob ==
  ASSUME StoreInv, NEW r \in Rows, Staffed(r)
  PROVE  /\ Grown /\ DOMAIN jobs \subseteq DOMAIN jobs'
         /\ \A j \in DOMAIN jobs' : j \in DOMAIN jobs \/ Fresh(r, j)
<1>1. Grown /\ DOMAIN jobs \subseteq DOMAIN jobs'
  BY StaffJobs DEF StoreInv, Typed, Grown
<1>2. \A k \in DOMAIN jobs : k < Len(jobs) + 1
  BY JobsTyped DEF StoreInv, Typed
<1>3. CASE jobs' = jobs
  BY <1>1, <1>3
<1>4. ASSUME NEW a \in Actions, Enqueue(r, a), a = "create" <=> row[r].state = "none", a = "create" => row'[r].file,
             a = "update" => r \in Comments, NEW j \in DOMAIN jobs', j \notin DOMAIN jobs
      PROVE  Fresh(r, j)
  <2>1. j = Len(jobs) + 1 /\ jobs'[j] = NewJob(r, a)
    BY <1>4, EnqueueFacts DEF StoreInv, Typed
  <2>2. /\ jobs'[j].row = r /\ jobs'[j].action = a /\ jobs'[j].status = "pending"
        /\ jobs'[j].tries = 0
    BY <2>1 DEF NewJob
  <2>3. \A k \in DOMAIN jobs : k < j
    BY <1>2, <2>1
  <2> QED BY <1>4, <2>2, <2>3 DEF Fresh
<1> QED BY <1>1, <1>3, <1>4 DEF Staffed

LEMMA JobsStaff ==
  ASSUME StoreInv, NEW r \in Rows, Staffed(r), worker' = worker, remote' = remote
  PROVE  JobsOK'
<1>1. Lasting
  BY StaffLast
<1>2. \A j \in DOMAIN jobs : /\ j \in DOMAIN jobs' /\ jobs'[j] = jobs[j]
                             /\ jobs[j].row \in Rows /\ row[jobs[j].row].state # "none"
  BY JobRow, StaffJob DEF Grown
<1>3. \A j \in DOMAIN jobs' : j \in DOMAIN jobs \/ Fresh(r, j)
  BY StaffJob
<1>4. row'[r].state # "none" /\ (row[r].state = "none" => r \in Comments /\ row'[r].fid = NoFid)
  BY DEF Staffed
<1>5. \A j \in DOMAIN jobs' : row'[jobs'[j].row].state # "none"
  BY <1>1, <1>2, <1>3, <1>4 DEF Lasting, Fresh
<1>6. ASSUME NEW j \in DOMAIN jobs', jobs'[j].action = "create"
      PROVE  /\ jobs'[j].row \in Comments /\ row'[jobs'[j].row].file
             /\ jobs'[j].status = "succeeded" <=> row'[jobs'[j].row].fid # NoFid
             /\ \A k \in DOMAIN jobs' : jobs'[k].row = jobs'[j].row => j <= k
  <2>1. CASE j \in DOMAIN jobs
    <3>1. /\ jobs[j].row \in Comments /\ row[jobs[j].row].file
          /\ jobs[j].status = "succeeded" <=> row[jobs[j].row].fid # NoFid
          /\ \A k \in DOMAIN jobs : jobs[k].row = jobs[j].row => j <= k
      BY <1>2, <1>6, <2>1 DEF StoreInv, JobsOK
    <3>2. /\ jobs'[j].row \in Comments /\ row'[jobs'[j].row].file
          /\ jobs'[j].status = "succeeded" <=> row'[jobs'[j].row].fid # NoFid
      BY <1>1, <1>2, <2>1, <3>1 DEF Lasting
    <3>3. ASSUME NEW k \in DOMAIN jobs', jobs'[k].row = jobs'[j].row PROVE j <= k
      <4>1. CASE k \in DOMAIN jobs
        BY <1>2, <2>1, <3>1, <3>3, <4>1
      <4>2. CASE k \notin DOMAIN jobs
        <5>1. j < k
          BY <1>3, <2>1, <3>3, <4>2 DEF Fresh
        <5>2. j \in Nat /\ k \in Nat
          BY <1>6, <3>3, StaffJobs DEF StoreInv, Typed
        <5> QED BY <5>1, <5>2
      <4> QED BY <4>1, <4>2
    <3> QED BY <3>2, <3>3
  <2>2. CASE j \notin DOMAIN jobs
    <3>1. jobs'[j].row = r /\ jobs'[j].status = "pending" /\ row[r].state = "none" /\ row'[r].file
      BY <1>3, <1>6, <2>2 DEF Fresh
    <3>2. ASSUME NEW k \in DOMAIN jobs', jobs'[k].row = r PROVE j <= k
      <4>1. k \notin DOMAIN jobs
        BY <1>2, <3>1, <3>2
      <4>2. DOMAIN jobs' = 1..Len(jobs') /\ Len(jobs') \in Nat /\ DOMAIN jobs = 1..Len(jobs) /\ Len(jobs) \in Nat
        BY StaffJobs DEF StoreInv, Typed, TypeOK
      <4>3. j = k
        BY <2>2, <4>1, StaffJobs DEF StoreInv, Typed
      <4> QED BY <4>2, <4>3
    <3> QED BY <1>4, <3>1, <3>2
  <2> QED BY <2>1, <2>2
<1>7. \A c \in Comments : row'[c].fid # NoFid => \E j \in DOMAIN jobs' : IsCreate(j, c)'
  BY <1>1, <1>2 DEF Lasting, IsCreate, StoreInv, JobsOK
<1>8. Busy' => Busy /\ Job' = Job /\ row'[Job.row].fid = row[Job.row].fid
  <2> SUFFICES ASSUME Busy' PROVE Busy /\ Job' = Job /\ row'[Job.row].fid = row[Job.row].fid
    OBVIOUS
  <2>1. Busy /\ worker.job \in DOMAIN jobs
    BY BusyFacts DEF Busy, StoreInv
  <2>2. Job' = Job
    BY <1>2, <2>1 DEF Job
  <2> QED BY <1>1, <2>1, <2>2, JobRow DEF Lasting
<1>9. Busy' /\ Job'.action # "create" => worker'.fid = row'[Job'.row].fid
  BY <1>8 DEF StoreInv, JobsOK
<1>10. worker'.pc = "answered" /\ Job'.action = "create" =>
         remote'[worker'.fid].state # "none" /\ remote'[worker'.fid].of = Job'.row
  BY <1>8 DEF StoreInv, JobsOK, Busy
<1> QED BY <1>5, <1>6, <1>7, <1>9, <1>10 DEF JobsOK

LEMMA JobsStep == ASSUME StoreInv, Next PROVE JobsOK'
<1> USE DEF StoreInv
<1>1. CASE StaffStep
  BY <1>1, StaffFacts, JobsStaff DEF Typed
<1>2. CASE \E D : Tick(D)
  BY <1>2, TickFacts, SameLast, JobsKept DEF StillThere, Busy
<1>3. ASSUME NEW j \in worker.batch, Process(j) PROVE JobsOK'
  <2>1. UNCHANGED <<row, remote>>
    BY <1>3 DEF Process
  <2>2. CASE Pass(j)
    <3>1. jobs[j].action # "create"
      BY <2>2 DEF Pass, NothingToDo
    <3> QED BY <2>1, <2>2, <3>1, PassFacts, JobsLeft
  <2>3. CASE Defer(j)
    <3>1. jobs[j].action # "create"
      BY <2>3 DEF Defer, TooEarly
    <3> QED BY <2>1, <2>3, <3>1, DeferFacts, JobsLeft
  <2>4. CASE Ask(j)
    <3>1. j \in DOMAIN jobs /\ jobs[j].status = "pending" /\ jobs[j] \in JobType
      BY <2>4, NextFacts DEF Ask, Pending
    <3>2. DOMAIN jobs' = DOMAIN jobs /\ \A i \in DOMAIN jobs : i # j => jobs'[i] = jobs[i]
      BY <2>4, <3>1 DEF Ask, SetJob, Typed, TypeOK
    <3>3. jobs'[j].status = "in_flight" /\ jobs'[j].row = jobs[j].row /\ jobs'[j].action = jobs[j].action
      <4>1. jobs'[j] = [jobs[j] EXCEPT !.status = "in_flight"]
        BY <2>4, AskFacts
      <4> QED BY <3>1, <4>1 DEF JobType
    <3>4. \A i \in DOMAIN jobs : /\ jobs'[i].row = jobs[i].row /\ jobs'[i].action = jobs[i].action
                                 /\ jobs'[i].status = "succeeded" <=> jobs[i].status = "succeeded"
      BY <3>1, <3>2, <3>3
    <3>5. worker'.pc = "asked" /\ worker'.job = j /\ worker'.fid = row[jobs[j].row].fid
      BY <2>4, AskFacts DEF Subject
    <3>6. Busy' /\ Job'.action # "create" => worker'.fid = row'[Job'.row].fid
      BY <2>1, <3>3, <3>5 DEF Job
    <3>7. \A c \in Comments : row[c].fid # NoFid => \E i \in DOMAIN jobs' : IsCreate(i, c)'
      BY <3>2, <3>4 DEF IsCreate, JobsOK
    <3>8. \A i \in DOMAIN jobs' : row'[jobs'[i].row].state # "none"
      BY <2>1, <3>2, <3>4 DEF JobsOK
    <3>9. \A i \in DOMAIN jobs' : jobs'[i].action = "create" =>
            /\ jobs'[i].row \in Comments /\ row'[jobs'[i].row].file
            /\ jobs'[i].status = "succeeded" <=> row'[jobs'[i].row].fid # NoFid
            /\ \A k \in DOMAIN jobs' : jobs'[k].row = jobs'[i].row => i <= k
      BY <2>1, <3>2, <3>4 DEF JobsOK
    <3> QED BY <2>1, <3>5, <3>6, <3>7, <3>8, <3>9 DEF JobsOK
  <2> QED BY <1>3, <2>2, <2>3, <2>4 DEF Process
<1>4. ASSUME Refused \/ AnswerLost PROVE JobsOK'
  <2>1. row' = row /\ Left(worker.job, Failed(Job)) /\ Busy
    BY <1>4, RefusedFacts, AnswerLostFacts DEF Refused, AnswerLost, Busy
  <2>2. worker.job \in DOMAIN jobs /\ Job.status = "in_flight" /\ jobs[worker.job] = Job
    BY <2>1, BusyFacts DEF Job, Typed, WorkerOK
  <2>3. Job.action = "create" => row[Job.row].fid = NoFid
    BY <2>2 DEF JobsOK
  <2>4. Failed(Job).status # "succeeded"
    <3>1. Job \in JobType /\ Job.tries < MaxTries
      BY <2>1, <2>2, BusyFacts DEF Typed, WorkerOK
    <3> QED BY <3>1, FailedFacts
  <2> QED BY <2>1, <2>2, <2>3, <2>4, JobsLeft
<1>5. CASE Answered
  <2>1. Left(worker.job, Succeeded(Job)) /\ Busy /\ Job = jobs[worker.job]
    BY <1>5, AnsweredFacts DEF Answered, Busy, Job
  <2>2. Succeeded(Job).status = "succeeded"
    <3>1. Job \in JobType
      BY <2>1, BusyFacts
    <3> QED BY <3>1 DEF Succeeded, JobType
  <2>3. CASE Job.action # "create"
    BY <1>5, <2>1, <2>2, <2>3, AnsweredNames, JobsLeft
  <2>4. CASE Job.action = "create"
    <3>1. Names(Job.row, worker.fid) /\ Job.row \in Rows /\ row[Job.row] \in RowType
      BY <1>5, <2>4, AnsweredNames DEF Typed, TypeOK
    <3>2. \A r \in Rows : row'[r].state = row[r].state /\ row'[r].file = row[r].file
      BY <3>1 DEF Names, RowType
    <3>3. row'[Job.row].fid # NoFid /\ \A r \in Rows : row'[r].fid = row[r].fid \/ r = Job.row
      BY <3>1 DEF Names
    <3> QED BY <2>1, <2>2, <2>4, <3>2, <3>3, JobsLeft
  <2> QED BY <2>3, <2>4
<1>6. CASE Obey
  <2>1. Obeyed
    BY <1>6, ObeyFacts
  <2>2. jobs' = jobs /\ row' = row /\ Busy' /\ Busy /\ Job' = Job
    BY <2>1 DEF Obeyed, Busy, Job
  <2>3. Job.action # "create" => worker'.fid = row[Job.row].fid
    BY <2>1, <2>2 DEF Obeyed, JobsOK
  <2>4. Job.action = "create" => remote'[worker'.fid].state # "none" /\ remote'[worker'.fid].of = Job.row
    BY <2>1 DEF Obeyed
  <2> QED BY <2>2, <2>3, <2>4 DEF JobsOK, IsCreate
<1>7. CASE GuestStep
  BY <1>7, GuestFacts, SameLast, JobsKept DEF Guested, RemoteGrows, StillThere
<1>8. CASE \E e \in hooks : Webhook(e)
  BY <1>8, WebhookFacts, WebhookLast, JobsKept DEF StillThere
<1>9. CASE PullAnswered
  BY <1>9, SameLast, JobsKept DEF PullAnswered, local, StillThere
<1>10. CASE PullInserts
  BY <1>10, PullFacts, ImportsLast, JobsKept DEF StillThere
<1>11. CASE Restart
  BY <1>11, SameLast, JobsKept DEF Restart, local, StillThere, Resting, Busy
<1> QED BY <1>1, <1>2, <1>3, <1>4, <1>5, <1>6, <1>7, <1>8, <1>9, <1>10, <1>11 DEF Next, WorkerStep

LEMMA StoreInit == Init => StoreInv
<1> SUFFICES ASSUME Init PROVE StoreInv
  OBVIOUS
<1>1. row = [r \in Rows |-> NoRow] /\ DOMAIN jobs = {} /\ worker = Resting /\ hooks = {} /\ pulled = {}
  BY DEF Init
<1>2. \A r \in Rows : row[r].state = "none" /\ row[r].fid = NoFid
  BY <1>1 DEF NoRow
<1>3. RowsOK
  BY <1>1, <1>2, Apart DEF RowsOK
<1>4. JobsOK
  BY <1>1, <1>2, Apart DEF JobsOK, Resting, Busy
<1> QED BY <1>3, <1>4, TypedInit DEF StoreInv

LEMMA StoreStep == ASSUME StoreInv, [Next]_vars PROVE StoreInv'
<1>1. CASE Next
  BY <1>1, TypedStep, RowsStep, JobsStep DEF StoreInv
<1>2. CASE UNCHANGED vars
  BY <1>2 DEF vars, counts, ghosts, StoreInv, Typed, TypeOK, WorkerOK, RowsOK, JobsOK, Busy, Job, Pending, IsCreate
<1> QED BY <1>1, <1>2

-----------------------------------------------------------------------------
(* One copy. *)

Answering(f, c) == worker.pc = "answered" /\ worker.fid = f /\ IsCreate(worker.job, c)

LEMMA CopyFacts ==
  ASSUME StoreInv, CopyInv, NEW c \in Comments \ lost, NEW f \in Fids, IsCopy(f, c)
  PROVE  row[f].state = "none" /\ (row[c].fid = f \/ Answering(f, c))
BY DEF CopyInv, Answering

\* Comments appear on Frame.io only for the create under way, or have another author.
LEMMA CopiesKept ==
  ASSUME NEW c \in Comments, NEW f \in Fids, IsCopy(f, c)', remote' = remote \/ Guested
  PROVE  IsCopy(f, c)
BY MirrorAssumption DEF IsCopy, Guested, RemoteGrows

LEMMA CopyImports ==
  ASSUME StoreInv, CopyInv, NEW S, Imports(S), UNCHANGED <<jobs, worker, remote>>
  PROVE  CopyInv'
<1> SUFFICES ASSUME NEW c \in Comments \ lost', NEW f \in Fids, IsCopy(f, c)
             PROVE  row'[f].state = "none" /\ (row'[c].fid = f \/ Answering(f, c)')
  BY DEF CopyInv, IsCopy, Answering
<1>1. c \notin lost /\ row'[c] = row[c]
  BY Apart DEF Imports
<1>2. row[f].state = "none" /\ (row[c].fid = f \/ Answering(f, c))
  BY <1>1, CopyFacts
<1>3. row'[f] = row[f]
  <2>1. CASE row[c].fid = f
    BY <2>1, Apart DEF Imports, HasRow
  <2>2. CASE Answering(f, c)
    <3>1. c \in OwnerOf(f)
      BY DEF OwnerOf, IsCopy
    <3> QED BY <2>2, <3>1 DEF Imports, Answering
  <2> QED BY <1>2, <2>1, <2>2
<1> QED BY <1>1, <1>2, <1>3 DEF Answering, IsCreate

LEMMA CopyStep == ASSUME StoreInv, CopyInv, Next PROVE CopyInv'
<1> SUFFICES ASSUME NEW c \in Comments \ lost', NEW f \in Fids, IsCopy(f, c)'
             PROVE  row'[f].state = "none" /\ (row'[c].fid = f \/ Answering(f, c)')
  BY DEF CopyInv, Answering
<1> USE DEF StoreInv
<1>1. CASE StaffStep
  <2>1. PICK r \in Rows : Staffed(r)
    BY <1>1, StaffFacts DEF Typed
  <2>2. worker' = worker /\ remote' = remote /\ lost' = lost
    BY <1>1, StaffFacts DEF Typed
  <2>3. row[f].state = "none" /\ (row[c].fid = f \/ Answering(f, c))
    BY <2>2, CopyFacts, CopiesKept
  <2>4. row'[f].state = "none" /\ row'[c].fid = row[c].fid
    BY <2>1, <2>3, Apart, StaffLast DEF Staffed, Lasting
  <2>5. Answering(f, c) => Answering(f, c)'
    <3>1. Answering(f, c) => worker.job \in DOMAIN jobs
      BY BusyFacts DEF Answering, Busy
    <3> QED BY <2>1, <2>2, <3>1, StaffJob DEF Answering, IsCreate, Grown
  <2> QED BY <2>3, <2>4, <2>5
<1>2. CASE \E D : Tick(D)
  <2>1. worker.pc = "idle" /\ row' = row /\ remote' = remote /\ lost' = lost
    BY <1>2, TickFacts
  <2> QED BY <2>1, CopyFacts, CopiesKept DEF Answering
<1>3. CASE \E j \in worker.batch : Process(j)
  <2>1. worker.pc = "picking" /\ row' = row /\ remote' = remote /\ lost' = lost
    BY <1>3 DEF Process, Pass, Defer, Ask, IsNext, ghosts
  <2> QED BY <2>1, CopyFacts, CopiesKept DEF Answering
<1>4. CASE Refused
  <2>1. worker.pc = "asked" /\ row' = row /\ remote' = remote /\ lost' = lost
    BY <1>4 DEF Refused, ghosts
  <2> QED BY <2>1, CopyFacts, CopiesKept DEF Answering
<1>5. CASE Answered
  <2>1. remote' = remote /\ lost' = lost /\ worker.pc = "answered" /\ Busy
    BY <1>5, AnsweredNames
  <2>2. row[f].state = "none" /\ (row[c].fid = f \/ Answering(f, c))
    BY <2>1, CopyFacts, CopiesKept
  <2>3. CASE Job.action # "create"
    BY <1>5, <2>2, <2>3, AnsweredNames DEF Answering, IsCreate, Job
  <2>4. CASE Job.action = "create"
    <3>1. Names(Job.row, worker.fid)
      BY <1>5, <2>4, AnsweredNames
    <3>2. Job.row \in Comments /\ row[Job.row].fid = NoFid /\ row[Job.row] \in RowType
      <4>1. Job.row \in Comments /\ row[Job.row].fid = NoFid
        BY <2>1, <2>4, BusyFacts DEF JobsOK, Job, Typed, WorkerOK
      <4> QED BY <4>1, Apart DEF Typed, TypeOK
    <3>3. row'[f] = row[f]
      BY <3>1, <3>2, Apart DEF Names
    <3>4. row'[Job.row].fid = worker.fid
      BY <3>1, <3>2 DEF Names, RowType
    <3>5. c # Job.row => row'[c] = row[c]
      BY <3>1, Apart DEF Names
    <3>6. CASE row[c].fid = f
      <4>1. c # Job.row
        BY <3>2, <3>6, Apart
      <4> QED BY <2>2, <3>3, <3>5, <3>6, <4>1
    <3>7. CASE Answering(f, c)
      BY <2>2, <3>3, <3>4, <3>7 DEF Answering, IsCreate, Job
    <3> QED BY <2>2, <3>6, <3>7
  <2> QED BY <2>3, <2>4
<1>6. CASE AnswerLost
  <2>1. worker.pc = "answered" /\ row' = row /\ remote' = remote
        /\ lost' = IF Job.action = "create" THEN lost \cup {Job.row} ELSE lost
    BY <1>6 DEF AnswerLost
  <2>2. c \notin lost /\ ~Answering(f, c)
    BY <2>1 DEF Answering, IsCreate, Job
  <2> QED BY <2>1, <2>2, CopyFacts, CopiesKept
<1>7. CASE Obey
  <2>1. Obeyed
    BY <1>7, ObeyFacts
  <2>2. row' = row /\ jobs' = jobs /\ lost' = lost /\ worker.pc = "asked" /\ worker'.pc = "answered" /\ worker'.job = worker.job
    BY <2>1 DEF Obeyed
  <2>3. CASE IsCopy(f, c)
    BY <2>2, <2>3, CopyFacts DEF Answering
  <2>4. CASE ~IsCopy(f, c)
    <3>1. f = worker'.fid
      BY <2>1, <2>4 DEF Obeyed, IsCopy
    <3>2. Job.action = "create" /\ remote[f].state = "none" /\ Job.row = c
      BY <2>1, <2>4, <3>1 DEF Obeyed, IsCopy, RemoteGrows
    <3>3. row[f].state = "none"
      BY <3>2 DEF RowsOK
    <3> QED BY <2>2, <3>1, <3>2, <3>3 DEF Answering, IsCreate, Job
  <2> QED BY <2>3, <2>4
<1>8. CASE GuestStep
  <2>1. Guested /\ UNCHANGED <<row, jobs, worker, lost>>
    BY <1>8, GuestFacts
  <2> QED BY <2>1, CopyFacts, CopiesKept DEF Answering, IsCreate
<1>9. ASSUME NEW e \in hooks, Webhook(e) PROVE row'[f].state = "none" /\ (row'[c].fid = f \/ Answering(f, c)')
  <2>1. UNCHANGED <<jobs, worker, remote>> /\ e.fid \in Fids
    BY <1>9, WebhookFacts
  <2>2. CASE \E S : Imports(S)
    BY <2>1, <2>2, CopyImports DEF CopyInv, Answering
  <2>3. CASE Marks(e.fid) /\ lost' = lost
    <3>1. row[f].state = "none" /\ (row[c].fid = f \/ Answering(f, c))
      BY <2>1, <2>3, CopyFacts, CopiesKept
    <3>2. row[f].fid # e.fid
      BY <2>1, <3>1, Apart DEF RowsOK
    <3> QED BY <2>1, <2>3, <3>1, <3>2, Apart DEF Marks, Answering, IsCreate
  <2> QED BY <1>9, <2>2, <2>3, WebhookFacts
<1>10. CASE PullAnswered
  <2>1. UNCHANGED <<row, jobs, worker, remote, lost>>
    BY <1>10 DEF PullAnswered, local, ghosts
  <2> QED BY <2>1, CopyFacts, CopiesKept DEF Answering, IsCreate
<1>11. CASE PullInserts
  BY <1>11, PullFacts, CopyImports DEF CopyInv, Answering
<1>12. CASE Restart
  <2>1. row' = row /\ remote' = remote
        /\ lost' = IF worker.pc = "answered" /\ Job.action = "create" THEN lost \cup {Job.row} ELSE lost
    BY <1>12 DEF Restart, local
  <2>2. c \notin lost /\ ~Answering(f, c)
    BY <2>1 DEF Answering, IsCreate, Job
  <2> QED BY <2>1, <2>2, CopyFacts, CopiesKept
<1> QED BY <1>1, <1>2, <1>3, <1>4, <1>5, <1>6, <1>7, <1>8, <1>9, <1>10, <1>11, <1>12 DEF Next, WorkerStep

-----------------------------------------------------------------------------
(* Texts. *)

\* Jobs stay in the table, and those of row c and action a are not newly done.
Recorded(c, a) ==
  \A j \in DOMAIN jobs : /\ j \in DOMAIN jobs' /\ jobs'[j].row = jobs[j].row /\ jobs'[j].action = jobs[j].action
                         /\ jobs[j].row = c /\ jobs[j].action = a /\ jobs[j].status # "succeeded" =>
                              jobs'[j].status # "succeeded"

LEMMA RecordKept == ASSUME NEW c, NEW a, Recorded(c, a), OnRecord(c, a) PROVE OnRecord(c, a)'
BY DEF Recorded, OnRecord

LEMMA SameRecord == ASSUME NEW c, NEW a, jobs' = jobs PROVE Recorded(c, a)
BY DEF Recorded

LEMMA LeftRecord ==
  ASSUME Typed, NEW c, NEW a, NEW j, NEW new, Left(j, new),
         ~(jobs[j].row = c /\ jobs[j].action = a) \/ new.status # "succeeded"
  PROVE  Recorded(c, a)
<1>1. \A k \in DOMAIN jobs : k \in DOMAIN jobs' /\ jobs'[k].row = jobs[k].row /\ jobs'[k].action = jobs[k].action
  BY DEF Left
<1>2. \A k \in DOMAIN jobs : k # j => jobs'[k].status = jobs[k].status
  BY DEF Left
<1>3. jobs'[j].status = new.status
  BY DEF Left
<1> QED BY <1>1, <1>2, <1>3 DEF Recorded

LEMMA AskRecord ==
  ASSUME Typed, NEW c, NEW a, NEW j, Ask(j)
  PROVE  /\ Recorded(c, a) /\ jobs'[j].row = jobs[j].row /\ jobs'[j].action = jobs[j].action
         /\ \A k \in DOMAIN jobs : k # j => jobs'[k] = jobs[k]
<1>1. j \in DOMAIN jobs /\ jobs[j] \in JobType /\ jobs[j].status = "pending"
  BY NextFacts DEF Ask, Pending
<1>2. DOMAIN jobs' = DOMAIN jobs /\ \A k \in DOMAIN jobs : k # j => jobs'[k] = jobs[k]
  BY <1>1 DEF Ask, SetJob, Typed, TypeOK
<1>3. jobs'[j].row = jobs[j].row /\ jobs'[j].action = jobs[j].action /\ jobs'[j].status = "in_flight"
  <2>1. jobs'[j] = [jobs[j] EXCEPT !.status = "in_flight"]
    BY AskFacts
  <2> QED BY <1>1, <2>1 DEF JobType
<1> QED BY <1>2, <1>3 DEF Recorded

\* Nothing is asked, and neither the row nor its copy changes.
LEMMA TextRests ==
  ASSUME NEW c, TextOf(c), ~Busy', row'[c].fid = row[c].fid, row'[c].text = row[c].text,
         remote' = remote, row[c].fid # NoFid => Recorded(c, "update")
  PROVE  TextOf(c)'
BY RecordKept DEF TextOf, Sends

\* The table and the request stay, and neither the row nor its copy changes.
LEMMA TextStays ==
  ASSUME NEW c, TextOf(c), jobs' = jobs, worker' = worker, row'[c].fid = row[c].fid, row'[c].text = row[c].text,
         row[c].fid # NoFid => remote'[row[c].fid].text = remote[row[c].fid].text,
         Sends(c) /\ worker.pc = "answered" => remote'[worker.fid].text = remote[worker.fid].text
  PROVE  TextOf(c)'
<1>1. Sends(c)' <=> Sends(c)
  BY DEF Sends, Busy, Job
<1> QED BY <1>1 DEF TextOf, OnRecord, AnotherUpdate

LEMMA TextStaff ==
  ASSUME StoreInv, NEW r \in Rows, Staffed(r), worker' = worker, remote' = remote, NEW c \in Comments, TextOf(c)
  PROVE  TextOf(c)'
<1>1. Recorded(c, "update") /\ row'[c].fid = row[c].fid
  BY StaffJob, StaffLast DEF Recorded, Grown, Lasting
<1>2. Sends(c)' => Sends(c) /\ Job' = Job /\ worker.job \in DOMAIN jobs /\ Job.status = "in_flight" /\ row[c].state # "none"
  <2>1. Busy => worker.job \in DOMAIN jobs /\ Job.status = "in_flight" /\ row[Job.row].state # "none"
    BY BusyFacts, JobRow DEF StoreInv, Typed, WorkerOK
  <2>2. Busy' => Busy /\ Job' = Job
    BY <2>1, StaffJob DEF Busy, Job, Grown
  <2> QED BY <2>1, <2>2 DEF Sends
<1>3. AnotherUpdate(c) => AnotherUpdate(c)'
  BY StaffJob DEF AnotherUpdate, Grown
<1>4. CASE row'[c].text = row[c].text
  BY <1>1, <1>2, <1>3, <1>4, RecordKept DEF TextOf
<1>5. CASE row'[c].text # row[c].text /\ row[c].state # "none"
  <2>1. Enqueue(c, "update")
    BY <1>5, Apart DEF Staffed
  <2>2. PICK j \in DOMAIN jobs' : jobs'[j].row = c /\ jobs'[j].action = "update" /\ jobs'[j].status = "pending"
    BY <2>1, EnqueueFacts, Apart DEF StoreInv, Typed, Actions
  <2>3. OnRecord(c, "update")'
    BY <2>2 DEF OnRecord
  <2>4. Sends(c)' => j # worker.job
    BY <1>2, <2>2, StaffJob DEF Job, Grown
  <2> QED BY <1>1, <1>2, <2>2, <2>3, <2>4 DEF TextOf, AnotherUpdate
<1>6. CASE row[c].state = "none"
  <2>1. row[c].fid = NoFid
    BY <1>6 DEF StoreInv, RowsOK
  <2> QED BY <1>1, <1>2, <1>6, <2>1 DEF TextOf
<1> QED BY <1>4, <1>5, <1>6

LEMMA TextAnswered == ASSUME StoreInv, Answered, NEW c \in Comments, TextOf(c) PROVE TextOf(c)'
<1> USE DEF StoreInv
<1>1. /\ Left(worker.job, Succeeded(Job)) /\ Busy /\ remote' = remote /\ worker.pc = "answered"
      /\ Job.row \in Rows /\ worker.job \in DOMAIN jobs /\ Job = jobs[worker.job]
  BY AnsweredFacts, AnsweredNames, BusyFacts DEF Job
<1>2. ~Busy'
  BY <1>1, LeftTyped
<1>3. /\ row'[c].text = row[c].text
      /\ row'[c].fid = row[c].fid \/ (Job.row = c /\ Job.action = "create" /\ row'[c].fid = worker.fid)
  <2>1. row[c] \in RowType
    BY Apart DEF Typed, TypeOK
  <2>2. CASE Job.action = "create"
    BY <2>1, <2>2, Apart, AnsweredNames DEF Names, RowType
  <2>3. CASE Job.action # "create"
    BY <2>3, AnsweredNames
  <2> QED BY <2>2, <2>3
<1>4. CASE ~(Job.row = c /\ Job.action \in {"create", "update"})
  <2>1. Recorded(c, "update")
    BY <1>1, <1>4, LeftRecord
  <2> QED BY <1>1, <1>2, <1>3, <1>4, <2>1, TextRests
<1>5. CASE Job.row = c /\ Job.action \in {"create", "update"}
  <2>1. Sends(c) /\ remote[worker.fid].text = worker.text
    BY <1>1, <1>5 DEF Sends, TextOf
  <2>2. row[c].fid # NoFid => row[c].fid = worker.fid
    BY <1>1, <1>5 DEF JobsOK, Typed, WorkerOK
  <2>3. row'[c].fid # NoFid => row'[c].fid = worker.fid
    BY <1>3, <2>2
  <2>4. row[c].text = worker.text \/ AnotherUpdate(c)
    BY <2>1 DEF TextOf
  <2>5. AnotherUpdate(c) => OnRecord(c, "update")'
    BY <1>1 DEF Left, AnotherUpdate, OnRecord
  <2> QED BY <1>1, <1>2, <1>3, <2>1, <2>3, <2>4, <2>5 DEF TextOf, Sends
<1> QED BY <1>4, <1>5

LEMMA TextObey == ASSUME StoreInv, TextInv, Obey, NEW c \in Comments, TextOf(c) PROVE TextOf(c)'
<1> USE DEF StoreInv
<1>1. Obeyed /\ Busy /\ worker.job \in DOMAIN jobs
  BY ObeyFacts, BusyFacts DEF Obeyed, Busy
<1>2. row' = row /\ jobs' = jobs /\ Job' = Job /\ worker'.job = worker.job /\ worker'.text = worker.text
  BY <1>1 DEF Obeyed, Job
<1>3. Sends(c)' <=> Sends(c)
  BY <1>1, <1>2 DEF Sends, Obeyed, Busy
<1>4. Sends(c) => remote'[worker'.fid].text = worker.text
  BY <1>1 DEF Obeyed, Sends
<1>5. row[c].fid # NoFid => remote'[row[c].fid].text = remote[row[c].fid].text \/ OnRecord(c, "update")
  <2> SUFFICES ASSUME row[c].fid # NoFid, ~OnRecord(c, "update")
               PROVE  remote'[row[c].fid].text = remote[row[c].fid].text
    OBVIOUS
  <2>1. row[c].fid \in Fids /\ remote[row[c].fid].state # "none" /\ remote[row[c].fid].of = c
    BY Apart DEF Typed, TypeOK, RowType, RowsOK
  <2>2. CASE Job.action = "create"
    BY <1>1, <2>1, <2>2 DEF Obeyed
  <2>3. CASE Job.action \notin {"create", "update"}
    BY <1>1, <2>1, <2>3 DEF Obeyed
  <2>4. CASE Job.action = "update"
    <3>1. Job.row \in Comments /\ worker.fid = row[Job.row].fid /\ worker.fid \in Fids
      BY <1>1, <2>4 DEF TextInv, Job, JobsOK, Typed, WorkerOK
    <3>2. remote[worker.fid].of = Job.row
      <4>1. row[Job.row].fid # NoFid
        BY <3>1, Apart
      <4>2. remote[row[Job.row].fid].of = Job.row
        BY <3>1, <4>1 DEF RowsOK
      <4> QED BY <3>1, <4>2
    <3>3. Job.row # c
      BY <1>1, <2>4 DEF OnRecord, Job, Typed, WorkerOK
    <3> QED BY <1>1, <2>1, <2>4, <3>1, <3>2, <3>3 DEF Obeyed
  <2> QED BY <2>2, <2>3, <2>4
<1> QED BY <1>2, <1>3, <1>4, <1>5 DEF TextOf, OnRecord, AnotherUpdate

LEMMA TextGuest ==
  ASSUME StoreInv, GuestStep, NEW c \in Comments, c \notin touched', TextOf(c)
  PROVE  TextOf(c)'
<1> USE DEF StoreInv
<1>1. Guested /\ UNCHANGED <<row, jobs, worker>>
  BY GuestFacts
<1>2. ASSUME NEW f \in Fids, IsCopy(f, c) PROVE remote'[f].text = remote[f].text
  BY <1>1, <1>2 DEF Guested, OwnerOf, IsCopy
<1>3. row[c].fid # NoFid => row[c].fid \in Fids /\ IsCopy(row[c].fid, c)
  BY Apart DEF Typed, TypeOK, RowType, RowsOK, IsCopy
<1>4. Sends(c) /\ worker.pc = "answered" => worker.fid \in Fids /\ IsCopy(worker.fid, c)
  <2> SUFFICES ASSUME Sends(c), worker.pc = "answered" PROVE worker.fid \in Fids /\ IsCopy(worker.fid, c)
    OBVIOUS
  <2>1. worker.fid \in Fids /\ Busy /\ Job.row = c
    BY DEF Typed, WorkerOK, Sends
  <2>2. CASE Job.action = "create"
    BY <2>1, <2>2 DEF JobsOK, IsCopy
  <2>3. CASE Job.action # "create"
    BY <1>3, <2>1, <2>3, Apart DEF JobsOK
  <2> QED BY <2>1, <2>2, <2>3
<1> QED BY <1>1, <1>2, <1>3, <1>4, TextStays

LEMMA TextProcess ==
  ASSUME StoreInv, NEW j \in worker.batch, Process(j), NEW c \in Comments, TextOf(c)
  PROVE  TextOf(c)'
<1> USE DEF StoreInv
<1>1. row' = row /\ remote' = remote
  BY DEF Process
<1>2. CASE Pass(j)
  <2>1. row[c].fid # NoFid => ~(jobs[j].row = c /\ jobs[j].action = "update")
    BY <1>2 DEF Pass, NothingToDo, Subject
  <2> QED BY <1>1, <1>2, <2>1, PassFacts, LeftTyped, LeftRecord, TextRests
<1>3. CASE Defer(j)
  <2>1. Failed(jobs[j]).status # "succeeded"
    BY <1>3, NextFacts, FailedFacts DEF Defer, Typed, WorkerOK, Pending
  <2> QED BY <1>1, <1>3, <2>1, DeferFacts, LeftTyped, LeftRecord, TextRests
<1>4. CASE Ask(j)
  <2>1. /\ worker'.pc = "asked" /\ worker'.job = j /\ worker'.text = row[jobs[j].row].text
        /\ Job'.row = jobs[j].row /\ Job'.action = jobs[j].action
    BY <1>4, AskFacts, AskRecord DEF Subject, Job
  <2>2. Recorded(c, "update")
    BY <1>4, AskRecord
  <2>3. Sends(c)' => row'[c].text = worker'.text
    BY <1>1, <2>1 DEF Sends
  <2> QED BY <1>1, <2>1, <2>2, <2>3, RecordKept DEF TextOf
<1> QED BY <1>2, <1>3, <1>4 DEF Process

LEMMA NewUpdates ==
  ASSUME StoreInv, Next, \A j \in DOMAIN jobs : jobs[j].action = "update" => jobs[j].row \in Comments
  PROVE  \A j \in DOMAIN jobs' : jobs'[j].action = "update" => jobs'[j].row \in Comments
<1> USE DEF StoreInv
<1>1. CASE StaffStep
  <2>1. PICK r \in Rows : Staffed(r)
    BY <1>1, StaffFacts DEF Typed
  <2> QED BY <2>1, StaffJob DEF Grown, Fresh
<1>2. ASSUME NEW j \in worker.batch, Process(j)
      PROVE  \A k \in DOMAIN jobs' : jobs'[k].action = "update" => jobs'[k].row \in Comments
  <2>1. CASE Pass(j) \/ Defer(j)
    BY <2>1, PassFacts, DeferFacts DEF Left
  <2>2. CASE Ask(j)
    <3>1. DOMAIN jobs' = DOMAIN jobs
      BY <2>2, AskFacts
    <3>2. /\ jobs'[j].row = jobs[j].row /\ jobs'[j].action = jobs[j].action
          /\ \A k \in DOMAIN jobs : k # j => jobs'[k] = jobs[k]
      BY <2>2, AskRecord
    <3> QED BY <3>1, <3>2
  <2> QED BY <1>2, <2>1, <2>2 DEF Process
<1>3. CASE Refused \/ Answered \/ AnswerLost
  BY <1>3, RefusedFacts, AnsweredFacts, AnswerLostFacts DEF Left
<1>4. CASE jobs' = jobs
  BY <1>4
<1> QED BY <1>1, <1>2, <1>3, <1>4 DEF Next, WorkerStep, Tick, Obey, GuestStep, Webhook, PullAnswered, PullInserts, Restart, local

LEMMA TextStep == ASSUME StoreInv, TextInv, Next PROVE TextInv'
<1> SUFFICES ASSUME NEW c \in Comments \ touched' PROVE TextOf(c)'
  BY NewUpdates DEF TextInv
<1> USE DEF StoreInv
<1>1. touched \subseteq touched'
  <2>1. CASE \E e \in hooks : Webhook(e)
    BY <2>1, WebhookFacts
  <2>2. CASE touched' = touched \/ GuestStep
    BY <2>2, GuestFacts DEF Guested
  <2> QED BY <2>1, <2>2, StaffFacts DEF Next, WorkerStep, Tick, Process, Refused, Answered, AnswerLost, Obey, PullAnswered,
                                   PullInserts, Restart, ghosts, Typed
<1>2. TextOf(c)
  BY <1>1 DEF TextInv
<1>3. CASE StaffStep
  BY <1>2, <1>3, StaffFacts, TextStaff DEF Typed
<1>4. CASE \E D : Tick(D)
  BY <1>2, <1>4, TickFacts, SameRecord, TextRests DEF Busy
<1>5. CASE \E j \in worker.batch : Process(j)
  BY <1>2, <1>5, TextProcess
<1>6. CASE Refused \/ AnswerLost
  <2>1. row' = row /\ remote' = remote /\ Left(worker.job, Failed(Job)) /\ Busy
    BY <1>6, RefusedFacts, AnswerLostFacts DEF Refused, AnswerLost, Busy
  <2>2. Failed(Job).status # "succeeded"
    <3>1. Job \in JobType /\ Job.tries < MaxTries
      BY <2>1, BusyFacts DEF Typed, WorkerOK, Job
    <3> QED BY <3>1, FailedFacts
  <2> QED BY <1>2, <2>1, <2>2, LeftTyped, LeftRecord, TextRests
<1>7. CASE Answered
  BY <1>2, <1>7, TextAnswered
<1>8. CASE Obey
  BY <1>2, <1>8, TextObey
<1>9. CASE GuestStep
  BY <1>2, <1>9, TextGuest
<1>10. ASSUME NEW e \in hooks, Webhook(e) PROVE TextOf(c)'
  <2>1. UNCHANGED <<jobs, worker, remote>>
    BY <1>10, WebhookFacts
  <2>2. row'[c].fid = row[c].fid /\ row'[c].text = row[c].text
    <3>1. CASE \E S : Imports(S)
      BY <3>1, Apart DEF Imports
    <3>2. CASE Marks(e.fid) /\ \A r \in Rows : row'[r].text = row[r].text
      BY <3>2, Apart DEF Marks
    <3>3. CASE Marks(e.fid) /\ touched' = touched \cup (RowsOf(e.fid) \cap Comments)
      <4>1. row[c].fid # e.fid
        BY <3>3, Apart DEF RowsOf
      <4> QED BY <3>3, <4>1, Apart DEF Marks
    <3> QED BY <1>10, <3>1, <3>2, <3>3, WebhookFacts
  <2> QED BY <1>2, <2>1, <2>2, TextStays
<1>11. CASE PullAnswered
  BY <1>2, <1>11, TextStays DEF PullAnswered, local
<1>12. CASE PullInserts
  BY <1>2, <1>12, PullFacts, Apart, TextStays DEF Imports
<1>13. CASE Restart
  BY <1>2, <1>13, SameRecord, TextRests DEF Restart, local, Busy, Resting
<1> QED BY <1>3, <1>4, <1>5, <1>6, <1>7, <1>8, <1>9, <1>10, <1>11, <1>12, <1>13 DEF Next, WorkerStep

-----------------------------------------------------------------------------
(* Deletions. *)

\* A tick that takes a job takes the due ones before it.
LEMMA OldestFacts ==
  ASSUME NEW S, IsFiniteSet(S), S \subseteq Nat, NEW n \in Nat, NEW j \in Oldest(S, n), NEW k \in S, k < j
  PROVE  k \in Oldest(S, n)
<1> DEFINE A == {i \in S : i < k}
           B == {i \in S : i < j}
<1>1. A \subseteq B
  <2>1. \A i \in S : i < k => i < j
    BY DEF Oldest
  <2> QED BY <2>1
<1>2. IsFiniteSet(B) /\ IsFiniteSet(A)
  BY FS_Subset
<1>3. Cardinality(A) <= Cardinality(B) /\ Cardinality(A) \in Nat /\ Cardinality(B) \in Nat
  BY <1>1, <1>2, FS_Subset, FS_CardinalityType
<1>4. Cardinality(B) < n
  BY DEF Oldest
<1>5. Cardinality(A) < n
  BY <1>3, <1>4
<1> QED BY <1>5 DEF Oldest

LEMMA BeforeTick == ASSUME StoreInv, NEW D, Tick(D) PROVE Before'
<1> DEFINE S == {j \in DOMAIN jobs : Pending(j) /\ (jobs[j].tries = 0 \/ j \in D)}
<1>1. DOMAIN jobs = 1..Len(jobs) /\ Len(jobs) \in Nat
  BY JobsTyped DEF StoreInv, Typed
<1>2. IsFiniteSet(DOMAIN jobs)
  BY <1>1, FS_Interval
<1>3. IsFiniteSet(S) /\ S \subseteq Nat
  BY <1>1, <1>2, FS_Subset
<1>4. worker'.batch = Oldest(S, BatchSize) /\ jobs' = jobs
  BY TickFacts DEF StoreInv
<1>5. \A k \in DOMAIN jobs : Pending(k) /\ jobs[k].tries = 0 => k \in S
  OBVIOUS
<1>6. BatchSize \in Nat
  BY MirrorAssumption
<1> HIDE DEF S
<1>7. ASSUME NEW j \in worker'.batch, NEW k \in DOMAIN jobs, k < j, k \in S PROVE k \in worker'.batch
  <2>1. j \in Oldest(S, BatchSize)
    BY <1>4
  <2>2. k \in Oldest(S, BatchSize)
    BY <1>3, <1>6, <1>7, <2>1, OldestFacts
  <2> QED BY <1>4, <2>2
<1> QED BY <1>4, <1>5, <1>7 DEF Before, Pending

LEMMA BeforeLeft == ASSUME StoreInv, Before, NEW j, NEW new, Left(j, new) PROVE Before'
<1>1. worker'.batch = worker.batch \ {j} /\ DOMAIN jobs' = DOMAIN jobs
  BY DEF Left
<1>2. \A k \in DOMAIN jobs : k # j => jobs'[k] = jobs[k]
  BY DEF Left
<1>3. jobs'[j].status = "pending" => jobs'[j].tries # 0
  <2>1. j \in DOMAIN jobs /\ jobs[j].tries \in 0..MaxTries
    BY JobsTyped DEF Left, StoreInv, Typed, WorkerOK
  <2> QED BY <2>1 DEF Left
<1> QED BY <1>1, <1>2, <1>3 DEF Before, Pending

LEMMA BeforeStep == ASSUME StoreInv, Before, Next PROVE Before'
<1> USE DEF StoreInv
<1>1. CASE StaffStep
  <2>1. PICK r \in Rows : Staffed(r)
    BY <1>1, StaffFacts DEF Typed
  <2>2. worker' = worker
    BY <1>1, StaffFacts DEF Typed
  <2>3. \A k \in DOMAIN jobs' : k \in DOMAIN jobs \/ \A j \in DOMAIN jobs : j < k
    BY <2>1, StaffJob DEF Fresh
  <2>4. \A k \in DOMAIN jobs : jobs'[k] = jobs[k]
    BY <2>1, StaffJob DEF Grown
  <2>5. worker.batch \subseteq DOMAIN jobs /\ DOMAIN jobs \subseteq Nat /\ DOMAIN jobs' \subseteq Nat
    BY <2>1, JobsTyped, StaffJobs DEF Typed, WorkerOK
  <2>6. \A j \in worker.batch, k \in DOMAIN jobs' : k < j => k \in DOMAIN jobs
    BY <2>3, <2>5
  <2> QED BY <2>2, <2>4, <2>6 DEF Before, Pending
<1>2. CASE \E D : Tick(D)
  BY <1>2, BeforeTick
<1>3. ASSUME NEW j \in worker.batch, Process(j) PROVE Before'
  <2>1. CASE Pass(j) \/ Defer(j)
    BY <2>1, PassFacts, DeferFacts, BeforeLeft
  <2>2. CASE Ask(j)
    <3>1. DOMAIN jobs' = DOMAIN jobs /\ worker'.batch = worker.batch /\ jobs'[j].status # "pending"
      <4>1. jobs'[j] = [jobs[j] EXCEPT !.status = "in_flight"] /\ jobs[j] \in JobType
        BY <2>2, AskFacts, NextFacts DEF Ask
      <4>2. jobs'[j].status = "in_flight"
        BY <4>1 DEF JobType
      <4> QED BY <2>2, <4>2, AskFacts
    <3>2. \A k \in DOMAIN jobs : k # j => jobs'[k] = jobs[k]
      BY <2>2, AskRecord
    <3> QED BY <3>1, <3>2 DEF Before, Pending
  <2> QED BY <1>3, <2>1, <2>2 DEF Process
<1>4. CASE Refused \/ Answered \/ AnswerLost
  BY <1>4, RefusedFacts, AnsweredFacts, AnswerLostFacts, BeforeLeft
<1>5. CASE Obey
  BY <1>5, ObeyFacts DEF Obeyed, Before, Pending
<1>6. CASE Restart
  BY <1>6 DEF Restart, local, Resting, Before
<1>7. CASE UNCHANGED <<jobs, worker>>
  BY <1>7 DEF Before, Pending
<1> QED BY <1>1, <1>2, <1>3, <1>4, <1>5, <1>6, <1>7 DEF Next, WorkerStep, GuestStep, Webhook, PullAnswered, PullInserts, local

\* A create job that is late stays late.
LateKept(c) == \A k \in DOMAIN jobs' : IsCreate(k, c)' => k \in DOMAIN jobs /\ IsCreate(k, c) /\ (Late(k) => Late(k)')

\* Neither the row's state nor its name changes, its copy stays deleted, and jobs stay.
LEMMA DeletionRests ==
  ASSUME StoreInv, NEW c \in Comments, DeletionOf(c), row'[c].state = "deleted" => row[c].state = "deleted",
         row[c].fid # NoFid => row'[c].fid = row[c].fid,
         \A f \in Fids : remote[f].state = "deleted" => remote'[f].state = "deleted",
         Recorded(c, "delete"), LateKept(c)
  PROVE  DeletionOf(c)'
<1>1. row[c].fid \in Fids \cup {NoFid}
  BY Apart DEF StoreInv, Typed, TypeOK, RowType
<1> QED BY <1>1, RecordKept DEF DeletionOf, LateKept

LEMMA LateSame ==
  ASSUME NEW c, jobs' = jobs, (Busy' /\ Busy /\ worker'.job = worker.job) \/ ~Busy'
  PROVE  LateKept(c)
BY DEF LateKept, IsCreate, Late

LEMMA LateLeft == ASSUME StoreInv, NEW c, NEW j, NEW new, Left(j, new) PROVE LateKept(c)
<1> SUFFICES ASSUME NEW k \in DOMAIN jobs', IsCreate(k, c)'
             PROVE  k \in DOMAIN jobs /\ IsCreate(k, c) /\ (Late(k) => Late(k)')
  BY DEF LateKept
<1>1. k \in DOMAIN jobs /\ IsCreate(k, c) /\ ~Busy'
  BY LeftTyped DEF StoreInv, Left, IsCreate
<1>2. CASE k # j
  BY <1>1, <1>2 DEF Left, Late
<1>3. CASE k = j
  <2>1. Late(k) => jobs[j].tries > 0
    BY <1>3 DEF Late, Left, Pending
  <2>2. jobs[j].tries \in Nat /\ jobs'[j] = new
    BY <1>1, <1>3, JobsTyped DEF Left, StoreInv, Typed
  <2>3. Late(k) => new.tries > 0
    BY <2>1, <2>2 DEF Left
  <2> QED BY <1>1, <1>3, <2>2, <2>3 DEF Late
<1> QED BY <1>2, <1>3

\* A delete job that passes has a late create job, or none.
LEMMA PassedDelete ==
  ASSUME StoreInv, DeleteInv, NEW j, Pass(j), jobs[j].action = "delete", NEW k \in DOMAIN jobs,
         IsCreate(k, jobs[j].row)
  PROVE  Late(k)
<1> USE DEF StoreInv
<1>1. IsNext(j) /\ j \in worker.batch /\ j \in DOMAIN jobs /\ ~Busy /\ row[jobs[j].row].fid = NoFid
  BY NextFacts DEF Pass, NothingToDo, Subject
<1>2. /\ jobs[k].row = jobs[j].row /\ jobs[k].action = "create" /\ k # j /\ k <= j
      /\ jobs[k].status # "succeeded"
  BY <1>1 DEF IsCreate, JobsOK
<1>3. /\ j \in Nat /\ k \in Nat /\ jobs[k].tries \in Nat
      /\ jobs[k].status \in {"pending", "in_flight", "succeeded", "abandoned"}
  BY <1>1, JobsTyped DEF Typed, Statuses
<1>4. k < j
  BY <1>2, <1>3
<1>5. k \notin worker.batch
  BY <1>1, <1>3, <1>4 DEF IsNext
<1>6. jobs[k].status = "pending" => jobs[k].tries # 0
  BY <1>1, <1>4, <1>5 DEF DeleteInv, Before, Pending
<1>7. jobs[k].status = "abandoned" => jobs[k].tries > 0
  BY DEF Typed, WorkerOK
<1> QED BY <1>1, <1>2, <1>3, <1>6, <1>7 DEF Late

LEMMA DeletionProcess ==
  ASSUME StoreInv, DeleteInv, NEW j \in worker.batch, Process(j), NEW c \in Comments
  PROVE  DeletionOf(c)'
<1> USE DEF StoreInv
<1>1. row' = row /\ remote' = remote /\ DeletionOf(c)
  BY DEF Process, DeleteInv
<1>2. CASE Pass(j)
  <2>1. Left(j, Succeeded(jobs[j])) /\ LateKept(c)
    BY <1>2, PassFacts, LateLeft
  <2>2. CASE jobs[j].row = c /\ jobs[j].action = "delete"
    <3>1. \A k \in DOMAIN jobs : IsCreate(k, c) => Late(k)
      BY <1>2, <2>2, PassedDelete
    <3> QED BY <2>1, <3>1 DEF DeletionOf, LateKept
  <2>3. CASE ~(jobs[j].row = c /\ jobs[j].action = "delete")
    <3>1. Recorded(c, "delete")
      BY <2>1, <2>3, LeftRecord
    <3> QED BY <1>1, <2>1, <3>1, DeletionRests
  <2> QED BY <2>2, <2>3
<1>3. CASE Defer(j)
  <2>1. Failed(jobs[j]).status # "succeeded"
    BY <1>3, NextFacts, FailedFacts DEF Defer, Typed, WorkerOK, Pending
  <2> QED BY <1>1, <1>3, <2>1, DeferFacts, LateLeft, LeftRecord, DeletionRests
<1>4. CASE Ask(j)
  <2>1. /\ DOMAIN jobs' = DOMAIN jobs /\ ~Busy /\ jobs[j].status = "pending" /\ j \in DOMAIN jobs
        /\ jobs'[j] = [jobs[j] EXCEPT !.status = "in_flight"] /\ worker'.job = j /\ jobs[j] \in JobType
    BY <1>4, AskFacts, NextFacts DEF Ask, Pending
  <2>2. /\ Recorded(c, "delete") /\ jobs'[j].row = jobs[j].row /\ jobs'[j].action = jobs[j].action
        /\ \A k \in DOMAIN jobs : k # j => jobs'[k] = jobs[k]
    BY <1>4, AskRecord
  <2>3. jobs'[j].tries = jobs[j].tries
    BY <2>1 DEF JobType
  <2>4. LateKept(c)
    BY <2>1, <2>2, <2>3 DEF LateKept, IsCreate, Late
  <2> QED BY <1>1, <2>2, <2>4, DeletionRests
<1> QED BY <1>2, <1>3, <1>4 DEF Process

LEMMA DeletionStaff ==
  ASSUME StoreInv, NEW r \in Rows, Staffed(r), worker' = worker, remote' = remote, NEW c \in Comments, DeletionOf(c)
  PROVE  DeletionOf(c)'
<1> USE DEF StoreInv
<1>1. Recorded(c, "delete") /\ (row[c].fid # NoFid => row'[c].fid = row[c].fid)
  BY StaffJob, StaffLast DEF Recorded, Grown, Lasting
<1>2. CASE row[c].state = "none"
  BY <1>2, Apart DEF Staffed, DeletionOf
<1>3. CASE row[c].state # "none"
  <2>1. LateKept(c)
    <3>1. \A k \in DOMAIN jobs' : IsCreate(k, c)' => k \in DOMAIN jobs
      BY <1>3, StaffJob DEF Fresh, IsCreate
    <3>2. \A k \in DOMAIN jobs : k \in DOMAIN jobs' /\ jobs'[k] = jobs[k]
      BY StaffJob DEF Grown
    <3>3. Busy' /\ worker'.job = worker.job <=> Busy
      BY DEF Busy
    <3> QED BY <3>1, <3>2, <3>3 DEF LateKept, IsCreate, Late
  <2>2. CASE row[c].state = "deleted" \/ row'[c].state # "deleted"
    BY <1>1, <2>1, <2>2, DeletionRests
  <2>3. CASE row[c].state # "deleted" /\ row'[c].state = "deleted"
    <3>1. r = c /\ Enqueue(c, "delete")
      BY <2>3, Apart DEF Staffed
    <3> QED BY <3>1, EnqueueFacts, Apart DEF OnRecord, DeletionOf, Typed, Actions
  <2> QED BY <2>2, <2>3
<1> QED BY <1>2, <1>3

LEMMA DeletionAnswered ==
  ASSUME StoreInv, DeleteInv, Answered, NEW c \in Comments
  PROVE  DeletionOf(c)'
<1> USE DEF StoreInv
<1>1. /\ Left(worker.job, Succeeded(Job)) /\ remote' = remote /\ Busy /\ worker.pc = "answered"
      /\ worker.fid \in Fids /\ Job = jobs[worker.job] /\ DeletionOf(c)
  BY AnsweredFacts, AnsweredNames DEF Job, DeleteInv
<1>2. LateKept(c)
  BY <1>1, LateLeft
<1>3. CASE Job.row = c /\ Job.action = "delete"
  <2>1. row' = row /\ remote[worker.fid].state = "deleted" /\ worker.fid = row[c].fid
    BY <1>1, <1>3, AnsweredNames DEF DeleteInv, JobsOK
  <2> QED BY <1>1, <2>1, Apart DEF DeletionOf
<1>4. CASE ~(Job.row = c /\ Job.action = "delete")
  <2>1. Recorded(c, "delete")
    BY <1>1, <1>4, LeftRecord
  <2>2. row'[c].state = row[c].state /\ (row[c].fid # NoFid => row'[c].fid = row[c].fid)
    <3>1. row[c] \in RowType
      BY Apart DEF Typed, TypeOK
    <3>2. CASE Job.action = "create"
      BY <3>1, <3>2, Apart, AnsweredNames DEF Names, RowType
    <3>3. CASE Job.action # "create"
      BY <3>3, AnsweredNames
    <3> QED BY <3>2, <3>3
  <2> QED BY <1>1, <1>2, <2>1, <2>2, DeletionRests
<1> QED BY <1>3, <1>4

LEMMA DeletionWebhook ==
  ASSUME StoreInv, NEW e \in hooks, Webhook(e), NEW c \in Comments, DeletionOf(c)
  PROVE  DeletionOf(c)'
<1> USE DEF StoreInv
<1>1. UNCHANGED <<jobs, worker, remote>> /\ Lasting /\ e.fid \in Fids
  BY WebhookFacts, WebhookLast
<1>2. Recorded(c, "delete") /\ LateKept(c)
  BY <1>1, SameRecord, LateSame DEF Busy
<1>3. CASE row'[c].state = row[c].state
  BY <1>1, <1>2, <1>3, DeletionRests DEF Lasting
<1>4. CASE row'[c].state # row[c].state
  <2>1. row[c].fid = e.fid /\ e.kind = "deleted"
    BY <1>4, Apart, WebhookFacts DEF Marks, Imports
  <2>2. remote[e.fid].state = "deleted"
    BY <2>1 DEF RowsOK
  <2> QED BY <1>1, <2>1, <2>2, Apart DEF DeletionOf, Lasting
<1> QED BY <1>3, <1>4

LEMMA DeleteStep == ASSUME StoreInv, DeleteInv, Next PROVE DeleteInv'
<1> USE DEF StoreInv
<1>1. Before'
  BY BeforeStep DEF DeleteInv
<1>2. worker'.pc = "answered" /\ Job'.action = "delete" => remote'[worker'.fid].state = "deleted"
  <2> SUFFICES ASSUME worker'.pc = "answered", Job'.action = "delete" PROVE remote'[worker'.fid].state = "deleted"
    OBVIOUS
  <2>1. CASE Obey
    BY <2>1, ObeyFacts DEF Obeyed, Job
  <2>2. CASE worker' = worker /\ ~WorkerStep /\ ~Obey
    <3>1. worker.job \in DOMAIN jobs /\ worker.fid \in Fids
      BY <2>2, BusyFacts DEF Busy, Typed, WorkerOK
    <3>2. CASE StaffStep
      <4>1. Job' = Job
        BY <2>2, <3>1, <3>2, StaffFacts, StaffJob DEF Job, Grown, Typed
      <4> QED BY <2>2, <3>2, <4>1, StaffFacts DEF DeleteInv, Typed
    <3>3. CASE ~StaffStep
      <4>1. Job' = Job
        BY <2>2, <3>3 DEF Next, GuestStep, Webhook, PullAnswered, PullInserts, Restart, local, Job
      <4>2. \A f \in Fids : remote[f].state = "deleted" => remote'[f].state = "deleted"
        BY <2>2, <3>3, GuestFacts DEF Next, Webhook, PullAnswered, PullInserts, Restart, Guested, RemoteGrows
      <4> QED BY <2>2, <3>1, <4>1, <4>2 DEF DeleteInv
    <3> QED BY <3>2, <3>3
  <2>3. CASE WorkerStep \/ Restart
    BY <2>3, TickFacts, PassFacts, DeferFacts, AskFacts, RefusedFacts, AnsweredFacts, AnswerLostFacts
       DEF WorkerStep, Process, Left, Restart, Resting
  <2> QED BY <2>1, <2>2, <2>3, StaffFacts, GuestFacts, WebhookFacts, PullFacts DEF Next, PullAnswered, Typed
<1>3. ASSUME NEW c \in Comments PROVE DeletionOf(c)'
  <2>1. DeletionOf(c)
    BY DEF DeleteInv
  <2>2. CASE StaffStep
    BY <2>1, <2>2, StaffFacts, DeletionStaff DEF Typed
  <2>3. CASE \E D : Tick(D)
    <3>1. row' = row /\ remote' = remote /\ jobs' = jobs /\ ~Busy'
      BY <2>3, TickFacts DEF Busy
    <3> QED BY <2>1, <3>1, SameRecord, LateSame, DeletionRests
  <2>4. CASE \E j \in worker.batch : Process(j)
    BY <2>4, DeletionProcess
  <2>5. CASE Refused \/ AnswerLost
    <3>1. row' = row /\ remote' = remote /\ Left(worker.job, Failed(Job)) /\ Busy
      BY <2>5, RefusedFacts, AnswerLostFacts DEF Refused, AnswerLost, Busy
    <3>2. Failed(Job).status # "succeeded"
      <4>1. Job \in JobType /\ Job.tries < MaxTries
        BY <3>1, BusyFacts DEF Typed, WorkerOK, Job
      <4> QED BY <4>1, FailedFacts
    <3> QED BY <2>1, <3>1, <3>2, LateLeft, LeftRecord, DeletionRests
  <2>6. CASE Answered
    BY <2>6, DeletionAnswered
  <2>7. CASE Obey
    <3>1. Obeyed
      BY <2>7, ObeyFacts
    <3>2. row' = row /\ jobs' = jobs /\ Busy /\ Busy' /\ worker'.job = worker.job
      BY <3>1 DEF Obeyed, Busy
    <3>3. \A f \in Fids : remote[f].state = "deleted" => remote'[f].state = "deleted"
      BY <3>1 DEF Obeyed, RemoteGrows
    <3> QED BY <2>1, <3>2, <3>3, SameRecord, LateSame, DeletionRests
  <2>8. CASE GuestStep
    <3>1. UNCHANGED <<row, jobs, worker>> /\ \A f \in Fids : remote[f].state = "deleted" => remote'[f].state = "deleted"
      BY <2>8, GuestFacts DEF Guested, RemoteGrows
    <3> QED BY <2>1, <3>1, SameRecord, LateSame, DeletionRests DEF Busy
  <2>9. CASE \E e \in hooks : Webhook(e)
    BY <2>1, <2>9, DeletionWebhook
  <2>10. CASE PullAnswered
    <3>1. UNCHANGED <<row, jobs, worker, remote>>
      BY <2>10 DEF PullAnswered, local
    <3> QED BY <2>1, <3>1, SameRecord, LateSame, DeletionRests DEF Busy
  <2>11. CASE PullInserts
    <3>1. UNCHANGED <<jobs, worker, remote>> /\ row'[c] = row[c]
      BY <2>11, PullFacts, Apart DEF Imports
    <3> QED BY <2>1, <3>1, SameRecord, LateSame, DeletionRests DEF Busy
  <2>12. CASE Restart
    <3>1. UNCHANGED <<row, jobs, remote>> /\ ~Busy'
      BY <2>12 DEF Restart, local, Resting, Busy
    <3> QED BY <2>1, <3>1, SameRecord, LateSame, DeletionRests
  <2> QED BY <2>2, <2>3, <2>4, <2>5, <2>6, <2>7, <2>8, <2>9, <2>10, <2>11, <2>12 DEF Next, WorkerStep
<1> QED BY <1>1, <1>2, <1>3 DEF DeleteInv

-----------------------------------------------------------------------------
(* The theorems. *)

MirrorInv == StoreInv /\ CopyInv /\ TextInv /\ DeleteInv

LEMMA MirrorInvInit == Init => MirrorInv
<1> SUFFICES ASSUME Init PROVE MirrorInv
  OBVIOUS
<1>1. StoreInv
  BY StoreInit
<1>2. /\ \A r \in Rows : row[r].state = "none" /\ row[r].fid = NoFid
      /\ DOMAIN jobs = {} /\ worker.pc = "idle" /\ worker.batch = {} /\ \A f \in Fids : remote[f].state = "none"
  BY DEF Init, NoRow, Resting
<1>3. CopyInv
  BY <1>2 DEF CopyInv, IsCopy
<1>4. TextInv
  BY <1>2, Apart DEF TextInv, TextOf, Sends, Busy
<1>5. DeleteInv
  BY <1>2, Apart DEF DeleteInv, DeletionOf, Before
<1> QED BY <1>1, <1>3, <1>4, <1>5 DEF MirrorInv

LEMMA MirrorInvStep == MirrorInv /\ [Next]_vars => MirrorInv'
<1> SUFFICES ASSUME MirrorInv, [Next]_vars PROVE MirrorInv'
  OBVIOUS
<1>1. StoreInv'
  BY StoreStep DEF MirrorInv
<1>2. CASE Next
  BY <1>1, <1>2, CopyStep, TextStep, DeleteStep DEF MirrorInv
<1>3. CASE UNCHANGED vars
  <2>1. UNCHANGED <<row, jobs, worker, remote, hooks, lost, touched>>
    BY <1>3 DEF vars, ghosts
  <2>2. CopyInv'
    BY <2>1 DEF MirrorInv, CopyInv, IsCopy, IsCreate
  <2>3. TextInv'
    BY <2>1 DEF MirrorInv, TextInv, TextOf, Sends, Busy, Job, OnRecord, AnotherUpdate
  <2>4. DeleteInv'
    BY <2>1 DEF MirrorInv, DeleteInv, DeletionOf, Before, Pending, OnRecord, IsCreate, Late, Busy, Job
  <2> QED BY <1>1, <2>2, <2>3, <2>4 DEF MirrorInv
<1> QED BY <1>2, <1>3

LEMMA MirrorAlways == Spec => []MirrorInv
BY MirrorInvInit, MirrorInvStep, PTL DEF Spec

\* The state has its types (media-comment-store.ts).
THEOREM MirrorTypes == Spec => []TypeOK
<1>1. MirrorInv => TypeOK
  BY DEF MirrorInv, StoreInv, Typed
<1> QED BY <1>1, MirrorAlways, PTL

LEMMA CopiesAreOne == MirrorInv => OneCopy
<1> SUFFICES ASSUME MirrorInv, NEW c \in Comments \ lost
             PROVE  LET copies == {f \in Fids : remote[f].state # "none" /\ remote[f].of = c}
                    IN Cardinality(copies) <= 1 /\ \A f \in copies : row[f].state = "none"
  BY DEF OneCopy
<1> DEFINE copies == {f \in Fids : remote[f].state # "none" /\ remote[f].of = c}
<1>1. \A f \in copies : row[f].state = "none" /\ (row[c].fid = f \/ Answering(f, c))
  BY CopyFacts DEF MirrorInv, IsCopy
<1>2. \A f \in Fids : Answering(f, c) => row[c].fid = NoFid
  BY BusyFacts DEF MirrorInv, StoreInv, Answering, IsCreate, Busy, JobsOK, Typed, WorkerOK, Job
<1>3. \A f, g \in copies : f = g
  BY <1>1, <1>2, Apart DEF Answering
<1>4. CASE copies = {}
  BY <1>1, <1>4, FS_EmptySet
<1>5. CASE copies # {}
  <2>1. PICK f : f \in copies
    BY <1>5
  <2>2. copies = {f}
    BY <1>3, <2>1
  <2>3. Cardinality(copies) = 1
    BY <2>2, FS_Singleton
  <2> QED BY <1>1, <2>3
<1> QED BY <1>4, <1>5

\* A comment whose id did not get lost is on Frame.io once: retries, ticks and restarts of the
\* mirror (media-comment-mirror.ts) make no second copy.
THEOREM CommentOnce == Spec => []OneCopy
BY MirrorAlways, CopiesAreOne, PTL

LEMMA ChangesArrive == MirrorInv => ChangesReach
<1> SUFFICES ASSUME MirrorInv, NEW c \in Comments, row[c].fid # NoFid
             PROVE  /\ remote[row[c].fid].text = row[c].text \/ c \in touched \/ OnRecord(c, "update")
                    /\ row[c].state = "deleted" =>
                         \/ remote[row[c].fid].state = "deleted" \/ OnRecord(c, "delete")
                         \/ \E j \in DOMAIN jobs : jobs[j].row = c /\ jobs[j].action = "create" /\ jobs[j].tries > 0
  BY DEF ChangesReach
<1>1. c \notin touched => TextOf(c)
  BY DEF MirrorInv, TextInv
<1>2. DeletionOf(c)
  BY DEF MirrorInv, DeleteInv
<1>3. PICK j \in DOMAIN jobs : IsCreate(j, c)
  BY DEF MirrorInv, StoreInv, JobsOK
<1>4. jobs[j].row = c /\ jobs[j].action = "create" /\ jobs[j].status = "succeeded"
  BY <1>3 DEF MirrorInv, StoreInv, JobsOK, IsCreate
<1>5. Late(j) => jobs[j].tries > 0
  BY <1>4 DEF Late
<1> QED BY <1>1, <1>2, <1>3, <1>4, <1>5 DEF TextOf, DeletionOf

\* Texts and deletions reach Frame.io or are still on record as jobs, whatever is edited
\* between a job and the next (media-comment-store.ts, media-comment-mirror.ts).
THEOREM ChangesAreMirrored == Spec => []ChangesReach
BY MirrorAlways, ChangesArrive, PTL
=============================================================================
