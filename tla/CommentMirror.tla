------------------------------ MODULE CommentMirror ------------------------------
(***************************************************************************)
(* Media comments and their mirror on Frame.io: the local rows, the queue  *)
(* of mirror jobs with its worker (MediaCommentMirrorService), the webhook *)
(* and the pull that bring comments back, for one file on Frame.io.        *)
(*                                                                         *)
(* Only top-level comments of clients' and staff's common view are here:   *)
(* replies and internal comments never enter the queue.  Frame.io is       *)
(* external: it carries out a request or refuses it, its answer may be     *)
(* lost, and its events may be lost, repeated or reordered.                *)
(*                                                                         *)
(* Definitions marked "Mutation" are wrong on purpose and used nowhere: the *)
(* properties are shown to fail when one replaces the definition after it. *)
(***************************************************************************)
EXTENDS Naturals, FiniteSets, Sequences

CONSTANTS
  Comments,   \* comments written in LPOS
  Texts,      \* what a comment may say
  MaxRemote,  \* bound: comments ever made on Frame.io
  MaxJobs,    \* bound: mirror jobs ever queued
  MaxSteps,   \* bound: what staff and the users of Frame.io do
  MaxEvents,  \* bound: events on their way at once (one more is lost)
  MaxTries,   \* attempts that fit into the three hours before a job is abandoned
  BatchSize,  \* jobs a tick takes (5)
  MaxRestarts \* bound: restarts of the server

Fids == 1..MaxRemote
NoFid == 0
Rows == Comments \cup Fids  \* a row the webhook or the pull inserts has its Frame.io id's name

Author == "author"  \* whoever wrote a comment on Frame.io itself

ASSUME MirrorAssumption ==
  /\ Texts # {} /\ Comments \cap Nat = {} /\ Author \notin Comments
  /\ MaxRemote \in Nat /\ MaxJobs \in Nat /\ MaxRestarts \in Nat
  /\ MaxSteps \in Nat /\ MaxEvents \in Nat
  /\ MaxTries \in Nat \ {0} /\ BatchSize \in Nat \ {0}

VARIABLES
  row,      \* media_comments
  jobs,     \* media_comment_mirror_jobs, oldest first
  worker,   \* the tick: the jobs it took, the request it waits for
  remote,   \* the comments of the file on Frame.io
  hooks,    \* events Frame.io may still deliver
  pulled,   \* what a pull was answered and has not inserted
  restarts,
  steps,    \* counts towards MaxSteps
  lost,     \* ghost: comments whose id did not come back before something else happened
  touched   \* ghost: comments whose text Frame.io or one of its events changed

local == <<row, jobs>>
ghosts == <<lost, touched>>
counts == <<restarts, steps>>
vars == <<row, jobs, worker, remote, hooks, pulled, counts, ghosts>>

States == {"none", "live", "deleted"}
Actions == {"create", "update", "complete", "uncomplete", "delete"}
Statuses == {"pending", "in_flight", "succeeded", "abandoned"}
Kinds == {"created", "updated", "completed", "uncompleted", "deleted"}

RowType == [state : States, fid : Fids \cup {NoFid}, file : BOOLEAN, text : Texts, done : BOOLEAN]
JobType == [row : Rows, action : Actions, status : Statuses, tries : 0..MaxTries]
RemoteType == [state : States, text : Texts, done : BOOLEAN, of : Comments \cup {Author}]
WorkerType ==
  [pc : {"idle", "picking", "asked", "answered"}, batch : SUBSET Nat, job : Nat, text : Texts,
   fid : Fids \cup {NoFid}]

TypeOK ==
  /\ row \in [Rows -> RowType] /\ jobs \in Seq(JobType) /\ worker \in WorkerType
  /\ remote \in [Fids -> RemoteType]
  /\ hooks \subseteq [kind : Kinds, fid : Fids, text : Texts]
  /\ pulled \subseteq [fid : Fids, text : Texts, done : BOOLEAN] /\ restarts \in Nat /\ steps \in Nat
  /\ lost \subseteq Comments /\ touched \subseteq Comments

AnyText == CHOOSE t \in Texts : TRUE
Resting == [pc |-> "idle", batch |-> {}, job |-> 0, text |-> AnyText, fid |-> NoFid]

-----------------------------------------------------------------------------
(* The store. *)

\* The row of a Frame.io comment, if there is one.
HasRow(f) == \E r \in Rows : row[r].fid = f
RowsOf(f) == {r \in Rows : row[r].fid = f}

\* Mutation: a job the worker has in hand counts as queued.
WaitingOrAsked(j, r, a) ==
  jobs[j].row = r /\ jobs[j].action = a /\ jobs[j].status \in {"pending", "in_flight"}

\* The job an enqueue finds and returns instead of adding one.
Waiting(j, r, a) == jobs[j].row = r /\ jobs[j].action = a /\ jobs[j].status = "pending"

NewJob(r, a) == [row |-> r, action |-> a, status |-> "pending", tries |-> 0]

\* enqueueMediaCommentMirrorJob
Enqueue(r, a) ==
  /\ Len(jobs) < MaxJobs
  /\ jobs' = IF \E j \in DOMAIN jobs : Waiting(j, r, a) THEN jobs ELSE Append(jobs, NewJob(r, a))

-----------------------------------------------------------------------------
(* The comment routes. *)

Counted == steps < MaxSteps /\ steps' = steps + 1

OnlyLocal == Counted /\ UNCHANGED <<worker, remote, hooks, pulled, restarts, ghosts>>

\* POST: the row first, then a job if the asset is on Frame.io.
PostComment(c, file, t) ==
  /\ row[c].state = "none"
  /\ row' = [row EXCEPT ![c] = [state |-> "live", fid |-> NoFid, file |-> file, text |-> t,
                                done |-> FALSE]]
  /\ IF file THEN Enqueue(c, "create") ELSE UNCHANGED jobs
  /\ OnlyLocal

\* PATCH with a text: the author's own comments only.
EditText(c, t) ==
  /\ row[c].state # "none" /\ t # row[c].text
  /\ row' = [row EXCEPT ![c].text = t]
  /\ Enqueue(c, "update") /\ OnlyLocal

\* PATCH with completed: any member of staff.
SetCompleted(r, b) ==
  /\ row[r].state # "none"
  /\ row' = [row EXCEPT ![r].done = b]
  /\ Enqueue(r, IF b THEN "complete" ELSE "uncomplete") /\ OnlyLocal

\* The route of EditPanel, which mirrors nothing.
SetCompletedQuietly(r, b) ==
  /\ row[r].state # "none" /\ b # row[r].done
  /\ row' = [row EXCEPT ![r].done = b]
  /\ UNCHANGED jobs /\ OnlyLocal

DeleteComment(r) ==
  /\ row[r].state # "none"
  /\ row' = [row EXCEPT ![r].state = "deleted"]
  /\ Enqueue(r, "delete") /\ OnlyLocal

-----------------------------------------------------------------------------
(* The worker. *)

Subject(j) == row[jobs[j].row]

Pending(j) == jobs[j].status = "pending"

\* The n oldest of a set of jobs.
Oldest(S, n) == {j \in S : Cardinality({k \in S : k < j}) < n}

\* tick: the oldest jobs that are due, one tick at a time.  A job that never failed is due;
\* of the others, those of D.
Tick(D) ==
  /\ worker.pc = "idle"
  /\ LET due == {j \in DOMAIN jobs : Pending(j) /\ (jobs[j].tries = 0 \/ j \in D)}
     IN /\ due # {}
        /\ worker' = [Resting EXCEPT !.pc = "picking", !.batch = Oldest(due, BatchSize)]
  /\ UNCHANGED <<local, remote, hooks, pulled, counts, ghosts>>

\* The oldest job of the batch is next.
IsNext(j) == worker.pc = "picking" /\ j \in worker.batch /\ \A k \in worker.batch : j <= k

\* The batch without job j; after the last one the tick is over.
After(j) ==
  IF worker.batch = {j} THEN Resting
  ELSE [Resting EXCEPT !.pc = "picking", !.batch = worker.batch \ {j}]

\* recordMirrorJobFailure: back to pending, due later; abandoned after three hours.
Failed(job) ==
  IF job.tries + 1 < MaxTries
  THEN [job EXCEPT !.tries = @ + 1, !.status = "pending"]
  ELSE [job EXCEPT !.tries = @ + 1, !.status = "abandoned"]

Succeeded(job) == [job EXCEPT !.status = "succeeded"]

\* The asset is not on Frame.io, or there is nothing on Frame.io to delete.
NothingToDo(j) ==
  \/ jobs[j].action # "create" /\ Subject(j).fid = NoFid /\ ~Subject(j).file
  \/ jobs[j].action = "delete" /\ Subject(j).fid = NoFid

\* The id the request needs is not there yet: "deferring".
TooEarly(j) == jobs[j].action # "create" /\ Subject(j).fid = NoFid /\ ~NothingToDo(j)

SetJob(j, job) == jobs' = [jobs EXCEPT ![j] = job]

Pass(j) == IsNext(j) /\ NothingToDo(j) /\ SetJob(j, Succeeded(jobs[j])) /\ worker' = After(j)
Defer(j) == IsNext(j) /\ TooEarly(j) /\ SetJob(j, Failed(jobs[j])) /\ worker' = After(j)

InFlight(job) == [job EXCEPT !.status = "in_flight"]

\* The job is marked and its request sent, with the text the row has now.
Ask(j) ==
  /\ IsNext(j) /\ ~NothingToDo(j) /\ ~TooEarly(j)
  /\ SetJob(j, InFlight(jobs[j]))
  /\ worker' = [worker EXCEPT !.pc = "asked", !.job = j, !.text = Subject(j).text, !.fid = Subject(j).fid]

Process(j) == (Pass(j) \/ Defer(j) \/ Ask(j)) /\ UNCHANGED <<row, remote, hooks, pulled, counts, ghosts>>

\* The job whose request is under way.
Job == jobs[worker.job]

\* Refused, or the request did not get there.  One that the 15 s limit aborts lands before the
\* abort or never.
Refused ==
  /\ worker.pc = "asked"
  /\ SetJob(worker.job, Failed(Job)) /\ worker' = After(worker.job)
  /\ UNCHANGED <<row, remote, hooks, pulled, counts, ghosts>>

\* Another row has the id the answer brought: the UNIQUE constraint throws.
Taken == Job.action = "create" /\ RowsOf(worker.fid) \ {Job.row} # {}

\* Mutation: the row is not told its Frame.io id.
Untethered(r, f) == row

\* setFrameioIdOnComment, for a row that has none.
Tethered(r, f) == IF row[r].fid = NoFid THEN [row EXCEPT ![r].fid = f] ELSE row

Answered ==
  /\ worker.pc = "answered" /\ ~Taken
  /\ row' = IF Job.action = "create" THEN Tethered(Job.row, worker.fid) ELSE row
  /\ SetJob(worker.job, Succeeded(Job)) /\ worker' = After(worker.job)
  /\ UNCHANGED <<remote, hooks, pulled, counts, ghosts>>

\* The answer is lost, or its id is already another row's: the job will be tried again.
AnswerLost ==
  /\ worker.pc = "answered"
  /\ SetJob(worker.job, Failed(Job)) /\ worker' = After(worker.job)
  /\ lost' = IF Job.action = "create" THEN lost \cup {Job.row} ELSE lost
  /\ UNCHANGED <<row, remote, hooks, pulled, counts, touched>>

-----------------------------------------------------------------------------
(* Frame.io. *)

NextFid(f) == remote[f].state = "none" /\ \A g \in 1..(f - 1) : remote[g].state # "none"

\* An event is on its way, unless there are too many.
Notify(e) == hooks' = IF Cardinality(hooks) < MaxEvents THEN hooks \cup {e} ELSE hooks

Made(f, c, t) ==
  /\ NextFid(f)
  /\ remote' = [remote EXCEPT ![f] = [state |-> "live", text |-> t, done |-> FALSE, of |-> c]]
  /\ Notify([kind |-> "created", fid |-> f, text |-> t])

\* A live comment is changed, and an event tells of it.
Changed(f, kind, new) ==
  /\ remote[f].state = "live"
  /\ remote' = [remote EXCEPT ![f] = new]
  /\ Notify([kind |-> kind, fid |-> f, text |-> new.text])

Retexted(f, t) == Changed(f, "updated", [remote[f] EXCEPT !.text = t])
Ticked(f, b) ==
  Changed(f, IF b THEN "completed" ELSE "uncompleted", [remote[f] EXCEPT !.done = b])
Erased(f) == Changed(f, "deleted", [remote[f] EXCEPT !.state = "deleted"])

\* Frame.io does what the worker asks.
Obey ==
  /\ worker.pc = "asked"
  /\ \/ /\ Job.action = "create"
        /\ \E f \in Fids : Made(f, Job.row, worker.text) /\ worker' = [worker EXCEPT !.pc = "answered", !.fid = f]
     \/ /\ \/ Job.action = "update" /\ Retexted(worker.fid, worker.text)
           \/ Job.action = "complete" /\ Ticked(worker.fid, TRUE)
           \/ Job.action = "uncomplete" /\ Ticked(worker.fid, FALSE)
           \/ Job.action = "delete" /\ Erased(worker.fid)
        /\ worker' = [worker EXCEPT !.pc = "answered"]
  /\ UNCHANGED <<local, pulled, counts, ghosts>>

\* The LPOS comment a Frame.io comment is a copy of.
OwnerOf(f) == {remote[f].of} \cap Comments

\* Somebody uses Frame.io.
GuestStep ==
  /\ \/ \E f \in Fids, t \in Texts : Made(f, Author, t) /\ UNCHANGED touched
     \/ \E f \in Fids, t \in Texts :
          t # remote[f].text /\ Retexted(f, t) /\ touched' = touched \cup OwnerOf(f)
     \/ \E f \in Fids, b \in BOOLEAN : b # remote[f].done /\ Ticked(f, b) /\ UNCHANGED touched
     \/ \E f \in Fids : Erased(f) /\ UNCHANGED touched
  /\ Counted /\ UNCHANGED <<local, worker, pulled, restarts, lost>>

-----------------------------------------------------------------------------
(* What comes back from Frame.io. *)

Imported(f, t, b) == [state |-> "live", fid |-> f, file |-> TRUE, text |-> t, done |-> b]

\* insertMediaComment for each of S (at most one for an id), unless the id is known.
Insert(S) ==
  LET new == {x \in S : ~HasRow(x.fid)}
  IN /\ row' = [r \in Rows |-> IF \E x \in new : x.fid = r
                              THEN LET x == CHOOSE x \in new : x.fid = r IN Imported(r, x.text, x.done)
                              ELSE row[r]]
     /\ lost' = IF worker.pc = "answered" /\ \E x \in new : x.fid = worker.fid
                THEN lost \cup OwnerOf(worker.fid) ELSE lost

SetText(f, t) == row' = [r \in Rows |-> IF row[r].fid = f THEN [row[r] EXCEPT !.text = t] ELSE row[r]]
SetDone(f, b) == row' = [r \in Rows |-> IF row[r].fid = f THEN [row[r] EXCEPT !.done = b] ELSE row[r]]
SetDeleted(f) ==
  row' = [r \in Rows |-> IF row[r].fid = f THEN [row[r] EXCEPT !.state = "deleted"] ELSE row[r]]

\* POST /api/webhooks/frameio.  The event may come again, or never have come.
Webhook(e) ==
  /\ \/ /\ e.kind = "created"
        /\ Insert({[fid |-> e.fid, text |-> e.text, done |-> FALSE]}) /\ UNCHANGED touched
     \/ /\ e.kind = "updated" /\ SetText(e.fid, e.text)
        /\ touched' = touched \cup (RowsOf(e.fid) \cap Comments) /\ UNCHANGED lost
     \/ e.kind = "completed" /\ SetDone(e.fid, TRUE) /\ UNCHANGED ghosts
     \/ e.kind = "uncompleted" /\ SetDone(e.fid, FALSE) /\ UNCHANGED ghosts
     \/ e.kind = "deleted" /\ SetDeleted(e.fid) /\ UNCHANGED ghosts
  /\ hooks' = hooks \/ hooks' = hooks \ {e}
  /\ UNCHANGED <<jobs, worker, remote, pulled, counts>>

\* GET: Frame.io reads the thread; who else asks meanwhile is throttled.
PullAnswered ==
  /\ pulled = {}
  /\ pulled' = {[fid |-> f, text |-> remote[f].text, done |-> remote[f].done] :
                   f \in {g \in Fids : remote[g].state = "live"}}
  /\ pulled' # {}
  /\ UNCHANGED <<local, worker, remote, hooks, counts, ghosts>>

\* The thread has arrived and its unknown comments are inserted.
PullInserts ==
  /\ pulled # {} /\ pulled' = {}
  /\ Insert(pulled)
  /\ UNCHANGED <<jobs, worker, remote, hooks, counts, touched>>

\* The process dies.  Nothing puts a job in flight back into the queue.
Restart ==
  /\ restarts < MaxRestarts /\ restarts' = restarts + 1
  /\ worker' = Resting /\ pulled' = {}
  /\ lost' = IF worker.pc = "answered" /\ Job.action = "create" THEN lost \cup {Job.row} ELSE lost
  /\ UNCHANGED <<local, remote, hooks, steps, touched>>

-----------------------------------------------------------------------------

NoRow == [state |-> "none", fid |-> NoFid, file |-> FALSE, text |-> AnyText, done |-> FALSE]

Init ==
  /\ row = [r \in Rows |-> NoRow] /\ jobs = <<>> /\ worker = Resting
  /\ remote = [f \in Fids |-> [state |-> "none", text |-> AnyText, done |-> FALSE, of |-> Author]]
  /\ hooks = {} /\ pulled = {} /\ restarts = 0 /\ steps = 0 /\ lost = {} /\ touched = {}

StaffStep ==
  \/ \E c \in Comments, file \in BOOLEAN, t \in Texts : PostComment(c, file, t)
  \/ \E c \in Comments, t \in Texts : EditText(c, t)
  \/ \E r \in Rows, b \in BOOLEAN : SetCompleted(r, b) \/ SetCompletedQuietly(r, b)
  \/ \E r \in Rows : DeleteComment(r)

WorkerStep ==
  \/ \E D \in SUBSET {j \in DOMAIN jobs : Pending(j) /\ jobs[j].tries > 0} : Tick(D)
  \/ (\E j \in worker.batch : Process(j))
  \/ Refused \/ Answered \/ AnswerLost

Next ==
  \/ StaffStep \/ WorkerStep
  \/ Obey \/ GuestStep
  \/ (\E e \in hooks : Webhook(e)) \/ PullAnswered \/ PullInserts
  \/ Restart

Spec == Init /\ [][Next]_vars

-----------------------------------------------------------------------------
(* Properties *)

\* A comment written in LPOS appears once on Frame.io and once in LPOS, unless the id of
\* its copy was lost on the way or overtaken by an event or a pull: no retry, second tick
\* or restart makes a second copy.
OneCopy ==
  \A c \in Comments \ lost :
    LET copies == {f \in Fids : remote[f].state # "none" /\ remote[f].of = c}
    IN Cardinality(copies) <= 1 /\ \A f \in copies : row[f].state = "none"

\* Whether the table still has a job that will do, or has given up doing, action a.
OnRecord(r, a) ==
  \E j \in DOMAIN jobs : jobs[j].row = r /\ jobs[j].action = a /\ jobs[j].status # "succeeded"

\* A comment's text and its deletion reach Frame.io, or the queue still says that they have
\* not: no edit falls between a job that is under way and the next, except that events of
\* Frame.io write over the text, and that a create that failed may land after the delete.
ChangesReach ==
  \A c \in Comments :
    row[c].fid # NoFid =>
      LET copy == remote[row[c].fid]
      IN /\ copy.text = row[c].text \/ c \in touched \/ OnRecord(c, "update")
         /\ row[c].state = "deleted" =>
              \/ copy.state = "deleted" \/ OnRecord(c, "delete")
              \/ \E j \in DOMAIN jobs : jobs[j].row = c /\ jobs[j].action = "create" /\ jobs[j].tries > 0
=============================================================================
