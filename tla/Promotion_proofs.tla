--------------------------- MODULE Promotion_proofs ---------------------------
(***************************************************************************)
(* Proofs about Promotion, for every set of files, every number of jobs,   *)
(* runs and restarts and every MAX_CONCURRENCY above zero.                 *)
(*                                                                         *)
(* The model computes a segment's effect on the queue as a function of the *)
(* queue's state, so the invariant is a predicate of such a state and each *)
(* function has a lemma: it keeps the predicate, and leaves no queued job  *)
(* without a waker.  A step of the system is a composition of functions.   *)
(***************************************************************************)
EXTENDS Promotion, FiniteSetTheorems, SequenceTheorems, TLAPS

QueueType == [jobs : Seq(JobType), record : Seq(RecordStatuses),
              active : SUBSET Nat, runs : Seq(RunType)]

\* The shape of the queue, and a worker behind every slot.
Core(s) ==
  /\ s \in QueueType
  /\ Len(s.record) = Len(s.jobs)
  /\ s.active \subseteq 1..Len(s.jobs)
  /\ \A r \in 1..Len(s.runs) : s.runs[r].job \in 1..Len(s.jobs)
  /\ \A j \in s.active :
       \E r \in 1..Len(s.runs) : s.runs[r].job = j /\ s.runs[r].pc \in InFlight

Waker(s) == Queued(s) # {} => \E r \in 1..Len(s.runs) : s.runs[r].pc # "over"

Recorded(s) ==
  \A j \in 1..Len(s.jobs) : s.jobs[j].status \in Terminal => s.record[j] = s.jobs[j].status

\* What a run has done by the time it is suspended, and what a done record vouches for.
Promoted(s, a, p) ==
  /\ a \subseteq 1..Len(s.runs) /\ p \subseteq Files
  /\ \A r \in 1..Len(s.runs) : s.runs[r].pc \in {"mark", "marked"} => r \in a
  /\ \A r \in 1..Len(s.runs) : s.runs[r].pc = "marked" => s.jobs[s.runs[r].job].file \in p
  /\ \A j \in 1..Len(s.jobs) : s.record[j] = "done" =>
       (\E r \in a : s.runs[r].job = j) /\ s.jobs[j].file \in p

Good(s, a, p) == Core(s) /\ Recorded(s) /\ Promoted(s, a, p)

\* A broadcast leaves the runs that were there and adds runs at their first await.
Kept(s, t) ==
  /\ Len(s.runs) <= Len(t.runs)
  /\ \A r \in 1..Len(s.runs) : t.runs[r] = s.runs[r]
  /\ \A r \in 1..Len(t.runs) : r > Len(s.runs) => t.runs[r].pc = "token"

PromotionInv ==
  /\ Good(State, assets, processed)
  /\ Waker(State)
  /\ restarts \in Nat

-----------------------------------------------------------------------------
(* The functions of the queue. *)

LEMMA Fields ==
  ASSUME NEW s \in QueueType
  PROVE  /\ s.jobs \in Seq(JobType) /\ s.record \in Seq(RecordStatuses)
         /\ s.active \in SUBSET Nat /\ s.runs \in Seq(RunType)
         /\ Len(s.jobs) \in Nat /\ Len(s.record) \in Nat /\ Len(s.runs) \in Nat
         /\ DOMAIN s.jobs = 1..Len(s.jobs) /\ DOMAIN s.runs = 1..Len(s.runs)
         /\ DOMAIN s.record = 1..Len(s.record)
         /\ \A j \in 1..Len(s.jobs) : s.jobs[j] \in JobType
         /\ \A r \in 1..Len(s.runs) : s.runs[r] \in RunType
<1>1. s.jobs \in Seq(JobType) /\ s.record \in Seq(RecordStatuses)
      /\ s.active \in SUBSET Nat /\ s.runs \in Seq(RunType)
  BY DEF QueueType
<1> QED BY <1>1, LenProperties, ElementOfSeq

LEMMA JobFields ==
  ASSUME NEW x \in JobType
  PROVE  /\ x.file \in Files /\ x.at \in Nat /\ x.status \in Statuses
         /\ \A status \in Statuses :
              /\ [x EXCEPT !.status = status] \in JobType
              /\ [x EXCEPT !.status = status].status = status
              /\ [x EXCEPT !.status = status].file = x.file
BY DEF JobType

LEMMA RunFields ==
  ASSUME NEW x \in RunType
  PROVE  /\ x.job \in Nat /\ x.pc \in Pcs
         /\ \A pc \in Pcs :
              /\ [x EXCEPT !.pc = pc] \in RunType
              /\ [x EXCEPT !.pc = pc].pc = pc
              /\ [x EXCEPT !.pc = pc].job = x.job
BY DEF RunType

\* The queued jobs have a newest one: the jobs that come before a queued job form a
\* finite set, and one of these sets is minimal.
LEMMA NewestExists ==
  ASSUME NEW s \in QueueType, Queued(s) # {}
  PROVE  NextQueued(s) \in Queued(s)
<1> DEFINE Q == Queued(s)
           Before(i) == {j \in Q : j # i /\ Precedes(s, j, i)}
           T == {Before(i) : i \in Q}
<1>1. Q \subseteq 1..Len(s.jobs) /\ \A i \in Q : s.jobs[i].at \in Nat /\ i \in Nat
  BY Fields, JobFields DEF Queued
<1>2. IsFiniteSet(Q)
  <2>1. IsFiniteSet(1..Len(s.jobs))
    BY FS_Interval, Fields
  <2> QED BY <1>1, <2>1, FS_Subset
<1>3. T \subseteq FiniteSubsetsOf(Q) /\ T # {}
  <2>1. \A i \in Q : Before(i) \subseteq Q /\ IsFiniteSet(Before(i))
    BY <1>2, FS_Subset
  <2> QED BY <2>1 DEF FiniteSubsetsOf
<1>4. PICK b \in T : \A c \in T : ~(<<c, b>> \in StrictSubsetOrdering(Q))
  <2> HIDE DEF T
  <2> QED BY <1>3, FS_StrictSubsetOrderingWellFounded, WFMin
<1>5. PICK i \in Q : b = Before(i)
  OBVIOUS
<1>6. Before(i) = {}
  <2> SUFFICES ASSUME NEW j \in Before(i) PROVE FALSE
    OBVIOUS
  <2>1. s.jobs[i].at \in Nat /\ s.jobs[j].at \in Nat /\ i \in Nat /\ j \in Nat
    BY <1>1
  <2>2. Before(j) \subseteq Before(i)
    <3> SUFFICES ASSUME NEW k \in Before(j) PROVE k \in Before(i)
      OBVIOUS
    <3>1. s.jobs[k].at \in Nat /\ k \in Nat
      BY <1>1
    <3> QED BY <2>1, <3>1 DEF Precedes
  <2>3. j \in Before(i) /\ j \notin Before(j)
    OBVIOUS
  <2>4. Before(j) \in T
    OBVIOUS
  <2>5. Before(j) \subseteq Q /\ Before(i) \subseteq Q
    OBVIOUS
  <2> HIDE DEF Before, T
  <2>6. <<Before(j), Before(i)>> \in StrictSubsetOrdering(Q)
    BY <2>2, <2>3, <2>5 DEF StrictSubsetOrdering
  <2> QED BY <1>4, <1>5, <2>4, <2>6
<1>7. \A j \in Q : Precedes(s, i, j)
  <2> SUFFICES ASSUME NEW j \in Q PROVE Precedes(s, i, j)
    OBVIOUS
  <2>1. s.jobs[i].at \in Nat /\ s.jobs[j].at \in Nat /\ i \in Nat /\ j \in Nat
    BY <1>1
  <2>2. j = i \/ ~Precedes(s, j, i)
    BY <1>6
  <2> QED BY <2>1, <2>2 DEF Precedes
<1> QED BY <1>7 DEF NextQueued

\* The set of active jobs is empty when no slot is taken.
LEMMA FullHasActive ==
  ASSUME NEW s, Cardinality(s.active) >= MaxConcurrency
  PROVE  s.active # {}
BY FS_EmptySet, PromotionAssumption

LEMMA Started ==
  ASSUME NEW s \in QueueType, NEW j \in 1..Len(s.jobs),
         NEW t, t = Start(s, j)
  PROVE  /\ t \in QueueType
         /\ t.jobs = s.jobs /\ t.record = s.record /\ t.active = s.active \cup {j}
         /\ Len(t.runs) = Len(s.runs) + 1
         /\ \A r \in 1..Len(s.runs) : t.runs[r] = s.runs[r]
         /\ t.runs[Len(s.runs) + 1] = [job |-> j, pc |-> "token"]
<1> DEFINE n == [job |-> j, pc |-> "token"]
<1>1. s.active \in SUBSET Nat /\ s.runs \in Seq(RunType) /\ j \in Nat
  BY Fields
<1>2. n \in RunType
  BY <1>1 DEF RunType, Pcs, InFlight
<1>3. t.runs = Append(s.runs, n) /\ t.active = s.active \cup {j}
      /\ t.jobs = s.jobs /\ t.record = s.record
  BY DEF QueueType, Start
<1>4. t \in QueueType
  <2>1. Append(s.runs, n) \in Seq(RunType)
    BY <1>1, <1>2, AppendProperties
  <2>2. s.active \cup {j} \in SUBSET Nat
    BY <1>1
  <2> QED BY <2>1, <2>2 DEF QueueType, Start
<1> HIDE DEF n
<1>5. /\ Len(Append(s.runs, n)) = Len(s.runs) + 1
      /\ \A r \in 1..Len(s.runs) : Append(s.runs, n)[r] = s.runs[r]
      /\ Append(s.runs, n)[Len(s.runs) + 1] = n
  BY <1>1, <1>2, AppendProperties
<1> QED BY <1>3, <1>4, <1>5 DEF n

LEMMA ProcessNextCore ==
  ASSUME NEW s, Core(s), NEW t, t = ProcessNext(s)
  PROVE  Core(t) /\ Waker(t) /\ Kept(s, t) /\ t.jobs = s.jobs /\ t.record = s.record
<1>0. s \in QueueType /\ Len(s.runs) \in Nat /\ Len(s.jobs) \in Nat
  BY Fields DEF Core
<1>1. CASE Cardinality(s.active) >= MaxConcurrency \/ Queued(s) = {}
  <2>1. t = s
    BY <1>1 DEF ProcessNext
  <2>2. Waker(s)
    <3>1. CASE Queued(s) = {}
      BY <3>1 DEF Waker
    <3>2. CASE Cardinality(s.active) >= MaxConcurrency
      <4>1. PICK j \in s.active : TRUE
        BY <3>2, FullHasActive
      <4>2. PICK r \in 1..Len(s.runs) : s.runs[r].pc \in InFlight
        BY <4>1 DEF Core
      <4> QED BY <4>2 DEF Waker, InFlight
    <3> QED BY <1>1, <3>1, <3>2
  <2> QED BY <2>1, <2>2, <1>0 DEF Kept
<1>2. CASE ~(Cardinality(s.active) >= MaxConcurrency \/ Queued(s) = {})
  <2> DEFINE j == NextQueued(s)
  <2>1. j \in 1..Len(s.jobs)
    BY <1>0, <1>2, NewestExists, Fields DEF Queued
  <2>2. t = Start(s, j)
    BY <1>2 DEF ProcessNext
  <2> HIDE DEF j
  <2>3. /\ t \in QueueType
        /\ t.jobs = s.jobs /\ t.record = s.record /\ t.active = s.active \cup {j}
        /\ Len(t.runs) = Len(s.runs) + 1
        /\ \A r \in 1..Len(s.runs) : t.runs[r] = s.runs[r]
        /\ t.runs[Len(s.runs) + 1] = [job |-> j, pc |-> "token"]
    BY <1>0, <2>1, <2>2, Started
  <2>4. \A r \in 1..Len(t.runs) : r \in 1..Len(s.runs) \/ r = Len(s.runs) + 1
    BY <1>0, <2>3
  <2>5. Len(s.runs) + 1 \in 1..Len(t.runs) /\ 1..Len(s.runs) \subseteq 1..Len(t.runs)
    BY <1>0, <2>3
  <2>6. t.runs[Len(s.runs) + 1].job = j /\ t.runs[Len(s.runs) + 1].pc = "token"
    BY <2>3
  <2>7. \A r \in 1..Len(t.runs) : t.runs[r].job \in 1..Len(t.jobs)
    BY <2>1, <2>3, <2>4, <2>6 DEF Core
  <2>8. \A i \in t.active :
          \E r \in 1..Len(t.runs) : t.runs[r].job = i /\ t.runs[r].pc \in InFlight
    <3> SUFFICES ASSUME NEW i \in t.active
                 PROVE \E r \in 1..Len(t.runs) : t.runs[r].job = i /\ t.runs[r].pc \in InFlight
      OBVIOUS
    <3>1. CASE i \in s.active
      <4>1. PICK r \in 1..Len(s.runs) : s.runs[r].job = i /\ s.runs[r].pc \in InFlight
        BY <3>1 DEF Core
      <4> QED BY <4>1, <2>3, <2>5
    <3>2. CASE i = j
      BY <3>2, <2>5, <2>6 DEF InFlight
    <3> QED BY <2>3, <3>1, <3>2
  <2>9. Core(t)
    BY <2>1, <2>3, <2>7, <2>8 DEF Core
  <2>10. Waker(t)
    BY <2>5, <2>6 DEF Waker
  <2>11. Kept(s, t)
    <3>1. \A r \in 1..Len(t.runs) : r > Len(s.runs) => r = Len(s.runs) + 1
      BY <1>0, <2>3
    <3> QED BY <1>0, <2>3, <2>6, <3>1 DEF Kept
  <2> QED BY <2>3, <2>9, <2>10, <2>11
<1> QED BY <1>1, <1>2

LEMMA StatusSet ==
  ASSUME NEW s, Core(s), NEW j \in 1..Len(s.jobs), NEW status \in Statuses,
         NEW t, t = [s EXCEPT !.jobs[j].status = status]
  PROVE  /\ Core(t)
         /\ t.runs = s.runs /\ t.record = s.record /\ Len(t.jobs) = Len(s.jobs)
         /\ \A i \in 1..Len(s.jobs) :
              /\ t.jobs[i].file = s.jobs[i].file
              /\ t.jobs[i].status = IF i = j THEN status ELSE s.jobs[i].status
<1>1. s \in QueueType /\ s.jobs \in Seq(JobType) /\ s.jobs[j] \in JobType
  BY Fields DEF Core
<1> DEFINE e == [s.jobs[j] EXCEPT !.status = status]
<1>2. e \in JobType /\ e.status = status /\ e.file = s.jobs[j].file
  BY <1>1, JobFields
<1>3. t = [s EXCEPT !.jobs = [s.jobs EXCEPT ![j] = e]]
  BY <1>1 DEF QueueType
<1> HIDE DEF e
<1>4. t.runs = s.runs /\ t.record = s.record /\ t.active = s.active
      /\ t.jobs = [s.jobs EXCEPT ![j] = e]
  BY <1>1, <1>3 DEF QueueType
<1>5. /\ t.jobs \in Seq(JobType) /\ Len(t.jobs) = Len(s.jobs)
      /\ \A i \in 1..Len(s.jobs) : t.jobs[i] = IF i = j THEN e ELSE s.jobs[i]
  <2>1. ASSUME NEW q \in Seq(JobType), NEW i \in 1..Len(q), NEW x \in JobType
        PROVE  /\ [q EXCEPT ![i] = x] \in Seq(JobType) /\ Len([q EXCEPT ![i] = x]) = Len(q)
               /\ \A k \in 1..Len(q) : [q EXCEPT ![i] = x][k] = IF k = i THEN x ELSE q[k]
    BY ExceptSeq
  <2> QED BY <1>1, <1>2, <1>4, <2>1
<1>6. t \in QueueType
  BY <1>1, <1>3, <1>4, <1>5 DEF QueueType
<1>7. Core(t)
  BY <1>4, <1>5, <1>6 DEF Core
<1> QED BY <1>2, <1>4, <1>5, <1>7

LEMMA PatchCore ==
  ASSUME NEW s, Core(s), NEW j \in 1..Len(s.jobs), NEW status \in Statuses,
         NEW t, t = Patch(s, j, status)
  PROVE  /\ Core(t) /\ Waker(t) /\ Kept(s, t)
         /\ t.record = s.record /\ Len(t.jobs) = Len(s.jobs)
         /\ \A i \in 1..Len(s.jobs) :
              /\ t.jobs[i].file = s.jobs[i].file
              /\ t.jobs[i].status = IF i = j THEN status ELSE s.jobs[i].status
<1> DEFINE u == [s EXCEPT !.jobs[j].status = status]
<1>1. /\ Core(u)
      /\ u.runs = s.runs /\ u.record = s.record /\ Len(u.jobs) = Len(s.jobs)
      /\ \A i \in 1..Len(s.jobs) :
           /\ u.jobs[i].file = s.jobs[i].file
           /\ u.jobs[i].status = IF i = j THEN status ELSE s.jobs[i].status
  BY StatusSet
<1>2. t = ProcessNext(u)
  BY DEF Patch
<1> HIDE DEF u
<1>3. Core(t) /\ Waker(t) /\ Kept(u, t) /\ t.jobs = u.jobs /\ t.record = u.record
  BY <1>1, <1>2, ProcessNextCore
<1> QED BY <1>1, <1>3 DEF Kept

LEMMA EndCore ==
  ASSUME NEW s, Core(s), NEW j \in 1..Len(s.jobs), NEW status \in Terminal,
         NEW t, t = End(s, j, status)
  PROVE  /\ Core(t) /\ Waker(t) /\ Kept(s, t) /\ Len(t.jobs) = Len(s.jobs)
         /\ \A i \in 1..Len(s.jobs) :
              /\ t.jobs[i].file = s.jobs[i].file
              /\ t.jobs[i].status = IF i = j THEN status ELSE s.jobs[i].status
              /\ t.record[i] = IF i = j THEN status ELSE s.record[i]
<1> DEFINE u == Patch(s, j, status)
<1>0. status \in Statuses /\ status \in RecordStatuses
  BY DEF Statuses, RecordStatuses
<1>1. /\ Core(u) /\ Waker(u) /\ Kept(s, u)
      /\ u.record = s.record /\ Len(u.jobs) = Len(s.jobs)
      /\ \A i \in 1..Len(s.jobs) :
           /\ u.jobs[i].file = s.jobs[i].file
           /\ u.jobs[i].status = IF i = j THEN status ELSE s.jobs[i].status
  BY <1>0, PatchCore
<1>2. t = [u EXCEPT !.record[j] = status]
  BY DEF End
<1> HIDE DEF u
<1>3. u \in QueueType /\ u.record \in Seq(RecordStatuses) /\ Len(u.record) = Len(u.jobs)
  BY <1>1, Fields DEF Core
<1>4. t = [u EXCEPT !.record = [u.record EXCEPT ![j] = status]]
  BY <1>2, <1>3 DEF QueueType
<1>5. t.runs = u.runs /\ t.active = u.active /\ t.jobs = u.jobs
      /\ t.record = [u.record EXCEPT ![j] = status]
  BY <1>3, <1>4 DEF QueueType
<1>6. j \in 1..Len(u.record)
  BY <1>1, <1>3
<1>7. /\ t.record \in Seq(RecordStatuses) /\ Len(t.record) = Len(u.record)
      /\ \A i \in 1..Len(u.record) : t.record[i] = IF i = j THEN status ELSE u.record[i]
  BY <1>0, <1>3, <1>5, <1>6, ExceptSeq
<1>8. t \in QueueType
  BY <1>3, <1>4, <1>7, <1>5 DEF QueueType
<1>9. Core(t)
  BY <1>1, <1>3, <1>5, <1>7, <1>8 DEF Core
<1>10. Waker(t) /\ Kept(s, t)
  BY <1>1, <1>5 DEF Waker, Queued, Kept
<1> QED BY <1>1, <1>3, <1>5, <1>7, <1>9, <1>10

LEMMA ResumedRuns ==
  ASSUME NEW s \in QueueType, NEW r \in 1..Len(s.runs), NEW pc \in Pcs,
         NEW t, t = Resumed(s, r, pc)
  PROVE  /\ t \in QueueType /\ Len(t.runs) = Len(s.runs)
         /\ t.jobs = s.jobs /\ t.record = s.record /\ t.active = s.active
         /\ \A q \in 1..Len(s.runs) :
              /\ t.runs[q].job = s.runs[q].job
              /\ t.runs[q].pc = IF q = r THEN pc ELSE s.runs[q].pc
<1>1. s.runs \in Seq(RunType) /\ s.runs[r] \in RunType
  BY Fields
<1> DEFINE e == [s.runs[r] EXCEPT !.pc = pc]
<1>2. e \in RunType /\ e.pc = pc /\ e.job = s.runs[r].job
  BY <1>1, RunFields
<1>3. t = [s EXCEPT !.runs = [s.runs EXCEPT ![r] = e]]
  BY DEF QueueType, Resumed
<1> HIDE DEF e
<1>4. t.jobs = s.jobs /\ t.record = s.record /\ t.active = s.active
      /\ t.runs = [s.runs EXCEPT ![r] = e]
  BY <1>3 DEF QueueType
<1>5. /\ t.runs \in Seq(RunType) /\ Len(t.runs) = Len(s.runs)
      /\ \A q \in 1..Len(s.runs) : t.runs[q] = IF q = r THEN e ELSE s.runs[q]
  <2>1. ASSUME NEW q \in Seq(RunType), NEW i \in 1..Len(q), NEW x \in RunType
        PROVE  /\ [q EXCEPT ![i] = x] \in Seq(RunType) /\ Len([q EXCEPT ![i] = x]) = Len(q)
               /\ \A k \in 1..Len(q) : [q EXCEPT ![i] = x][k] = IF k = i THEN x ELSE q[k]
    BY ExceptSeq
  <2> QED BY <1>1, <1>2, <1>4, <2>1
<1>6. t \in QueueType
  BY <1>3, <1>4, <1>5 DEF QueueType
<1> QED BY <1>2, <1>4, <1>5, <1>6

LEMMA ResumedCore ==
  ASSUME NEW s, Core(s), NEW r \in 1..Len(s.runs), NEW pc \in InFlight,
         NEW t, t = Resumed(s, r, pc)
  PROVE  Core(t) /\ Waker(t)
<1>1. pc \in Pcs /\ s \in QueueType
  BY DEF Pcs, Core
<1>2. /\ t \in QueueType /\ Len(t.runs) = Len(s.runs)
      /\ t.jobs = s.jobs /\ t.record = s.record /\ t.active = s.active
      /\ \A q \in 1..Len(s.runs) :
           /\ t.runs[q].job = s.runs[q].job
           /\ t.runs[q].pc = IF q = r THEN pc ELSE s.runs[q].pc
  BY <1>1, ResumedRuns
<1>3. \A j \in t.active :
        \E q \in 1..Len(t.runs) : t.runs[q].job = j /\ t.runs[q].pc \in InFlight
  <2> SUFFICES ASSUME NEW j \in t.active
               PROVE \E q \in 1..Len(t.runs) : t.runs[q].job = j /\ t.runs[q].pc \in InFlight
    OBVIOUS
  <2>1. PICK q \in 1..Len(s.runs) : s.runs[q].job = j /\ s.runs[q].pc \in InFlight
    BY <1>2 DEF Core
  <2> QED BY <1>2, <2>1
<1>4. Core(t)
  BY <1>2, <1>3 DEF Core
<1>5. Waker(t)
  BY <1>2 DEF Waker, InFlight
<1> QED BY <1>4, <1>5

LEMMA LeavesCore ==
  ASSUME NEW s, Core(s), NEW r \in 1..Len(s.runs), NEW t, t = Leaves(s, r)
  PROVE  /\ Core(t) /\ Waker(t) /\ Len(t.runs) = Len(s.runs)
         /\ t.jobs = s.jobs /\ t.record = s.record
         /\ \A q \in 1..Len(s.runs) :
              /\ t.runs[q].job = s.runs[q].job
              /\ t.runs[q].pc = IF q = r THEN "leaving" ELSE s.runs[q].pc
<1> DEFINE u == Resumed(s, r, "leaving")
           job == s.runs[r].job
<1>1. "leaving" \in Pcs /\ s \in QueueType
  BY DEF Pcs, Core
<1>2. /\ u \in QueueType /\ Len(u.runs) = Len(s.runs)
      /\ u.jobs = s.jobs /\ u.record = s.record /\ u.active = s.active
      /\ \A q \in 1..Len(s.runs) :
           /\ u.runs[q].job = s.runs[q].job
           /\ u.runs[q].pc = IF q = r THEN "leaving" ELSE s.runs[q].pc
  BY <1>1, ResumedRuns
<1>3. t = [u EXCEPT !.active = u.active \ {job}]
  BY DEF Leaves
<1> HIDE DEF u
<1>4. t.jobs = u.jobs /\ t.record = u.record /\ t.runs = u.runs
      /\ t.active = s.active \ {job} /\ t \in QueueType
  BY <1>2, <1>3 DEF QueueType
<1>5. \A j \in t.active :
        \E q \in 1..Len(t.runs) : t.runs[q].job = j /\ t.runs[q].pc \in InFlight
  <2> SUFFICES ASSUME NEW j \in t.active
               PROVE \E q \in 1..Len(t.runs) : t.runs[q].job = j /\ t.runs[q].pc \in InFlight
    OBVIOUS
  <2>1. PICK q \in 1..Len(s.runs) : s.runs[q].job = j /\ s.runs[q].pc \in InFlight
    BY <1>4 DEF Core
  <2>2. q # r
    BY <1>4, <2>1
  <2> QED BY <1>2, <1>4, <2>1, <2>2
<1>6. Core(t)
  BY <1>2, <1>4, <1>5 DEF Core
<1>7. Waker(t)
  BY <1>2, <1>4 DEF Waker
<1> QED BY <1>2, <1>4, <1>6, <1>7

\* The setImmediate of a finished run: the run is over, and processNext is called.
LEMMA OverCore ==
  ASSUME NEW s, Core(s), NEW r \in 1..Len(s.runs), s.runs[r].pc = "leaving",
         NEW t, t = Resumed(s, r, "over")
  PROVE  Core(t)
<1>1. "over" \in Pcs /\ s \in QueueType
  BY DEF Pcs, Core
<1>2. /\ t \in QueueType /\ Len(t.runs) = Len(s.runs)
      /\ t.jobs = s.jobs /\ t.record = s.record /\ t.active = s.active
      /\ \A q \in 1..Len(s.runs) :
           /\ t.runs[q].job = s.runs[q].job
           /\ t.runs[q].pc = IF q = r THEN "over" ELSE s.runs[q].pc
  BY <1>1, ResumedRuns
<1>3. \A j \in t.active :
        \E q \in 1..Len(t.runs) : t.runs[q].job = j /\ t.runs[q].pc \in InFlight
  <2> SUFFICES ASSUME NEW j \in t.active
               PROVE \E q \in 1..Len(t.runs) : t.runs[q].job = j /\ t.runs[q].pc \in InFlight
    OBVIOUS
  <2>1. PICK q \in 1..Len(s.runs) : s.runs[q].job = j /\ s.runs[q].pc \in InFlight
    BY <1>2 DEF Core
  <2>2. q # r
    BY <2>1 DEF InFlight
  <2> QED BY <1>2, <2>1, <2>2
<1> QED BY <1>2, <1>3 DEF Core

LEMMA AddedCore ==
  ASSUME NEW s, Core(s), NEW f \in Files, NEW at \in Nat, NEW t, t = Added(s, f, at)
  PROVE  /\ Core(t) /\ Waker(t) /\ Kept(s, t) /\ Len(t.jobs) = Len(s.jobs) + 1
         /\ \A i \in 1..Len(s.jobs) : t.jobs[i] = s.jobs[i] /\ t.record[i] = s.record[i]
         /\ t.jobs[Len(s.jobs) + 1].status = "queued"
         /\ t.record[Len(s.jobs) + 1] = "in_progress"
<1> DEFINE job == [file |-> f, at |-> at, status |-> "queued"]
           u == [s EXCEPT !.jobs = Append(s.jobs, job), !.record = Append(s.record, "in_progress")]
<1>1. s \in QueueType /\ s.jobs \in Seq(JobType) /\ s.record \in Seq(RecordStatuses)
      /\ Len(s.record) = Len(s.jobs) /\ Len(s.jobs) \in Nat /\ Len(s.runs) \in Nat
  BY Fields DEF Core
<1>2. job \in JobType /\ "in_progress" \in RecordStatuses /\ job.status = "queued"
  BY DEF JobType, RecordStatuses, Statuses, Live
<1>3. t = ProcessNext(u)
  BY DEF Added
<1>4. u.jobs = Append(s.jobs, job) /\ u.record = Append(s.record, "in_progress")
      /\ u.active = s.active /\ u.runs = s.runs
  BY <1>1 DEF QueueType
<1> HIDE DEF job
<1>5. /\ u.jobs \in Seq(JobType) /\ Len(u.jobs) = Len(s.jobs) + 1
      /\ \A i \in 1..Len(s.jobs) : u.jobs[i] = s.jobs[i]
      /\ u.jobs[Len(s.jobs) + 1] = job
  BY <1>1, <1>2, <1>4, AppendProperties
<1>6. /\ u.record \in Seq(RecordStatuses) /\ Len(u.record) = Len(s.record) + 1
      /\ \A i \in 1..Len(s.record) : u.record[i] = s.record[i]
      /\ u.record[Len(s.record) + 1] = "in_progress"
  BY <1>1, <1>2, <1>4, AppendProperties
<1>7. u \in QueueType
  BY <1>1, <1>4, <1>5, <1>6 DEF QueueType
<1> HIDE DEF u
<1>8. 1..Len(s.jobs) \subseteq 1..Len(u.jobs)
  BY <1>1, <1>5
<1>9. Core(u)
  BY <1>1, <1>4, <1>5, <1>6, <1>7, <1>8 DEF Core
<1>10. Core(t) /\ Waker(t) /\ Kept(u, t) /\ t.jobs = u.jobs /\ t.record = u.record
  BY <1>3, <1>9, ProcessNextCore
<1> QED BY <1>1, <1>2, <1>4, <1>5, <1>6, <1>10 DEF Kept

-----------------------------------------------------------------------------
(* What the records vouch for survives each function.                        *)

\* A state with the same jobs and records, and more runs, vouches for the same.
LEMMA PromotedKept ==
  ASSUME NEW s, NEW t, NEW a, NEW p, Core(s), Core(t), Kept(s, t), Promoted(s, a, p),
         Len(s.jobs) = Len(t.jobs),
         \A i \in 1..Len(s.jobs) : t.jobs[i].file = s.jobs[i].file,
         \A i \in 1..Len(s.jobs) : t.record[i] = "done" =>
           (\E r \in a : s.runs[r].job = i) /\ s.jobs[i].file \in p
  PROVE  Promoted(t, a, p)
<1>1. Len(s.runs) \in Nat /\ Len(t.runs) \in Nat
  BY Fields DEF Core
<1>2. \A r \in 1..Len(t.runs) : r \in 1..Len(s.runs) \/ t.runs[r].pc = "token"
  BY <1>1 DEF Kept
<1>3. 1..Len(s.runs) \subseteq 1..Len(t.runs)
  BY <1>1 DEF Kept
<1>4. \A r \in 1..Len(s.runs) : t.runs[r] = s.runs[r] /\ s.runs[r].job \in 1..Len(s.jobs)
  BY DEF Kept, Core
<1>5. a \subseteq 1..Len(t.runs) /\ p \subseteq Files
  BY <1>3 DEF Promoted
<1>6. \A r \in 1..Len(t.runs) : t.runs[r].pc \in {"mark", "marked"} => r \in a
  BY <1>2, <1>4 DEF Promoted
<1>7. \A r \in 1..Len(t.runs) :
        t.runs[r].pc = "marked" => t.jobs[t.runs[r].job].file \in p
  <2> SUFFICES ASSUME NEW r \in 1..Len(t.runs), t.runs[r].pc = "marked"
               PROVE t.jobs[t.runs[r].job].file \in p
    OBVIOUS
  <2>1. r \in 1..Len(s.runs) /\ t.runs[r] = s.runs[r]
    BY <1>2, <1>4
  <2>2. s.jobs[s.runs[r].job].file \in p
    BY <2>1 DEF Promoted
  <2> QED BY <1>4, <2>1, <2>2
<1>8. \A j \in 1..Len(t.jobs) : t.record[j] = "done" =>
        (\E r \in a : t.runs[r].job = j) /\ t.jobs[j].file \in p
  BY <1>4 DEF Promoted
<1> QED BY <1>5, <1>6, <1>7, <1>8 DEF Promoted

LEMMA PatchGood ==
  ASSUME NEW s, NEW a, NEW p, Good(s, a, p),
         NEW j \in 1..Len(s.jobs), NEW status \in Live, NEW t, t = Patch(s, j, status)
  PROVE  /\ Good(t, a, p) /\ Waker(t) /\ Kept(s, t) /\ Len(t.jobs) = Len(s.jobs)
<1>1. status \in Statuses /\ status \notin Terminal
  BY DEF Statuses, Live, Terminal
<1>2. /\ Core(t) /\ Waker(t) /\ Kept(s, t)
      /\ t.record = s.record /\ Len(t.jobs) = Len(s.jobs)
      /\ \A i \in 1..Len(s.jobs) :
           /\ t.jobs[i].file = s.jobs[i].file
           /\ t.jobs[i].status = IF i = j THEN status ELSE s.jobs[i].status
  BY <1>1, PatchCore DEF Good
<1>3. Recorded(t)
  BY <1>1, <1>2 DEF Good, Recorded
<1>4. \A i \in 1..Len(s.jobs) : t.record[i] = "done" =>
        (\E r \in a : s.runs[r].job = i) /\ s.jobs[i].file \in p
  BY <1>2 DEF Good, Promoted
<1>5. Promoted(t, a, p)
  BY <1>2, <1>4, PromotedKept DEF Good
<1> QED BY <1>2, <1>3, <1>5 DEF Good

LEMMA EndGood ==
  ASSUME NEW s, NEW a, NEW p, Good(s, a, p),
         NEW j \in 1..Len(s.jobs), NEW status \in Terminal,
         status = "done" => (\E r \in a : s.runs[r].job = j) /\ s.jobs[j].file \in p,
         NEW t, t = End(s, j, status)
  PROVE  Good(t, a, p) /\ Waker(t) /\ Kept(s, t) /\ Len(t.jobs) = Len(s.jobs)
<1>1. /\ Core(t) /\ Waker(t) /\ Kept(s, t) /\ Len(t.jobs) = Len(s.jobs)
      /\ \A i \in 1..Len(s.jobs) :
           /\ t.jobs[i].file = s.jobs[i].file
           /\ t.jobs[i].status = IF i = j THEN status ELSE s.jobs[i].status
           /\ t.record[i] = IF i = j THEN status ELSE s.record[i]
  BY EndCore DEF Good
<1>2. Recorded(t)
  BY <1>1 DEF Good, Recorded
<1>3. \A i \in 1..Len(s.jobs) : t.record[i] = "done" =>
        (\E r \in a : s.runs[r].job = i) /\ s.jobs[i].file \in p
  BY <1>1 DEF Good, Promoted
<1>4. Promoted(t, a, p)
  BY <1>1, <1>3, PromotedKept DEF Good
<1> QED BY <1>1, <1>2, <1>4 DEF Good

\* b and q: the assets and the processed files after the step that resumes the run.
LEMMA ResumedGood ==
  ASSUME NEW s, NEW a, NEW p, Good(s, a, p), NEW r \in 1..Len(s.runs), NEW pc \in InFlight,
         NEW b, NEW q, a \subseteq b, b \subseteq 1..Len(s.runs), p \subseteq q, q \subseteq Files,
         pc \in {"mark", "marked"} => r \in b,
         pc = "marked" => s.jobs[s.runs[r].job].file \in q,
         NEW t, t = Resumed(s, r, pc)
  PROVE  Good(t, b, q) /\ Waker(t)
<1>1. Core(t) /\ Waker(t)
  BY ResumedCore DEF Good
<1>2. pc \in Pcs /\ s \in QueueType
  BY DEF Pcs, Core, Good
<1>3. /\ Len(t.runs) = Len(s.runs) /\ t.jobs = s.jobs /\ t.record = s.record
      /\ \A k \in 1..Len(s.runs) :
           /\ t.runs[k].job = s.runs[k].job
           /\ t.runs[k].pc = IF k = r THEN pc ELSE s.runs[k].pc
  <2>1. r \in 1..Len(s.runs) /\ t = Resumed(s, r, pc)
    OBVIOUS
  <2> QED BY ONLY <1>2, <2>1, ResumedRuns
<1>4. Recorded(t)
  BY <1>3 DEF Good, Recorded
<1>5. Promoted(s, a, p)
  BY DEF Good
<1>6. \A k \in 1..Len(t.runs) : t.runs[k].pc \in {"mark", "marked"} => k \in b
  BY <1>3, <1>5 DEF Promoted
<1>7. \A k \in 1..Len(t.runs) : t.runs[k].pc = "marked" => t.jobs[t.runs[k].job].file \in q
  BY <1>3, <1>5 DEF Promoted
<1>8. \A j \in 1..Len(t.jobs) : t.record[j] = "done" =>
        (\E k \in b : t.runs[k].job = j) /\ t.jobs[j].file \in q
  BY <1>3, <1>5 DEF Promoted
<1>9. Promoted(t, b, q)
  BY <1>3, <1>6, <1>7, <1>8 DEF Promoted
<1> QED BY <1>1, <1>4, <1>9 DEF Good

LEMMA LeavesGood ==
  ASSUME NEW s, NEW a, NEW p, Good(s, a, p), NEW r \in 1..Len(s.runs),
         NEW t, t = Leaves(s, r)
  PROVE  Good(t, a, p) /\ Waker(t)
<1>1. /\ Core(t) /\ Waker(t) /\ Len(t.runs) = Len(s.runs)
      /\ t.jobs = s.jobs /\ t.record = s.record
      /\ \A k \in 1..Len(s.runs) :
           /\ t.runs[k].job = s.runs[k].job
           /\ t.runs[k].pc = IF k = r THEN "leaving" ELSE s.runs[k].pc
  BY LeavesCore DEF Good
<1>2. Recorded(t)
  BY <1>1 DEF Good, Recorded
<1>3. Promoted(s, a, p)
  BY DEF Good
<1>4. Promoted(t, a, p)
  BY <1>1, <1>3 DEF Promoted
<1> QED BY <1>1, <1>2, <1>4 DEF Good

LEMMA OverGood ==
  ASSUME NEW s, NEW a, NEW p, Good(s, a, p), NEW r \in 1..Len(s.runs),
         s.runs[r].pc = "leaving", NEW t, t = ProcessNext(Resumed(s, r, "over"))
  PROVE  Good(t, a, p) /\ Waker(t)
<1> DEFINE u == Resumed(s, r, "over")
<1>1. "over" \in Pcs /\ s \in QueueType
  BY DEF Pcs, Core, Good
<1>2. /\ Len(u.runs) = Len(s.runs) /\ u.jobs = s.jobs /\ u.record = s.record
      /\ \A k \in 1..Len(s.runs) :
           /\ u.runs[k].job = s.runs[k].job
           /\ u.runs[k].pc = IF k = r THEN "over" ELSE s.runs[k].pc
  BY <1>1, ResumedRuns
<1>3. Core(u)
  BY OverCore DEF Good
<1>4. t = ProcessNext(u)
  OBVIOUS
<1> HIDE DEF u
<1>5. Core(t) /\ Waker(t) /\ Kept(u, t) /\ t.jobs = u.jobs /\ t.record = u.record
  BY <1>3, <1>4, ProcessNextCore
<1>6. Promoted(s, a, p) /\ Recorded(s)
  BY DEF Good
<1>7. Promoted(u, a, p)
  BY <1>2, <1>6 DEF Promoted
<1>8. \A i \in 1..Len(u.jobs) : t.record[i] = "done" =>
        (\E k \in a : u.runs[k].job = i) /\ u.jobs[i].file \in p
  BY <1>5, <1>7 DEF Promoted
<1>9. Promoted(t, a, p)
  BY <1>3, <1>5, <1>7, <1>8, PromotedKept
<1>10. Recorded(t)
  BY <1>2, <1>5, <1>6 DEF Recorded
<1> QED BY <1>5, <1>9, <1>10 DEF Good

LEMMA BroadcastGood ==
  ASSUME NEW s, NEW a, NEW p, Good(s, a, p), NEW t, t = ProcessNext(s)
  PROVE  Good(t, a, p) /\ Waker(t)
<1>1. Core(t) /\ Waker(t) /\ Kept(s, t) /\ t.jobs = s.jobs /\ t.record = s.record
  BY ProcessNextCore DEF Good
<1>2. \A i \in 1..Len(s.jobs) : t.record[i] = "done" =>
        (\E r \in a : s.runs[r].job = i) /\ s.jobs[i].file \in p
  BY <1>1 DEF Good, Promoted
<1>3. Promoted(t, a, p)
  BY <1>1, <1>2, PromotedKept DEF Good
<1> QED BY <1>1, <1>3 DEF Good, Recorded

LEMMA AddedGood ==
  ASSUME NEW s, NEW a, NEW p, Good(s, a, p), NEW f \in Files, NEW at \in Nat,
         NEW t, t = Added(s, f, at)
  PROVE  Good(t, a, p) /\ Waker(t)
<1>1. /\ Core(t) /\ Waker(t) /\ Kept(s, t) /\ Len(t.jobs) = Len(s.jobs) + 1
      /\ \A i \in 1..Len(s.jobs) : t.jobs[i] = s.jobs[i] /\ t.record[i] = s.record[i]
      /\ t.jobs[Len(s.jobs) + 1].status = "queued"
      /\ t.record[Len(s.jobs) + 1] = "in_progress"
  BY AddedCore DEF Good
<1>2. Len(s.jobs) \in Nat /\ Len(s.runs) \in Nat /\ Len(t.runs) \in Nat
  BY <1>1, Fields DEF Good, Core
<1>3. \A i \in 1..Len(t.jobs) : i \in 1..Len(s.jobs) \/ i = Len(s.jobs) + 1
  BY <1>1, <1>2
<1>4. Recorded(t)
  BY <1>1, <1>3 DEF Recorded, Good, Terminal
<1>5. \A r \in 1..Len(t.runs) : r \in 1..Len(s.runs) \/ t.runs[r].pc = "token"
  BY <1>1, <1>2 DEF Kept
<1>6. 1..Len(s.runs) \subseteq 1..Len(t.runs)
  BY <1>1, <1>2 DEF Kept
<1>7. \A r \in 1..Len(s.runs) : t.runs[r] = s.runs[r] /\ s.runs[r].job \in 1..Len(s.jobs)
  BY <1>1 DEF Kept, Good, Core
<1>8. Promoted(s, a, p)
  BY DEF Good
<1>9. a \subseteq 1..Len(t.runs) /\ p \subseteq Files
  BY <1>6, <1>8 DEF Promoted
<1>10. \A r \in 1..Len(t.runs) : t.runs[r].pc \in {"mark", "marked"} => r \in a
  BY <1>5, <1>7, <1>8 DEF Promoted
<1>11. \A r \in 1..Len(t.runs) :
        t.runs[r].pc = "marked" => t.jobs[t.runs[r].job].file \in p
  <2> SUFFICES ASSUME NEW r \in 1..Len(t.runs), t.runs[r].pc = "marked"
               PROVE t.jobs[t.runs[r].job].file \in p
    OBVIOUS
  <2>1. r \in 1..Len(s.runs) /\ t.runs[r] = s.runs[r]
    BY <1>5, <1>7
  <2>2. s.jobs[s.runs[r].job].file \in p
    BY <1>8, <2>1 DEF Promoted
  <2> QED BY <1>1, <1>7, <2>1, <2>2
<1>12. \A j \in 1..Len(t.jobs) : t.record[j] = "done" =>
        (\E r \in a : t.runs[r].job = j) /\ t.jobs[j].file \in p
  <2> SUFFICES ASSUME NEW j \in 1..Len(t.jobs), t.record[j] = "done"
               PROVE (\E r \in a : t.runs[r].job = j) /\ t.jobs[j].file \in p
    OBVIOUS
  <2>1. j \in 1..Len(s.jobs) /\ s.record[j] = "done" /\ t.jobs[j] = s.jobs[j]
    BY <1>1, <1>3
  <2>2. PICK r \in a : s.runs[r].job = j
    BY <1>8, <2>1 DEF Promoted
  <2>3. t.runs[r] = s.runs[r]
    BY <1>7, <1>8 DEF Promoted
  <2>4. s.jobs[j].file \in p
    BY <1>8, <2>1 DEF Promoted
  <2> QED BY <2>1, <2>2, <2>3, <2>4
<1>13. Promoted(t, a, p)
  BY <1>9, <1>10, <1>11, <1>12 DEF Promoted
<1> QED BY <1>1, <1>4, <1>13 DEF Good

-----------------------------------------------------------------------------
(* Every step of the system.                                                 *)

LEMMA Settled ==
  ASSUME NEW t, NEW a, NEW p, Settle(t), Good(t, a, p), Waker(t),
         assets' = a, processed' = p, restarts' \in Nat
  PROVE  PromotionInv'
<1>1. t \in QueueType
  BY DEF Good, Core
<1>2. State' = [jobs |-> t.jobs, record |-> t.record, active |-> t.active, runs |-> t.runs]
  BY DEF Settle, State
<1>3. State' = t
  BY <1>1, <1>2 DEF QueueType
<1>4. Good(State', assets', processed') /\ Waker(State')
  BY <1>3
<1> QED BY <1>4 DEF PromotionInv

LEMMA StateFields ==
  ASSUME PromotionInv
  PROVE  /\ State \in QueueType /\ Good(State, assets, processed) /\ Waker(State)
         /\ State.jobs = jobs /\ State.record = record
         /\ State.active = active /\ State.runs = runs
         /\ DOMAIN jobs = 1..Len(jobs) /\ DOMAIN runs = 1..Len(runs)
         /\ jobs \in Seq(JobType) /\ runs \in Seq(RunType)
         /\ \A j \in 1..Len(jobs) : jobs[j] \in JobType /\ jobs[j].file \in Files
         /\ \A r \in 1..Len(runs) : runs[r].job \in 1..Len(jobs) /\ runs[r].pc \in Pcs
         /\ restarts \in Nat
<1>1. State \in QueueType /\ Good(State, assets, processed) /\ Waker(State) /\ Core(State)
  BY DEF PromotionInv, Good, Core
<1>2. State.jobs = jobs /\ State.record = record /\ State.active = active /\ State.runs = runs
  BY DEF State
<1>3. /\ DOMAIN jobs = 1..Len(jobs) /\ DOMAIN runs = 1..Len(runs)
      /\ jobs \in Seq(JobType) /\ runs \in Seq(RunType)
      /\ \A j \in 1..Len(jobs) : jobs[j] \in JobType
      /\ \A r \in 1..Len(runs) : runs[r] \in RunType
  <2>1. /\ DOMAIN State.jobs = 1..Len(State.jobs) /\ DOMAIN State.runs = 1..Len(State.runs)
        /\ State.jobs \in Seq(JobType) /\ State.runs \in Seq(RunType)
        /\ \A j \in 1..Len(State.jobs) : State.jobs[j] \in JobType
        /\ \A r \in 1..Len(State.runs) : State.runs[r] \in RunType
    BY <1>1, Fields
  <2> QED BY <1>2, <2>1
<1>4. \A j \in 1..Len(jobs) : jobs[j].file \in Files
  BY <1>3, JobFields
<1>5. \A r \in 1..Len(runs) : runs[r].job \in 1..Len(jobs) /\ runs[r].pc \in Pcs
  BY <1>1, <1>2, <1>3, RunFields DEF Core
<1> QED BY <1>1, <1>2, <1>3, <1>4, <1>5 DEF PromotionInv

LEMMA InstantsTyped ==
  ASSUME NEW s, Core(s)
  PROVE  Instants(s) \subseteq Nat
<1>1. CASE s.jobs = <<>>
  BY <1>1 DEF Instants
<1>2. CASE s.jobs # <<>>
  <2>1. s.jobs \in Seq(JobType) /\ Len(s.jobs) \in Nat
    BY Fields DEF Core
  <2>2. Len(s.jobs) \in 1..Len(s.jobs)
    BY <1>2, <2>1, EmptySeq
  <2>3. s.jobs[Len(s.jobs)].at \in Nat
    BY <2>1, <2>2, Fields, JobFields DEF Core
  <2> QED BY <1>2, <2>3 DEF Instants
<1> QED BY <1>1, <1>2

LEMMA PromoteStep ==
  ASSUME PromotionInv, NEW fs \in Requests, Promote(fs)
  PROVE  PromotionInv'
<1>0. Good(State, assets, processed) /\ restarts \in Nat
      /\ assets' = assets /\ processed' = processed /\ restarts' = restarts
  BY StateFields DEF Promote
<1>1. CASE \E f \in Files : fs = <<f>>
  <2>1. PICK f \in Files : fs = <<f>>
    BY <1>1
  <2>2. fs[1] = f /\ Len(fs) = 1
    BY <2>1
  <2>3. PICK at \in Instants(State) : Settle(Added(State, f, at))
    BY <2>2 DEF Promote
  <2>4. at \in Nat
    BY <1>0, InstantsTyped DEF Good
  <2> DEFINE t == Added(State, f, at)
  <2>5. Good(t, assets, processed) /\ Waker(t)
    BY <1>0, <2>4, AddedGood
  <2> QED BY <1>0, <2>3, <2>5, Settled
<1>2. CASE fs \in Files \X Files
  <2>1. fs[1] \in Files /\ fs[2] \in Files /\ Len(fs) = 2
    BY <1>2
  <2>2. PICK at \in Instants(State) :
          \E later \in Instants(Added(State, fs[1], at)) :
            Settle(Added(Added(State, fs[1], at), fs[2], later))
    BY <2>1 DEF Promote
  <2> DEFINE s == Added(State, fs[1], at)
  <2>3. PICK later \in Instants(s) : Settle(Added(s, fs[2], later))
    BY <2>2
  <2>4. at \in Nat
    BY <1>0, InstantsTyped DEF Good
  <2>5. Good(s, assets, processed)
    BY <1>0, <2>1, <2>4, AddedGood
  <2> DEFINE t == Added(s, fs[2], later)
  <2>6. Settle(t)
    BY <2>3
  <2>7. t = Added(s, fs[2], later)
    OBVIOUS
  <2> HIDE DEF s, t
  <2>8. later \in Nat
    BY <2>5, InstantsTyped DEF Good
  <2>9. Good(t, assets, processed) /\ Waker(t)
    BY <2>1, <2>5, <2>7, <2>8, AddedGood
  <2> QED BY <1>0, <2>6, <2>9, Settled
<1> QED BY <1>1, <1>2 DEF Requests

LEMMA JobSteps ==
  ASSUME PromotionInv, NEW j \in DOMAIN jobs, JobStep(j)
  PROVE  PromotionInv'
<1>0. /\ Good(State, assets, processed) /\ restarts \in Nat
      /\ State.jobs = jobs /\ j \in 1..Len(State.jobs) /\ jobs[j].file \in Files
  BY StateFields
<1>1. CASE Retry(j)
  <2>1. PICK at \in Instants(State) : Settle(Added(State, jobs[j].file, at))
    BY <1>1 DEF Retry
  <2>2. at \in Nat
    BY <1>0, InstantsTyped DEF Good
  <2> DEFINE t == Added(State, jobs[j].file, at)
  <2>3. Good(t, assets, processed) /\ Waker(t)
    BY <1>0, <2>2, AddedGood
  <2> QED BY <1>0, <1>1, <2>1, <2>3, Settled DEF Retry
<1>2. CASE Cancel(j)
  <2> DEFINE t == End(State, j, "cancelled")
  <2>1. "cancelled" \in Terminal
    BY DEF Terminal
  <2>2. Good(t, assets, processed) /\ Waker(t)
    BY <1>0, <2>1, EndGood
  <2> QED BY <1>0, <1>2, <2>2, Settled DEF Cancel
<1>3. CASE TickVetoed(j)
  <2> DEFINE t == ProcessNext(State)
  <2>1. Good(t, assets, processed) /\ Waker(t)
    BY <1>0, BroadcastGood
  <2> QED BY <1>0, <1>3, <2>1, Settled DEF TickVetoed
<1>4. CASE AutoFail(j)
  <2> DEFINE t == End(State, j, "failed")
  <2>1. "failed" \in Terminal
    BY DEF Terminal
  <2>2. Good(t, assets, processed) /\ Waker(t)
    BY <1>0, <2>1, EndGood
  <2> QED BY <1>0, <1>4, <2>2, Settled DEF AutoFail
<1> QED BY <1>1, <1>2, <1>3, <1>4 DEF JobStep

LEMMA ThrowsGood ==
  ASSUME NEW s, NEW a, NEW p, Good(s, a, p), NEW r \in 1..Len(s.runs), NEW t, t = Throws(s, r)
  PROVE  Good(t, a, p) /\ Waker(t)
<1> DEFINE u == End(s, s.runs[r].job, "failed")
<1>1. s.runs[r].job \in 1..Len(s.jobs) /\ "failed" \in Terminal
  BY DEF Good, Core, Terminal
<1>2. Good(u, a, p) /\ Kept(s, u)
  BY <1>1, EndGood
<1>3. t = Leaves(u, r)
  BY DEF Throws
<1> HIDE DEF u
<1>4. r \in 1..Len(u.runs)
  <2>1. Len(s.runs) \in Nat /\ Len(u.runs) \in Nat
    BY <1>2, Fields DEF Good, Core
  <2> QED BY <1>2, <2>1 DEF Kept
<1> QED BY <1>2, <1>3, <1>4, LeavesGood

LEMMA PromotingGood ==
  ASSUME NEW s, NEW a, NEW p, Good(s, a, p), NEW r \in 1..Len(s.runs), NEW t, t = Promoting(s, r)
  PROVE  /\ Good(t, a, p) /\ r \in 1..Len(t.runs) /\ 1..Len(s.runs) \subseteq 1..Len(t.runs)
         /\ t.runs[r] = s.runs[r] /\ Len(t.jobs) = Len(s.jobs)
<1>1. s.runs[r].job \in 1..Len(s.jobs) /\ "promoting" \in Live
  BY DEF Good, Core, Live
<1>2. Good(t, a, p) /\ Kept(s, t) /\ Len(t.jobs) = Len(s.jobs)
  BY <1>1, PatchGood DEF Promoting
<1>3. Len(s.runs) \in Nat /\ Len(t.runs) \in Nat
  BY <1>2, Fields DEF Good, Core
<1>4. r \in 1..Len(t.runs) /\ 1..Len(s.runs) \subseteq 1..Len(t.runs) /\ t.runs[r] = s.runs[r]
  BY <1>2, <1>3 DEF Kept
<1> QED BY <1>2, <1>4

LEMMA AssetsBounded ==
  ASSUME NEW s, NEW a, NEW p, Good(s, a, p)
  PROVE  a \subseteq 1..Len(s.runs) /\ p \subseteq Files
BY DEF Good, Promoted

LEMMA RunFacts ==
  ASSUME PromotionInv, NEW r \in DOMAIN runs
  PROVE  /\ Good(State, assets, processed) /\ restarts \in Nat
         /\ r \in 1..Len(State.runs) /\ State.runs[r] = runs[r]
         /\ State.jobs = jobs /\ JobOf(r) = runs[r].job
         /\ JobOf(r) \in 1..Len(State.jobs) /\ FileOf(r) \in Files
BY StateFields DEF JobOf, FileOf

LEMMA DownloadSteps ==
  ASSUME PromotionInv, NEW r \in DOMAIN runs, GotToken(r) \/ Chunk(r)
  PROVE  PromotionInv'
<1>0. /\ Good(State, assets, processed) /\ restarts \in Nat
      /\ r \in 1..Len(State.runs) /\ JobOf(r) \in 1..Len(State.jobs)
  BY RunFacts
<1> DEFINE s == Patch(State, JobOf(r), "downloading")
<1>1. "downloading" \in Live /\ "download" \in InFlight
  BY DEF Live, InFlight
<1>2. Good(s, assets, processed) /\ Waker(s) /\ Kept(State, s)
  BY <1>0, <1>1, PatchGood
<1>3. CASE Chunk(r)
  BY <1>0, <1>2, <1>3, Settled DEF Chunk
<1>4. CASE GotToken(r)
  <2> DEFINE t == Resumed(s, r, "download")
  <2>0. Settle(t) /\ assets' = assets /\ processed' = processed /\ restarts' = restarts
    BY <1>4 DEF GotToken
  <2>1. t = Resumed(s, r, "download")
    OBVIOUS
  <2> HIDE DEF s, t
  <2>2. r \in 1..Len(s.runs)
    <3>1. Len(State.runs) \in Nat /\ Len(s.runs) \in Nat
      BY <1>0, <1>2, Fields DEF Good, Core
    <3> QED BY <1>0, <1>2, <3>1 DEF Kept
  <2>3. assets \subseteq 1..Len(s.runs) /\ processed \subseteq Files
    BY <1>2, AssetsBounded
  <2>4. Good(t, assets, processed) /\ Waker(t)
    BY <1>1, <1>2, <2>1, <2>2, <2>3, ResumedGood
  <2> QED BY <1>0, <2>0, <2>4, Settled
<1> QED BY <1>3, <1>4

LEMMA SendToDriveStep ==
  ASSUME PromotionInv, NEW r \in DOMAIN runs, SendToDrive(r)
  PROVE  PromotionInv'
<1>0. Good(State, assets, processed) /\ restarts \in Nat /\ r \in 1..Len(State.runs)
  BY RunFacts
<1> DEFINE s == Promoting(State, r)
           u == Promoting(s, r)
           t == Resumed(u, r, "upload")
<1>1. Settle(t) /\ assets' = assets /\ processed' = processed /\ restarts' = restarts
  BY DEF SendToDrive
<1>2. Good(s, assets, processed) /\ r \in 1..Len(s.runs)
  BY <1>0, PromotingGood
<1> HIDE DEF s
<1>3. Good(u, assets, processed) /\ r \in 1..Len(u.runs)
  BY <1>2, PromotingGood
<1>4. assets \subseteq 1..Len(u.runs) /\ processed \subseteq Files /\ "upload" \in InFlight
  BY <1>3, AssetsBounded DEF InFlight
<1>5. t = Resumed(u, r, "upload")
  OBVIOUS
<1> HIDE DEF u, t
<1>6. Good(t, assets, processed) /\ Waker(t)
  BY <1>3, <1>4, <1>5, ResumedGood
<1> QED BY <1>0, <1>1, <1>6, Settled

LEMMA WriteLocalStep ==
  ASSUME PromotionInv, NEW r \in DOMAIN runs, WriteLocal(r)
  PROVE  PromotionInv'
<1>0. Good(State, assets, processed) /\ restarts \in Nat /\ r \in 1..Len(State.runs)
  BY RunFacts
<1> DEFINE s == Promoting(State, r)
           u == Promoting(s, r)
           v == Promoting(u, r)
           t == Resumed(v, r, "mark")
<1>1. Settle(t) /\ assets' = assets \cup {r} /\ processed' = processed /\ restarts' = restarts
  BY DEF WriteLocal
<1>2. Good(s, assets, processed) /\ r \in 1..Len(s.runs)
  BY <1>0, PromotingGood
<1> HIDE DEF s
<1>3. Good(u, assets, processed) /\ r \in 1..Len(u.runs)
  BY <1>2, PromotingGood
<1> HIDE DEF u
<1>4. Good(v, assets, processed) /\ r \in 1..Len(v.runs)
  BY <1>3, PromotingGood
<1>5. t = Resumed(v, r, "mark")
  OBVIOUS
<1> HIDE DEF v, t
<1>6. assets \subseteq assets \cup {r} /\ assets \cup {r} \subseteq 1..Len(v.runs)
      /\ processed \subseteq Files /\ "mark" \in InFlight /\ "mark" # "marked"
  BY <1>4, AssetsBounded DEF InFlight
<1>7. Good(t, assets \cup {r}, processed) /\ Waker(t)
  BY <1>4, <1>5, <1>6, ResumedGood
<1> QED BY <1>0, <1>1, <1>7, Settled

LEMMA UploadedStep ==
  ASSUME PromotionInv, NEW r \in DOMAIN runs, Uploaded(r)
  PROVE  PromotionInv'
<1>0. Good(State, assets, processed) /\ restarts \in Nat /\ r \in 1..Len(State.runs)
  BY RunFacts
<1> DEFINE s == Promoting(State, r)
           t == Resumed(s, r, "mark")
<1>1. Settle(t) /\ assets' = assets \cup {r} /\ processed' = processed /\ restarts' = restarts
  BY DEF Uploaded
<1>2. Good(s, assets, processed) /\ r \in 1..Len(s.runs)
  BY <1>0, PromotingGood
<1>3. t = Resumed(s, r, "mark")
  OBVIOUS
<1> HIDE DEF s, t
<1>4. assets \subseteq assets \cup {r} /\ assets \cup {r} \subseteq 1..Len(s.runs)
      /\ processed \subseteq Files /\ "mark" \in InFlight /\ "mark" # "marked"
  BY <1>2, AssetsBounded DEF InFlight
<1>5. Good(t, assets \cup {r}, processed) /\ Waker(t)
  BY <1>2, <1>3, <1>4, ResumedGood
<1> QED BY <1>0, <1>1, <1>5, Settled

LEMMA MarkProcessedStep ==
  ASSUME PromotionInv, NEW r \in DOMAIN runs, MarkProcessed(r)
  PROVE  PromotionInv'
<1>0. /\ Good(State, assets, processed) /\ restarts \in Nat /\ r \in 1..Len(State.runs)
      /\ State.runs[r] = runs[r] /\ State.jobs = jobs /\ FileOf(r) \in Files
  BY RunFacts
<1> DEFINE t == Resumed(State, r, "marked")
           q == processed \cup {FileOf(r)}
<1>1. Settle(t) /\ assets' = assets /\ processed' = q /\ restarts' = restarts
  BY DEF MarkProcessed
<1>2. r \in assets
  <2>1. State.runs[r].pc = "mark"
    BY <1>0 DEF MarkProcessed, At
  <2> QED BY <1>0, <2>1 DEF Good, Promoted
<1>3. assets \subseteq assets /\ assets \subseteq 1..Len(State.runs)
      /\ processed \subseteq q /\ q \subseteq Files /\ "marked" \in InFlight
  BY <1>0, AssetsBounded DEF InFlight
<1>4. State.jobs[State.runs[r].job].file \in q
  BY <1>0 DEF FileOf, JobOf
<1> HIDE DEF q
<1>5. Good(t, assets, q) /\ Waker(t)
  BY <1>0, <1>2, <1>3, <1>4, ResumedGood
<1> QED BY <1>0, <1>1, <1>5, Settled

LEMMA CompleteStep ==
  ASSUME PromotionInv, NEW r \in DOMAIN runs, Complete(r)
  PROVE  PromotionInv'
<1>0. /\ Good(State, assets, processed) /\ restarts \in Nat /\ r \in 1..Len(State.runs)
      /\ State.runs[r] = runs[r] /\ JobOf(r) = runs[r].job /\ JobOf(r) \in 1..Len(State.jobs)
  BY RunFacts
<1> DEFINE s == End(State, JobOf(r), "done")
           t == Leaves(s, r)
<1>1. Settle(t) /\ assets' = assets /\ processed' = processed /\ restarts' = restarts
  BY DEF Complete
<1>2. (\E k \in assets : State.runs[k].job = JobOf(r)) /\ State.jobs[JobOf(r)].file \in processed
  <2>1. State.runs[r].pc = "marked" /\ State.runs[r].job = JobOf(r)
    BY <1>0 DEF Complete, At
  <2> QED BY <1>0, <2>1 DEF Good, Promoted
<1>3. "done" \in Terminal
  BY DEF Terminal
<1>4. Good(s, assets, processed) /\ Kept(State, s)
  BY <1>0, <1>2, <1>3, EndGood
<1>5. t = Leaves(s, r)
  OBVIOUS
<1> HIDE DEF s, t
<1>6. r \in 1..Len(s.runs)
  <2>1. Len(State.runs) \in Nat /\ Len(s.runs) \in Nat
    BY <1>0, <1>4, Fields DEF Good, Core
  <2> QED BY <1>0, <1>4, <2>1 DEF Kept
<1>7. Good(t, assets, processed) /\ Waker(t)
  BY <1>4, <1>5, <1>6, LeavesGood
<1> QED BY <1>0, <1>1, <1>7, Settled

LEMMA ThrowSteps ==
  ASSUME PromotionInv, NEW r \in DOMAIN runs, Fail(r) \/ NoDestination(r)
  PROVE  PromotionInv'
<1>0. Good(State, assets, processed) /\ restarts \in Nat /\ r \in 1..Len(State.runs)
  BY RunFacts
<1>1. CASE Fail(r)
  <2> DEFINE t == Throws(State, r)
  <2>1. Good(t, assets, processed) /\ Waker(t)
    BY <1>0, ThrowsGood
  <2> QED BY <1>0, <1>1, <2>1, Settled DEF Fail
<1>2. CASE NoDestination(r)
  <2> DEFINE s == Promoting(State, r)
             t == Throws(s, r)
  <2>1. Settle(t) /\ assets' = assets /\ processed' = processed /\ restarts' = restarts
    BY <1>2 DEF NoDestination
  <2>2. Good(s, assets, processed) /\ r \in 1..Len(s.runs)
    BY <1>0, PromotingGood
  <2>3. t = Throws(s, r)
    OBVIOUS
  <2> HIDE DEF s, t
  <2>4. Good(t, assets, processed) /\ Waker(t)
    BY <2>2, <2>3, ThrowsGood
  <2> QED BY <1>0, <2>1, <2>4, Settled
<1> QED BY <1>1, <1>2

LEMMA NextRunStep ==
  ASSUME PromotionInv, NEW r \in DOMAIN runs, NextRun(r)
  PROVE  PromotionInv'
<1>0. /\ Good(State, assets, processed) /\ restarts \in Nat
      /\ r \in 1..Len(State.runs) /\ State.runs[r] = runs[r]
  BY RunFacts
<1> DEFINE t == ProcessNext(Resumed(State, r, "over"))
<1>1. State.runs[r].pc = "leaving"
  BY <1>0 DEF NextRun, At
<1>2. Good(t, assets, processed) /\ Waker(t)
  BY <1>0, <1>1, OverGood
<1> QED BY <1>0, <1>2, Settled DEF NextRun

LEMMA RestartStep ==
  ASSUME PromotionInv, Restart
  PROVE  PromotionInv'
<1>0. /\ Good(State, assets, processed) /\ restarts \in Nat /\ State \in QueueType
      /\ State.jobs = jobs /\ State.record = record /\ State.runs = runs
  BY StateFields
<1>1. /\ jobs \in Seq(JobType) /\ record \in Seq(RecordStatuses) /\ runs \in Seq(RunType)
      /\ Len(record) = Len(jobs)
      /\ Len(jobs) \in Nat /\ Len(record) \in Nat /\ Len(runs) \in Nat
      /\ DOMAIN jobs = 1..Len(jobs) /\ DOMAIN runs = 1..Len(runs)
      /\ DOMAIN record = 1..Len(record)
      /\ \A j \in 1..Len(jobs) : jobs[j] \in JobType
      /\ \A r \in 1..Len(runs) : runs[r] \in RunType
      /\ \A j \in 1..Len(record) : record[j] \in RecordStatuses
      /\ \A r \in 1..Len(runs) : runs[r].job \in 1..Len(jobs)
  BY <1>0, Fields, ElementOfSeq DEF Good, Core
<1>2. "gone" \in Statuses /\ "gone" \notin Terminal /\ "gone" # "queued" /\ "over" \in Pcs
      /\ "over" \notin {"mark", "marked"} /\ "interrupted" \in RecordStatuses
      /\ "interrupted" # "done"
  BY DEF Statuses, Terminal, Live, Pcs, InFlight, RecordStatuses
<1>3. /\ jobs' \in Seq(JobType) /\ Len(jobs') = Len(jobs)
      /\ \A j \in 1..Len(jobs) : jobs'[j].file = jobs[j].file /\ jobs'[j].status = "gone"
  <2>1. jobs' = [j \in 1..Len(jobs) |-> [jobs[j] EXCEPT !.status = "gone"]]
    BY <1>1 DEF Restart
  <2>2. \A j \in 1..Len(jobs) :
          /\ [jobs[j] EXCEPT !.status = "gone"] \in JobType
          /\ [jobs[j] EXCEPT !.status = "gone"].status = "gone"
          /\ [jobs[j] EXCEPT !.status = "gone"].file = jobs[j].file
    BY <1>1, <1>2, JobFields
  <2>3. jobs' \in [1..Len(jobs) -> JobType]
    BY <2>1, <2>2
  <2>4. jobs' \in Seq(JobType) /\ Len(jobs') = Len(jobs)
    BY <1>1, <2>3
  <2> QED BY <2>1, <2>2, <2>4
<1>4. /\ record' \in Seq(RecordStatuses) /\ Len(record') = Len(record)
      /\ \A j \in 1..Len(record) : record'[j] = "done" => record[j] = "done"
  <2>1. record' = [j \in 1..Len(record) |->
                     IF record[j] = "in_progress" THEN "interrupted" ELSE record[j]]
    BY <1>1 DEF Restart
  <2>2. record' \in [1..Len(record) -> RecordStatuses]
    BY <1>1, <1>2, <2>1
  <2>3. record' \in Seq(RecordStatuses) /\ Len(record') = Len(record)
    BY <1>1, <2>2
  <2> QED BY <1>2, <2>1, <2>3
<1>5. /\ runs' \in Seq(RunType) /\ Len(runs') = Len(runs)
      /\ \A r \in 1..Len(runs) : runs'[r].job = runs[r].job /\ runs'[r].pc = "over"
  <2>1. runs' = [r \in 1..Len(runs) |-> [runs[r] EXCEPT !.pc = "over"]]
    BY <1>1 DEF Restart
  <2>2. \A r \in 1..Len(runs) :
          /\ [runs[r] EXCEPT !.pc = "over"] \in RunType
          /\ [runs[r] EXCEPT !.pc = "over"].pc = "over"
          /\ [runs[r] EXCEPT !.pc = "over"].job = runs[r].job
    BY <1>1, <1>2, RunFields
  <2>3. runs' \in [1..Len(runs) -> RunType]
    BY <2>1, <2>2
  <2>4. runs' \in Seq(RunType) /\ Len(runs') = Len(runs)
    BY <1>1, <2>3
  <2> QED BY <2>1, <2>2, <2>4
<1>6. /\ State'.jobs = jobs' /\ State'.record = record' /\ State'.active = {}
      /\ State'.runs = runs' /\ State' \in QueueType
  BY <1>3, <1>4, <1>5 DEF State, QueueType, Restart
<1>7. assets' = assets /\ processed' = processed /\ restarts' \in Nat
  BY <1>0 DEF Restart
<1>8. Core(State')
  BY <1>1, <1>3, <1>4, <1>5, <1>6 DEF Core
<1>9. Recorded(State')
  BY <1>2, <1>3, <1>6 DEF Recorded
<1>10. Promoted(State', assets, processed)
  <2>0. Promoted(State, assets, processed)
    BY <1>0 DEF Good
  <2>1. assets \subseteq 1..Len(State'.runs) /\ processed \subseteq Files
    BY <1>0, <1>5, <1>6, <2>0 DEF Promoted
  <2>2. \A r \in 1..Len(State'.runs) : State'.runs[r].pc = "over"
    BY <1>5, <1>6
  <2>3. \A j \in 1..Len(State'.jobs) : State'.record[j] = "done" =>
          (\E r \in assets : State'.runs[r].job = j) /\ State'.jobs[j].file \in processed
    <3> SUFFICES ASSUME NEW j \in 1..Len(State'.jobs), State'.record[j] = "done"
                 PROVE (\E r \in assets : State'.runs[r].job = j)
                       /\ State'.jobs[j].file \in processed
      OBVIOUS
    <3>1. j \in 1..Len(jobs) /\ record[j] = "done"
      BY <1>1, <1>3, <1>4, <1>6
    <3>2. PICK r \in assets : runs[r].job = j
      BY <1>0, <2>0, <3>1 DEF Promoted
    <3>3. r \in 1..Len(runs)
      BY <1>0, <2>0 DEF Promoted
    <3>4. jobs[j].file \in processed
      BY <1>0, <2>0, <3>1 DEF Promoted
    <3> QED BY <1>3, <1>5, <1>6, <3>1, <3>2, <3>3, <3>4
  <2> QED BY <1>2, <2>1, <2>2, <2>3 DEF Promoted
<1>11. Waker(State')
  <2>1. Queued(State') = {}
    BY <1>1, <1>2, <1>3, <1>6 DEF Queued
  <2> QED BY <2>1 DEF Waker
<1> QED BY <1>7, <1>8, <1>9, <1>10, <1>11 DEF PromotionInv, Good

LEMMA PromotionStep ==
  ASSUME PromotionInv, [Next]_vars
  PROVE  PromotionInv'
<1>1. CASE \E fs \in Requests : Promote(fs)
  BY <1>1, PromoteStep
<1>2. CASE \E j \in DOMAIN jobs : JobStep(j)
  BY <1>2, JobSteps
<1>3. CASE \E r \in DOMAIN runs : RunStep(r) \/ Chunk(r)
  BY <1>3, DownloadSteps, SendToDriveStep, WriteLocalStep, UploadedStep, MarkProcessedStep,
     CompleteStep, ThrowSteps, NextRunStep DEF RunStep
<1>4. CASE Restart
  BY <1>4, RestartStep
<1>5. CASE UNCHANGED vars
  BY <1>5 DEF PromotionInv, State, vars
<1> QED BY <1>1, <1>2, <1>3, <1>4, <1>5 DEF Next

LEMMA PromotionInit ==
  ASSUME Init
  PROVE  PromotionInv
<1>1. State \in QueueType /\ State.jobs = <<>> /\ State.record = <<>>
      /\ State.active = {} /\ State.runs = <<>>
  BY EmptySeq DEF Init, State, QueueType
<1>2. Len(State.jobs) = 0 /\ Len(State.runs) = 0 /\ Len(State.record) = 0
  BY <1>1
<1>3. Core(State) /\ Recorded(State) /\ Promoted(State, assets, processed)
  BY <1>1, <1>2 DEF Core, Recorded, Promoted, Init
<1>4. Waker(State)
  BY <1>1, <1>2 DEF Waker, Queued
<1> QED BY <1>3, <1>4 DEF PromotionInv, Good, Init

\* The inductive invariant holds in every reachable state.
THEOREM PromotionInvariant == Spec => []PromotionInv
BY PromotionInit, PromotionStep, PTL DEF Spec

LEMMA InvImplies ==
  ASSUME PromotionInv
  PROVE  TypeOK /\ SlotsHaveWorkers /\ QueuedHasWaker /\ DoneIsPromoted /\ EndIsRecorded
<1>1. /\ Good(State, assets, processed) /\ Waker(State) /\ restarts \in Nat
      /\ State.jobs = jobs /\ State.record = record
      /\ State.active = active /\ State.runs = runs
      /\ DOMAIN jobs = 1..Len(jobs) /\ DOMAIN runs = 1..Len(runs)
  BY StateFields
<1>2. record \in Seq(RecordStatuses)
  BY StateFields, Fields
<1>3. TypeOK
  BY <1>1, <1>2, StateFields DEF TypeOK, Good, Core, Promoted
<1>4. SlotsHaveWorkers
  BY <1>1 DEF SlotsHaveWorkers, Good, Core, JobOf
<1>5. QueuedHasWaker
  BY <1>1 DEF QueuedHasWaker, Waker
<1>6. DoneIsPromoted
  BY <1>1 DEF DoneIsPromoted, Good, Promoted, JobOf
<1>7. EndIsRecorded
  BY <1>1 DEF EndIsRecorded, Good, Recorded
<1> QED BY <1>3, <1>4, <1>5, <1>6, <1>7

\* Type correctness.
THEOREM PromotionTyped == Spec => []TypeOK
BY PromotionInvariant, InvImplies, PTL

\* A slot of the processor is held only for a job that a call of process works on.
THEOREM NoSlotLeaks == Spec => []SlotsHaveWorkers
BY PromotionInvariant, InvImplies, PTL

\* While a job is queued, a call of process or its setImmediate has still to end.
THEOREM NoJobForgotten == Spec => []QueuedHasWaker
BY PromotionInvariant, InvImplies, PTL

\* A job whose record says done has its drive_assets row and a processed submission.
THEOREM DoneMeansPromoted == Spec => []DoneIsPromoted
BY PromotionInvariant, InvImplies, PTL

\* A job that ended in memory has a record that says the same.
THEOREM EndsAreRecorded == Spec => []EndIsRecorded
BY PromotionInvariant, InvImplies, PTL

-----------------------------------------------------------------------------
(* Whose status a step changes: a segment of a run writes the status of the  *)
(* run's own job only, however many broadcasts it makes.                     *)

\* t is a state of the same segment as s: of the jobs that s has, only k's status differs.
OnlyOf(s, t, k) ==
  /\ Core(t)
  /\ Len(s.jobs) <= Len(t.jobs) /\ Len(s.runs) <= Len(t.runs)
  /\ \A i \in 1..Len(s.jobs) : i # k => t.jobs[i].status = s.jobs[i].status
  /\ \A r \in 1..Len(s.runs) : t.runs[r].job = s.runs[r].job

LEMMA OnlyOfChain ==
  ASSUME NEW s, NEW t, NEW u, NEW k, Core(s), OnlyOf(s, t, k), OnlyOf(t, u, k)
  PROVE  OnlyOf(s, u, k)
<1>1. /\ Len(s.jobs) \in Nat /\ Len(t.jobs) \in Nat /\ Len(u.jobs) \in Nat
      /\ Len(s.runs) \in Nat /\ Len(t.runs) \in Nat /\ Len(u.runs) \in Nat
  BY Fields DEF OnlyOf, Core
<1>2. 1..Len(s.jobs) \subseteq 1..Len(t.jobs) /\ 1..Len(s.runs) \subseteq 1..Len(t.runs)
  BY <1>1 DEF OnlyOf
<1> QED BY <1>1, <1>2 DEF OnlyOf

LEMMA NextOnly ==
  ASSUME NEW s, Core(s), NEW k, NEW t, t = ProcessNext(s)
  PROVE  OnlyOf(s, t, k)
<1>1. Core(t) /\ Kept(s, t) /\ t.jobs = s.jobs
  BY ProcessNextCore
<1>2. Len(s.jobs) \in Nat
  BY Fields DEF Core
<1> QED BY <1>1, <1>2 DEF OnlyOf, Kept

LEMMA PatchOnly ==
  ASSUME NEW s, Core(s), NEW k \in 1..Len(s.jobs), NEW status \in Statuses,
         NEW t, t = Patch(s, k, status)
  PROVE  OnlyOf(s, t, k)
<1>1. /\ Core(t) /\ Kept(s, t) /\ Len(t.jobs) = Len(s.jobs)
      /\ \A i \in 1..Len(s.jobs) :
           t.jobs[i].status = IF i = k THEN status ELSE s.jobs[i].status
  BY PatchCore
<1>2. Len(s.jobs) \in Nat
  BY Fields DEF Core
<1> QED BY <1>1, <1>2 DEF OnlyOf, Kept

LEMMA EndOnly ==
  ASSUME NEW s, Core(s), NEW k \in 1..Len(s.jobs), NEW status \in Terminal,
         NEW t, t = End(s, k, status)
  PROVE  /\ OnlyOf(s, t, k) /\ Len(t.jobs) = Len(s.jobs)
         /\ t.jobs[k].status = status
<1>1. /\ Core(t) /\ Kept(s, t) /\ Len(t.jobs) = Len(s.jobs)
      /\ \A i \in 1..Len(s.jobs) :
           t.jobs[i].status = IF i = k THEN status ELSE s.jobs[i].status
  BY EndCore
<1>2. Len(s.jobs) \in Nat
  BY Fields DEF Core
<1> QED BY <1>1, <1>2 DEF OnlyOf, Kept

LEMMA ResumedOnly ==
  ASSUME NEW s, Core(s), NEW r \in 1..Len(s.runs), NEW pc \in InFlight, NEW k,
         NEW t, t = Resumed(s, r, pc)
  PROVE  OnlyOf(s, t, k)
<1>1. s \in QueueType /\ pc \in Pcs /\ Len(s.jobs) \in Nat /\ Len(s.runs) \in Nat
  BY Fields DEF Core, Pcs
<1>2. Core(t)
  BY ResumedCore
<1>3. /\ Len(t.runs) = Len(s.runs) /\ t.jobs = s.jobs
      /\ \A q \in 1..Len(s.runs) : t.runs[q].job = s.runs[q].job
  BY <1>1, ResumedRuns
<1> QED BY <1>1, <1>2, <1>3 DEF OnlyOf

LEMMA LeavesOnly ==
  ASSUME NEW s, Core(s), NEW r \in 1..Len(s.runs), NEW k, NEW t, t = Leaves(s, r)
  PROVE  OnlyOf(s, t, k) /\ t.jobs = s.jobs
<1>1. /\ Core(t) /\ Len(t.runs) = Len(s.runs) /\ t.jobs = s.jobs
      /\ \A q \in 1..Len(s.runs) : t.runs[q].job = s.runs[q].job
  BY LeavesCore
<1>2. Len(s.jobs) \in Nat /\ Len(s.runs) \in Nat
  BY Fields DEF Core
<1> QED BY <1>1, <1>2 DEF OnlyOf

LEMMA AddedOnly ==
  ASSUME NEW s, Core(s), NEW f \in Files, NEW at \in Nat, NEW k, NEW t, t = Added(s, f, at)
  PROVE  OnlyOf(s, t, k)
<1>1. /\ Core(t) /\ Kept(s, t) /\ Len(t.jobs) = Len(s.jobs) + 1
      /\ \A i \in 1..Len(s.jobs) : t.jobs[i] = s.jobs[i]
  BY AddedCore
<1>2. Len(s.jobs) \in Nat
  BY Fields DEF Core
<1> QED BY <1>1, <1>2 DEF OnlyOf, Kept

\* A broadcast of a run's progress, in the midst of a segment of run r.
LEMMA PromotingOnly ==
  ASSUME NEW s, Core(s), NEW r \in 1..Len(s.runs), NEW k, k = s.runs[r].job,
         NEW t, t = Promoting(s, r)
  PROVE  OnlyOf(s, t, k) /\ Core(t) /\ r \in 1..Len(t.runs) /\ k = t.runs[r].job
<1>1. k \in 1..Len(s.jobs) /\ "promoting" \in Statuses
  BY DEF Core, Statuses, Live
<1>2. OnlyOf(s, t, k)
  BY <1>1, PatchOnly DEF Promoting
<1>3. Len(s.runs) \in Nat /\ Len(t.runs) \in Nat
  BY <1>2, Fields DEF OnlyOf, Core
<1> QED BY <1>2, <1>3 DEF OnlyOf

LEMMA ThrowsOnly ==
  ASSUME NEW s, Core(s), NEW r \in 1..Len(s.runs), NEW k, k = s.runs[r].job,
         NEW t, t = Throws(s, r)
  PROVE  OnlyOf(s, t, k)
<1> DEFINE u == End(s, k, "failed")
<1>1. k \in 1..Len(s.jobs) /\ "failed" \in Terminal
  BY DEF Core, Terminal
<1>2. OnlyOf(s, u, k)
  BY <1>1, EndOnly
<1>3. t = Leaves(u, r)
  BY DEF Throws
<1> HIDE DEF u
<1>4. Len(s.runs) \in Nat /\ Len(u.runs) \in Nat
  BY <1>2, Fields DEF OnlyOf, Core
<1>5. Core(u) /\ r \in 1..Len(u.runs)
  BY <1>2, <1>4 DEF OnlyOf
<1>6. OnlyOf(u, t, k)
  BY <1>3, <1>5, LeavesOnly
<1> QED BY <1>2, <1>6, OnlyOfChain

\* What a step of run r makes of a job: it may change the status of its own.
StatusKept(k) ==
  \A i \in DOMAIN jobs : i # k => jobs'[i].status = jobs[i].status

LEMMA SettledOnly ==
  ASSUME PromotionInv, NEW t, NEW k, Settle(t), OnlyOf(State, t, k)
  PROVE  StatusKept(k) /\ jobs' = t.jobs
BY StateFields DEF OnlyOf, Settle, StatusKept

LEMMA RunWritesOwn ==
  ASSUME PromotionInv, NEW r \in DOMAIN runs, RunStep(r) \/ Chunk(r)
  PROVE  /\ StatusKept(JobOf(r))
         /\ jobs'[JobOf(r)].status # jobs[JobOf(r)].status => runs[r].pc \in InFlight
<1> DEFINE k == JobOf(r)
<1>0. /\ Core(State) /\ r \in 1..Len(State.runs) /\ State.runs[r] = runs[r]
      /\ State.jobs = jobs /\ k = State.runs[r].job /\ k \in 1..Len(State.jobs)
  BY RunFacts DEF Good
<1>00. DOMAIN jobs = 1..Len(jobs)
  BY StateFields
<1>1. "downloading" \in Statuses /\ "done" \in Terminal
      /\ {"download", "upload", "mark", "marked"} \subseteq InFlight
  BY DEF Statuses, Live, Terminal, InFlight
<1> HIDE DEF k
<1>2. ASSUME NEW t, Settle(t), OnlyOf(State, t, k)
      PROVE  StatusKept(k)
  BY <1>2, SettledOnly
<1>3. CASE GotToken(r)
  <2> DEFINE s == Patch(State, k, "downloading")
             t == Resumed(s, r, "download")
  <2>1. Settle(t)
    BY <1>3 DEF GotToken, k
  <2>2. OnlyOf(State, s, k)
    BY <1>0, <1>1, PatchOnly
  <2>3. t = Resumed(s, r, "download")
    OBVIOUS
  <2> HIDE DEF s, t
  <2>4. Core(s) /\ r \in 1..Len(s.runs)
    <3>1. Len(State.runs) \in Nat /\ Len(s.runs) \in Nat
      BY <1>0, <2>2, Fields DEF OnlyOf, Core
    <3> QED BY <1>0, <2>2, <3>1 DEF OnlyOf
  <2>5. OnlyOf(s, t, k)
    BY <1>1, <2>3, <2>4, ResumedOnly
  <2>6. OnlyOf(State, t, k)
    BY <1>0, <2>2, <2>5, OnlyOfChain
  <2> QED BY <1>1, <1>2, <1>3, <2>1, <2>6 DEF GotToken, At, k, InFlight
<1>4. CASE Chunk(r)
  <2> DEFINE s == Patch(State, k, "downloading")
  <2>1. Settle(s)
    BY <1>4 DEF Chunk, k
  <2>2. OnlyOf(State, s, k)
    BY <1>0, <1>1, PatchOnly
  <2> QED BY <1>1, <1>2, <1>4, <2>1, <2>2 DEF Chunk, At, k
<1>5. CASE SendToDrive(r)
  <2> DEFINE s == Promoting(State, r)
             u == Promoting(s, r)
             t == Resumed(u, r, "upload")
  <2>1. Settle(t)
    BY <1>5 DEF SendToDrive
  <2>2. OnlyOf(State, s, k) /\ Core(s) /\ r \in 1..Len(s.runs) /\ k = s.runs[r].job
    BY <1>0, PromotingOnly
  <2> HIDE DEF s
  <2>3. OnlyOf(s, u, k) /\ Core(u) /\ r \in 1..Len(u.runs)
    BY <2>2, PromotingOnly
  <2>4. t = Resumed(u, r, "upload")
    OBVIOUS
  <2> HIDE DEF u, t
  <2>5. OnlyOf(u, t, k)
    BY <1>1, <2>3, <2>4, ResumedOnly
  <2>6. OnlyOf(State, t, k)
    BY <1>0, <2>2, <2>3, <2>5, OnlyOfChain
  <2> QED BY <1>1, <1>2, <1>5, <2>1, <2>6 DEF SendToDrive, At, k
<1>6. CASE WriteLocal(r)
  <2> DEFINE s == Promoting(State, r)
             u == Promoting(s, r)
             v == Promoting(u, r)
             t == Resumed(v, r, "mark")
  <2>1. Settle(t)
    BY <1>6 DEF WriteLocal
  <2>2. OnlyOf(State, s, k) /\ Core(s) /\ r \in 1..Len(s.runs) /\ k = s.runs[r].job
    BY <1>0, PromotingOnly
  <2> HIDE DEF s
  <2>3. OnlyOf(s, u, k) /\ Core(u) /\ r \in 1..Len(u.runs) /\ k = u.runs[r].job
    BY <2>2, PromotingOnly
  <2> HIDE DEF u
  <2>4. OnlyOf(u, v, k) /\ Core(v) /\ r \in 1..Len(v.runs)
    BY <2>3, PromotingOnly
  <2>5. t = Resumed(v, r, "mark")
    OBVIOUS
  <2> HIDE DEF v, t
  <2>6. OnlyOf(v, t, k)
    BY <1>1, <2>4, <2>5, ResumedOnly
  <2>7. OnlyOf(State, u, k)
    BY <1>0, <2>2, <2>3, OnlyOfChain
  <2>8. OnlyOf(State, t, k)
    BY <1>0, <2>3, <2>4, <2>6, <2>7, OnlyOfChain
  <2> QED BY <1>1, <1>2, <1>6, <2>1, <2>8 DEF WriteLocal, At, k
<1>7. CASE Uploaded(r)
  <2> DEFINE s == Promoting(State, r)
             t == Resumed(s, r, "mark")
  <2>1. Settle(t)
    BY <1>7 DEF Uploaded
  <2>2. OnlyOf(State, s, k) /\ Core(s) /\ r \in 1..Len(s.runs)
    BY <1>0, PromotingOnly
  <2>3. t = Resumed(s, r, "mark")
    OBVIOUS
  <2> HIDE DEF s, t
  <2>4. OnlyOf(State, t, k)
    BY <1>0, <1>1, <2>2, <2>3, ResumedOnly, OnlyOfChain
  <2> QED BY <1>1, <1>2, <1>7, <2>1, <2>4 DEF Uploaded, At, k
<1>8. CASE MarkProcessed(r)
  <2> DEFINE t == Resumed(State, r, "marked")
  <2>1. Settle(t)
    BY <1>8 DEF MarkProcessed
  <2>2. OnlyOf(State, t, k)
    BY <1>0, <1>1, ResumedOnly
  <2> QED BY <1>1, <1>2, <1>8, <2>1, <2>2 DEF MarkProcessed, At, k
<1>9. CASE Complete(r)
  <2> DEFINE s == End(State, k, "done")
             t == Leaves(s, r)
  <2>1. Settle(t)
    BY <1>9 DEF Complete, k
  <2>2. OnlyOf(State, s, k)
    BY <1>0, <1>1, EndOnly
  <2>3. t = Leaves(s, r)
    OBVIOUS
  <2> HIDE DEF s, t
  <2>4. Core(s) /\ r \in 1..Len(s.runs)
    <3>1. Len(State.runs) \in Nat /\ Len(s.runs) \in Nat
      BY <1>0, <2>2, Fields DEF OnlyOf, Core
    <3> QED BY <1>0, <2>2, <3>1 DEF OnlyOf
  <2>5. OnlyOf(State, t, k)
    BY <1>0, <2>2, <2>3, <2>4, LeavesOnly, OnlyOfChain
  <2> QED BY <1>1, <1>2, <1>9, <2>1, <2>5 DEF Complete, At, k
<1>10. CASE Fail(r)
  <2> DEFINE t == Throws(State, r)
  <2>1. Settle(t)
    BY <1>10 DEF Fail
  <2>2. OnlyOf(State, t, k)
    BY <1>0, ThrowsOnly
  <2> QED BY <1>2, <1>10, <2>1, <2>2 DEF Fail, k
<1>11. CASE NoDestination(r)
  <2> DEFINE s == Promoting(State, r)
             t == Throws(s, r)
  <2>1. Settle(t)
    BY <1>11 DEF NoDestination
  <2>2. OnlyOf(State, s, k) /\ Core(s) /\ r \in 1..Len(s.runs) /\ k = s.runs[r].job
    BY <1>0, PromotingOnly
  <2>3. t = Throws(s, r)
    OBVIOUS
  <2> HIDE DEF s, t
  <2>4. OnlyOf(State, t, k)
    BY <1>0, <2>2, <2>3, ThrowsOnly, OnlyOfChain
  <2> QED BY <1>1, <1>2, <1>11, <2>1, <2>4 DEF NoDestination, At, k
<1>12. CASE NextRun(r)
  <2> DEFINE s == Resumed(State, r, "over")
             t == ProcessNext(s)
  <2>1. Settle(t)
    BY <1>12 DEF NextRun
  <2>2. State.runs[r].pc = "leaving"
    BY <1>0, <1>12 DEF NextRun, At
  <2>3. Core(s) /\ s.jobs = State.jobs
    <3>1. "over" \in Pcs /\ State \in QueueType
      BY <1>0 DEF Pcs, Core
    <3> QED BY <1>0, <2>2, <3>1, OverCore, ResumedRuns
  <2>4. t = ProcessNext(s)
    OBVIOUS
  <2> HIDE DEF s, t
  <2>5. t.jobs = State.jobs
    BY <2>3, <2>4, ProcessNextCore
  <2>6. jobs' = jobs
    BY <1>0, <2>1, <2>5 DEF Settle
  <2> QED BY <2>6 DEF StatusKept, k
<1> QED BY <1>3, <1>4, <1>5, <1>6, <1>7, <1>8, <1>9, <1>10, <1>11, <1>12 DEF RunStep, k

\* A route, a cancel and the tracker's tick leave a job that is done alone.
LEMMA DoneLeftAlone ==
  ASSUME PromotionInv, NEW i \in DOMAIN jobs, jobs[i].status = "done",
         \/ \E fs \in Requests : Promote(fs)
         \/ \E j \in DOMAIN jobs : JobStep(j)
  PROVE  jobs'[i].status = "done"
<1>0. Core(State) /\ State.jobs = jobs /\ DOMAIN jobs = 1..Len(jobs)
      /\ \A j \in 1..Len(jobs) : jobs[j].file \in Files
  BY StateFields DEF Good
<1>1. "done" \notin Live /\ "cancelled" \in Terminal /\ "failed" \in Terminal
  BY DEF Live, Terminal
<1>2. ASSUME NEW t, NEW k, Settle(t), OnlyOf(State, t, k), i # k
      PROVE  jobs'[i].status = "done"
  BY <1>2, SettledOnly DEF StatusKept
<1>3. ASSUME NEW f \in Files, NEW at \in Instants(State), Settle(Added(State, f, at))
      PROVE  jobs'[i].status = "done"
  <2> DEFINE t == Added(State, f, at)
  <2>1. OnlyOf(State, t, 0)
    BY <1>0, InstantsTyped, AddedOnly
  <2> QED BY <1>0, <1>2, <1>3, <2>1
<1>4. ASSUME NEW fs \in Requests, Promote(fs)
      PROVE  jobs'[i].status = "done"
  <2>1. CASE \E f \in Files : fs = <<f>>
    <3>1. PICK f \in Files : fs = <<f>>
      BY <2>1
    <3>2. fs[1] = f /\ Len(fs) = 1
      BY <3>1
    <3>3. PICK at \in Instants(State) : Settle(Added(State, f, at))
      BY <1>4, <3>2 DEF Promote
    <3> QED BY <1>3, <3>3
  <2>2. CASE fs \in Files \X Files
    <3>1. fs[1] \in Files /\ fs[2] \in Files /\ Len(fs) = 2
      BY <2>2
    <3>2. PICK at \in Instants(State) :
            \E later \in Instants(Added(State, fs[1], at)) :
              Settle(Added(Added(State, fs[1], at), fs[2], later))
      BY <1>4, <3>1 DEF Promote
    <3> DEFINE s == Added(State, fs[1], at)
    <3>3. PICK later \in Instants(s) : Settle(Added(s, fs[2], later))
      BY <3>2
    <3>4. OnlyOf(State, s, 0)
      BY <1>0, <3>1, InstantsTyped, AddedOnly
    <3> DEFINE t == Added(s, fs[2], later)
    <3>5. Settle(t) /\ t = Added(s, fs[2], later)
      BY <3>3
    <3> HIDE DEF s, t
    <3>6. Core(s)
      BY <3>4 DEF OnlyOf
    <3>7. OnlyOf(s, t, 0)
      BY <3>1, <3>3, <3>5, <3>6, InstantsTyped, AddedOnly
    <3>8. OnlyOf(State, t, 0)
      BY <1>0, <3>4, <3>7, OnlyOfChain
    <3> QED BY <1>0, <1>2, <3>5, <3>8
  <2> QED BY <2>1, <2>2 DEF Requests
<1>5. ASSUME NEW j \in DOMAIN jobs, JobStep(j)
      PROVE  jobs'[i].status = "done"
  <2>1. CASE Retry(j)
    BY <1>0, <1>3, <2>1 DEF Retry
  <2>2. CASE Cancel(j)
    <3>1. i # j /\ Settle(End(State, j, "cancelled"))
      BY <1>1, <2>2 DEF Cancel
    <3>2. OnlyOf(State, End(State, j, "cancelled"), j)
      BY <1>0, <1>1, EndOnly
    <3> QED BY <1>2, <3>1, <3>2
  <2>3. CASE TickVetoed(j)
    <3>1. OnlyOf(State, ProcessNext(State), 0)
      BY <1>0, NextOnly
    <3> QED BY <1>0, <1>2, <2>3, <3>1 DEF TickVetoed
  <2>4. CASE AutoFail(j)
    <3>1. i # j /\ Settle(End(State, j, "failed"))
      BY <1>1, <2>4 DEF AutoFail
    <3>2. OnlyOf(State, End(State, j, "failed"), j)
      BY <1>0, <1>1, EndOnly
    <3> QED BY <1>2, <3>1, <3>2
  <2> QED BY <1>5, <2>1, <2>2, <2>3, <2>4 DEF JobStep
<1> QED BY <1>4, <1>5

TwinUndoes(i) ==
  jobs[i].status = "done" /\ jobs'[i].status # "done" =>
    \/ jobs'[i].status = "gone"
    \/ \E r \in DOMAIN runs : JobOf(r) = i /\ runs[r].pc \in InFlight

LEMMA TwinStep ==
  ASSUME PromotionInv, [Next]_vars, NEW i \in DOMAIN jobs
  PROVE  TwinUndoes(i)
<1>1. CASE (\E fs \in Requests : Promote(fs)) \/ (\E j \in DOMAIN jobs : JobStep(j))
  BY <1>1, DoneLeftAlone DEF TwinUndoes
<1>2. CASE \E r \in DOMAIN runs : RunStep(r) \/ Chunk(r)
  <2>1. PICK r \in DOMAIN runs : RunStep(r) \/ Chunk(r)
    BY <1>2
  <2>2. /\ StatusKept(JobOf(r))
        /\ jobs'[JobOf(r)].status # jobs[JobOf(r)].status => runs[r].pc \in InFlight
    BY <2>1, RunWritesOwn
  <2> QED BY <2>2 DEF TwinUndoes, StatusKept
<1>3. CASE Restart
  <2>1. jobs'[i].status = "gone"
    <3>1. jobs[i] \in JobType
      BY StateFields
    <3> QED BY <1>3, <3>1 DEF Restart, JobType
  <2> QED BY <2>1 DEF TwinUndoes
<1>4. CASE UNCHANGED vars
  BY <1>4 DEF TwinUndoes, vars
<1> QED BY <1>1, <1>2, <1>3, <1>4 DEF Next

\* A job that was done stops being done only while a second call of process for the
\* same job is in flight, or by a restart: a cancel, a retry, the tracker's tick and
\* the runs of other jobs leave it alone.
THEOREM DoneUndoneByTwin == Spec => OnlyTwinUndoesDone
<1>1. PromotionInv /\ [Next]_vars
        => [\A j \in DOMAIN jobs : jobs[j].status = "done" /\ jobs'[j].status # "done" =>
              \/ jobs'[j].status = "gone"
              \/ \E r \in DOMAIN runs : JobOf(r) = j /\ runs[r].pc \in InFlight]_vars
  BY TwinStep DEF TwinUndoes
<1> QED BY <1>1, PromotionInvariant, PTL DEF Spec, OnlyTwinUndoesDone
=============================================================================
