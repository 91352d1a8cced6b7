-------------------------- MODULE UploadQueue_proofs --------------------------
(***************************************************************************)
(* Theorems of UploadQueue: its invariants, and that it implements          *)
(* JobLifecycle, for every set of jobs and every choice of timeouts.        *)
(***************************************************************************)
EXTENDS UploadQueue, TLAPS

\* The record on disk says of every job in memory what the memory says.
RecordMatches ==
  \A j \in Jobs :
    /\ status[j] \in Live => record[j] = "in_progress"
    /\ status[j] \in Terminal => record[j] = status[j]

\* An id is marked as cancelled only once it has a record: a new job starts unmarked.
MarksRecorded == \A j \in cancelledIds : record[j] # "none"

\* The inductive invariant.  RecordMatches is what lets the record tell a job of an
\* earlier life of the server from one that was never added.
QueueInv == TypeOK /\ RecordMatches /\ CancelledIsMarked /\ MarksRecorded

\* A job of which the Map knows anything has a record.
LEMMA Recorded ==
  ASSUME TypeOK, RecordMatches, NEW j \in Jobs, status[j] # "absent"
  PROVE  record[j] # "none"
BY DEF TypeOK, RecordMatches, Live, Working, Terminal

LEMMA OverdueLive == Overdue \subseteq {j \in Jobs : status[j] \in Live}
BY DEF Overdue, Live

LEMMA ExpiredLive == Expired \subseteq {j \in Jobs : status[j] \in Live}
BY DEF Expired

\* A patch alters the job it names, and only while that job lives.
LEMMA PatchFacts ==
  ASSUME TypeOK, NEW i \in Jobs, NEW s \in Live \cup Terminal, Patch(i, s)
  PROVE  /\ status' \in [Jobs -> {"absent"} \cup Live \cup Terminal]
         /\ age' \in [Jobs -> Nat]
         /\ status[i] \in Live => status'[i] = s
         /\ status[i] \notin Live => status'[i] = status[i]
         /\ \A j \in Jobs \ {i} : status'[j] = status[j]
<1>1. status' \in [Jobs -> {"absent"} \cup Live \cup Terminal]
  BY DEF Patch, TypeOK
<1>2. age' \in [Jobs -> Nat]
  BY DEF Patch, TypeOK
<1>3. QED
  BY <1>1, <1>2 DEF Patch, TypeOK

\* Every step keeps the invariant: the record is written with the status it goes with.
LEMMA Inductive == QueueInv /\ [Next]_vars => QueueInv'
<1> SUFFICES ASSUME QueueInv, [Next]_vars PROVE QueueInv'
  OBVIOUS
<1>0. TypeOK /\ RecordMatches /\ CancelledIsMarked /\ MarksRecorded
  BY DEF QueueInv
<1> USE DEF Live, Working, Terminal
<1>a. ASSUME NEW S \in SUBSET {j \in Jobs : status[j] \in Live}, FailAll(S)
      PROVE  QueueInv'
  <2>1. TypeOK'
    BY <1>0, <1>a DEF TypeOK, FailAll
  <2>2. RecordMatches'
    BY <1>0, <1>a DEF TypeOK, RecordMatches, FailAll
  <2>3. CancelledIsMarked'
    BY <1>0, <1>a DEF TypeOK, CancelledIsMarked, FailAll
  <2>4. MarksRecorded'
    BY <1>0, <1>a DEF TypeOK, MarksRecorded, FailAll
  <2>5. QED
    BY <2>1, <2>2, <2>3, <2>4 DEF QueueInv
<1>1. ASSUME NEW i \in Jobs, Add(i) PROVE QueueInv'
  <2>0. status[i] = "absent"
    BY <1>0, <1>1, Recorded DEF Add
  <2>1. TypeOK'
    BY <1>0, <1>1 DEF TypeOK, Add
  <2>2. RecordMatches'
    BY <1>0, <1>1 DEF TypeOK, RecordMatches, Add
  <2>3. CancelledIsMarked'
    BY <1>0, <1>1, <2>0 DEF TypeOK, CancelledIsMarked, MarksRecorded, Add
  <2>4. MarksRecorded'
    BY <1>0, <1>1, <2>0 DEF TypeOK, MarksRecorded, Add
  <2>5. QED
    BY <2>1, <2>2, <2>3, <2>4 DEF QueueInv
<1>2. ASSUME NEW i \in Jobs, NEW s \in Working, Report(i, s) PROVE QueueInv'
  <2>0. s \in Live \cup Terminal /\ Patch(i, s)
    BY <1>2 DEF Report
  <2>1. TypeOK'
    BY <1>0, <1>2, <2>0, PatchFacts DEF TypeOK, Report
  <2>2. RecordMatches'
    BY <1>0, <1>2, <2>0, PatchFacts DEF TypeOK, RecordMatches, Report
  <2>3. CancelledIsMarked'
    BY <1>0, <1>2, <2>0, PatchFacts DEF TypeOK, CancelledIsMarked, Report
  <2>4. MarksRecorded'
    BY <1>0, <1>2, <2>0 DEF TypeOK, MarksRecorded, Report
  <2>5. QED
    BY <2>1, <2>2, <2>3, <2>4 DEF QueueInv
<1>3. ASSUME NEW i \in Jobs, Heartbeat(i) PROVE QueueInv'
  BY <1>0, <1>3 DEF QueueInv, TypeOK, RecordMatches, CancelledIsMarked, MarksRecorded, Heartbeat
<1>4. ASSUME NEW i \in Jobs, Complete(i) PROVE QueueInv'
  <2>0. Patch(i, "done")
    BY <1>4 DEF Complete
  <2>1. TypeOK'
    BY <1>0, <1>4, <2>0, PatchFacts DEF TypeOK, Complete
  <2>2. RecordMatches'
    BY <1>0, <1>4, <2>0, PatchFacts DEF TypeOK, RecordMatches, Complete
  <2>3. CancelledIsMarked'
    BY <1>0, <1>4, <2>0, PatchFacts DEF TypeOK, CancelledIsMarked, Complete
  <2>4. MarksRecorded'
    BY <1>0, <1>4, <2>0 DEF TypeOK, MarksRecorded, Complete
  <2>5. QED
    BY <2>1, <2>2, <2>3, <2>4 DEF QueueInv
<1>5. ASSUME NEW i \in Jobs, Fail(i) PROVE QueueInv'
  <2>0. Patch(i, "failed")
    BY <1>5 DEF Fail
  <2>1. TypeOK'
    BY <1>0, <1>5, <2>0, PatchFacts DEF TypeOK, Fail
  <2>2. RecordMatches'
    BY <1>0, <1>5, <2>0, PatchFacts DEF TypeOK, RecordMatches, Fail
  <2>3. CancelledIsMarked'
    BY <1>0, <1>5, <2>0, PatchFacts DEF TypeOK, CancelledIsMarked, Fail
  <2>4. MarksRecorded'
    BY <1>0, <1>5, <2>0 DEF TypeOK, MarksRecorded, Fail
  <2>5. QED
    BY <2>1, <2>2, <2>3, <2>4 DEF QueueInv
<1>6. ASSUME NEW i \in Jobs, Cancel(i) PROVE QueueInv'
  <2>0. Patch(i, "cancelled")
    BY <1>6 DEF Cancel
  <2>1. TypeOK'
    BY <1>0, <1>6, <2>0, PatchFacts DEF TypeOK, Cancel
  <2>2. RecordMatches'
    BY <1>0, <1>6, <2>0, PatchFacts DEF TypeOK, RecordMatches, Cancel
  <2>3. CancelledIsMarked'
    BY <1>0, <1>6, <2>0, PatchFacts DEF TypeOK, CancelledIsMarked, Cancel
  <2>4. MarksRecorded'
    BY <1>0, <1>6, <2>0 DEF TypeOK, MarksRecorded, Cancel
  <2>5. QED
    BY <2>1, <2>2, <2>3, <2>4 DEF QueueInv
<1>7. CASE TimeoutSweep
  BY <1>7, <1>a, ExpiredLive DEF TimeoutSweep
<1>8. CASE TrackerTick
  BY <1>8, <1>a, OverdueLive DEF TrackerTick
<1>9. CASE Minute
  BY <1>0, <1>9 DEF QueueInv, TypeOK, RecordMatches, CancelledIsMarked, MarksRecorded, Minute
<1>10. CASE Restart
  BY <1>0, <1>10 DEF QueueInv, TypeOK, RecordMatches, CancelledIsMarked, MarksRecorded, Restart
<1>11. CASE UNCHANGED vars
  BY <1>0, <1>11 DEF QueueInv, TypeOK, RecordMatches, CancelledIsMarked, MarksRecorded, vars
<1>12. QED
  BY <1>1, <1>2, <1>3, <1>4, <1>5, <1>6, <1>7, <1>8, <1>9, <1>10, <1>11 DEF Next, Call

\* The queue, the set of cancelled ids and the job records agree in every state.
THEOREM QueueInvariant == Spec => []QueueInv
<1>1. Init => QueueInv
  BY DEF Init, QueueInv, TypeOK, RecordMatches, CancelledIsMarked, MarksRecorded, Live, Working, Terminal
<1>2. QED
  BY <1>1, Inductive, PTL DEF Spec

\* Every variable keeps its type.
THEOREM QueueTyped == Spec => []TypeOK
BY QueueInvariant, PTL DEF QueueInv

\* A worker that polls isCancelled stops for exactly the jobs that were cancelled.
THEOREM CancelsAgree == Spec => []CancelledIsMarked
BY QueueInvariant, PTL DEF QueueInv

-----------------------------------------------------------------------------
(* Refinement: every step is a step of JobLifecycle or changes nothing there. *)

LifeOf == [j \in Jobs |-> Life(j)]

\* A step that alters no status up to liveness and no record is a stutter.
LEMMA Stutter ==
  ASSUME record' = record,
         \A j \in Jobs : \/ status'[j] = status[j]
                         \/ status[j] \in Live /\ status'[j] \in Live
  PROVE  UNCHANGED Lifecycle!vars
<1>1. \A j \in Jobs : Life(j)' = Life(j)
  BY DEF Life, Live, Working
<1>2. LifeOf' = LifeOf
  BY <1>1 DEF LifeOf
<1>3. QED
  BY <1>2 DEF LifeOf, Lifecycle!vars

\* Jobs of S that live and end together in one way make one step of JobLifecycle.
LEMMA Ending ==
  ASSUME QueueInv,
         NEW S \in SUBSET {j \in Jobs : status[j] \in Live},
         NEW how \in {"done", "failed", "cancelled"},
         \A j \in Jobs : status'[j] = IF j \in S THEN how ELSE status[j],
         record' = [j \in Jobs |-> IF j \in S THEN how ELSE record[j]]
  PROVE  Lifecycle!Next
<1>1. S \subseteq {j \in Jobs : LifeOf[j] = "live"}
  BY DEF LifeOf, Life, Live, Working
<1>2. \A j \in Jobs : Life(j)' = IF j \in S THEN how ELSE LifeOf[j]
  <2> TAKE j \in Jobs
  <2>1. CASE j \in S
    BY <2>1 DEF Life, Live, Working
  <2>2. CASE j \notin S
    BY <2>2 DEF Life, LifeOf
  <2>3. QED
    BY <2>1, <2>2
<1>3. LifeOf' = [j \in Jobs |-> IF j \in S THEN how ELSE LifeOf[j]]
  BY <1>2 DEF LifeOf
<1>4. Lifecycle!End(S, how)
  BY <1>1, <1>3 DEF LifeOf, Lifecycle!End
<1>5. QED
  BY <1>4 DEF Lifecycle!Next, Lifecycle!Ends

LEMMA EndOne ==
  ASSUME QueueInv, NEW i \in Jobs, NEW how \in {"done", "failed", "cancelled"},
         status[i] \in Live, Patch(i, how), record' = [record EXCEPT ![i] = how]
  PROVE  Lifecycle!Next
<1>0. TypeOK
  BY DEF QueueInv
<1>1. \A j \in Jobs : status'[j] = IF j \in {i} THEN how ELSE status[j]
  BY <1>0, PatchFacts DEF Terminal
<1>2. record' = [j \in Jobs |-> IF j \in {i} THEN how ELSE record[j]]
  BY <1>0 DEF TypeOK
<1>3. {i} \in SUBSET {j \in Jobs : status[j] \in Live}
  OBVIOUS
<1>4. QED
  BY <1>1, <1>2, <1>3, Ending

LEMMA FailsAll ==
  ASSUME QueueInv, NEW S \in SUBSET {j \in Jobs : status[j] \in Live}, FailAll(S)
  PROVE  Lifecycle!Next
BY Ending DEF FailAll

LEMMA Adding ==
  ASSUME QueueInv, NEW i \in Jobs, Add(i)
  PROVE  Lifecycle!Next
<1>0. TypeOK /\ RecordMatches
  BY DEF QueueInv
<1>1. status[i] = "absent" /\ record[i] = "none"
  BY <1>0, Recorded DEF Add
<1>2. LifeOf[i] = "new"
  BY <1>1 DEF LifeOf, Life, Live, Working
<1>3. \A j \in Jobs : Life(j)' = [LifeOf EXCEPT ![i] = "live"][j]
  BY <1>0, <1>1 DEF Life, LifeOf, Add, TypeOK, Live, Working
<1>4. LifeOf' = [LifeOf EXCEPT ![i] = "live"]
  BY <1>3 DEF LifeOf
<1>5. Lifecycle!Submit(i)
  BY <1>2, <1>4 DEF LifeOf, Lifecycle!Submit, Add
<1>6. QED
  BY <1>5 DEF Lifecycle!Next

LEMMA Cancelling ==
  ASSUME QueueInv, NEW i \in Jobs, Cancel(i)
  PROVE  Lifecycle!Next
<1>0. TypeOK
  BY DEF QueueInv
<1>1. CASE status[i] \in Live
  BY <1>1, EndOne DEF Cancel
<1>2. CASE status[i] = "absent"
  <2>0. /\ \A j \in Jobs : status'[j] = status[j]
        /\ record' = [record EXCEPT ![i] = "cancelled"]
        /\ record[i] # "none"
    BY <1>0, <1>2, PatchFacts DEF Cancel, Terminal, Live, Working
  <2>1. LifeOf[i] = "lost"
    BY <1>2, <2>0 DEF LifeOf, Life, Live, Working
  <2>2. \A j \in Jobs : Life(j)' = Life(j)
    BY <1>0, <2>0 DEF Life, TypeOK
  <2>3. LifeOf' = LifeOf
    BY <2>2 DEF LifeOf
  <2>4. Lifecycle!Disown(i)
    BY <2>0, <2>1, <2>3 DEF LifeOf, Lifecycle!Disown
  <2>5. QED
    BY <2>4 DEF Lifecycle!Next
<1>3. QED
  BY <1>0, <1>1, <1>2 DEF TypeOK, Cancel

LEMMA Restarting ==
  ASSUME QueueInv, Restart
  PROVE  Lifecycle!Next
<1>0. TypeOK /\ RecordMatches
  BY DEF QueueInv
<1>1. \A j \in Jobs : record[j] = "none" <=> Life(j) = "new"
  BY <1>0, Recorded DEF Life, TypeOK, Live, Working, Terminal
<1>2. \A j \in Jobs : record'[j] = "none" <=> record[j] = "none"
  BY <1>0 DEF Restart, TypeOK
<1>3. \A j \in Jobs : Life(j)' = IF Life(j) = "new" THEN "new" ELSE "lost"
  BY <1>1, <1>2 DEF Restart, Life, Live, Working
<1>4. LifeOf' = [j \in Jobs |-> IF LifeOf[j] = "new" THEN "new" ELSE "lost"]
  BY <1>3 DEF LifeOf
<1>5. Lifecycle!Lose
  BY <1>4 DEF LifeOf, Lifecycle!Lose, Restart
<1>6. QED
  BY <1>5 DEF Lifecycle!Next

LEMMA StepRefines == QueueInv /\ [Next]_vars => [Lifecycle!Next]_(Lifecycle!vars)
<1> SUFFICES ASSUME QueueInv, [Next]_vars PROVE Lifecycle!Next \/ UNCHANGED Lifecycle!vars
  OBVIOUS
<1>0. TypeOK
  BY DEF QueueInv
<1>1. ASSUME NEW i \in Jobs, Add(i) PROVE Lifecycle!Next
  BY <1>1, Adding
<1>2. ASSUME NEW i \in Jobs, NEW s \in Working, Report(i, s) PROVE UNCHANGED Lifecycle!vars
  <2>1. s \in Live /\ Patch(i, s) /\ record' = record
    BY <1>2 DEF Report, Live
  <2>2. \A j \in Jobs : status'[j] = status[j] \/ (status[j] \in Live /\ status'[j] \in Live)
    BY <1>0, <2>1, PatchFacts
  <2>3. QED
    BY <2>1, <2>2, Stutter
<1>3. ASSUME NEW i \in Jobs, Heartbeat(i) PROVE UNCHANGED Lifecycle!vars
  BY <1>3, Stutter DEF Heartbeat
<1>4. ASSUME NEW i \in Jobs, Complete(i) PROVE Lifecycle!Next
  BY <1>4, EndOne DEF Complete
<1>5. ASSUME NEW i \in Jobs, Fail(i) PROVE Lifecycle!Next
  BY <1>5, EndOne DEF Fail
<1>6. ASSUME NEW i \in Jobs, Cancel(i) PROVE Lifecycle!Next
  BY <1>6, Cancelling
<1>7. CASE TimeoutSweep
  BY <1>7, FailsAll, ExpiredLive DEF TimeoutSweep
<1>8. CASE TrackerTick
  BY <1>8, FailsAll, OverdueLive DEF TrackerTick
<1>9. CASE Minute
  BY <1>9, Stutter DEF Minute
<1>10. CASE Restart
  BY <1>10, Restarting
<1>11. CASE UNCHANGED vars
  BY <1>11, Stutter DEF vars
<1>12. QED
  BY <1>1, <1>2, <1>3, <1>4, <1>5, <1>6, <1>7, <1>8, <1>9, <1>10, <1>11 DEF Next, Call

\* The queue implements JobLifecycle: a job ends at most once and its record says how,
\* whatever late workers, timers and users call.
THEOREM QueueRefines == Spec => ImplementsLifecycle
<1>1. Init => Lifecycle!Init
  BY DEF Init, Lifecycle!Init, Life, Live, Working
<1>2. QED
  BY <1>1, StepRefines, QueueInvariant, PTL DEF Spec, Lifecycle!Spec, ImplementsLifecycle
=============================================================================
