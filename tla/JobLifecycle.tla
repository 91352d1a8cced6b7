----------------------------- MODULE JobLifecycle -----------------------------
(***************************************************************************)
(* What a queue of background jobs promises: a job that was submitted ends  *)
(* at most once, in one of three ways, whatever its worker, the timers and  *)
(* the users do afterwards, and the job record kept on disk says how.  A    *)
(* restart forgets every job; the record of one that had not ended says it  *)
(* was interrupted.                                                         *)
(***************************************************************************)
CONSTANT Jobs

VARIABLES
  life,    \* "new", "live", the way the job ended, or "lost" in a restart
  outcome  \* what the job record says

vars == <<life, outcome>>

Ends == {"done", "failed", "cancelled"}

Init ==
  /\ life = [j \in Jobs |-> "new"]
  /\ outcome = [j \in Jobs |-> "none"]

Submit(j) ==
  /\ life[j] = "new"
  /\ life' = [life EXCEPT ![j] = "live"]
  /\ outcome' = [outcome EXCEPT ![j] = "in_progress"]

\* One timer may fail several jobs; a report or a user ends one.
End(S, how) ==
  /\ S \subseteq {j \in Jobs : life[j] = "live"}
  /\ life' = [j \in Jobs |-> IF j \in S THEN how ELSE life[j]]
  /\ outcome' = [j \in Jobs |-> IF j \in S THEN how ELSE outcome[j]]

\* A restart: what is in memory is lost, the records stay.
Lose ==
  /\ life' = [j \in Jobs |-> IF life[j] = "new" THEN "new" ELSE "lost"]
  /\ outcome' = [j \in Jobs |->
                   IF outcome[j] = "in_progress" THEN "interrupted" ELSE outcome[j]]

\* A user cancels a job of before the restart: only its record changes.
Disown(j) ==
  /\ life[j] \in {"new", "lost"}
  /\ outcome[j] # "none"
  /\ outcome' = [outcome EXCEPT ![j] = "cancelled"]
  /\ UNCHANGED life

Next ==
  \/ \E j \in Jobs : Submit(j) \/ Disown(j)
  \/ \E S \in SUBSET Jobs, how \in Ends : End(S, how)
  \/ Lose

Spec == Init /\ [][Next]_vars
=============================================================================
