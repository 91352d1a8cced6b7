------------------------------ MODULE Provisioning ------------------------------
(***************************************************************************)
(* LP.AI provisioning over the transcripter: a call pushes videos to LP.AI *)
(* one after the other, and before each push waits for a high-quality      *)
(* transcript, which a sidecar job of the queue produces once and a marker *)
(* in the settings remembers.                                              *)
(*                                                                         *)
(* A step of the transcripter that runs the completion callbacks of a job  *)
(* also takes the calls that wait for the job to their push.               *)
(***************************************************************************)
EXTENDS Transcripter, Sequences

CONSTANTS
  Provisions,    \* calls of provisionAssetToLpai and provisionProjectToLpai
  Batches    \* the asset lists a call is made with: one asset, or a project's in order

ASSUME ProvisioningAssumption ==
  \A b \in Batches : b \in Seq(Assets) /\ b # <<>>

VARIABLES
  prov,   \* of each call: the assets to do, where it is, its sidecar, what it will push
  marker  \* settings lpai.turbo.*: the sidecar whose transcript is reused

pvars == <<vars, prov, marker>>

Stages == {"idle", "next", "waiting", "pushing"}
ProvType ==
  [rest : Seq(Assets), pc : Stages, sidecar : Ids \cup {NoJob}, source : Ids \cup {NoJob}]

Idle == [rest |-> <<>>, pc |-> "idle", sidecar |-> NoJob, source |-> NoJob]

ProvTypeOK ==
  /\ prov \in [Provisions -> ProvType]
  /\ marker \in [Assets -> Ids \cup {NoJob}]

AssetIn(p) == Head(prov[p].rest)

\* Of the assets of a batch, the first is done: on to the next, or the end of the call.
Advanced(q) ==
  IF Len(q.rest) > 1 THEN [Idle EXCEPT !.rest = Tail(q.rest), !.pc = "next"] ELSE Idle

-----------------------------------------------------------------------------

\* toggle_on and reprovision (a project), auto_finalize (one asset).
Begin(p, b) ==
  /\ prov[p] = Idle
  /\ prov' = [prov EXCEPT ![p] = [Idle EXCEPT !.rest = b, !.pc = "next"]]
  /\ UNCHANGED <<vars, marker>>

\* findCachedTurboJobId: the marked transcript, if its word-level file is still there.
Cached(a) == marker[a] \in words

\* The asset is gone or its video is not ready on Cloudflare.
Skip(p) ==
  /\ prov[p].pc = "next"
  /\ prov' = [prov EXCEPT ![p] = Advanced(@)]
  /\ UNCHANGED <<vars, marker>>

UseCached(p) ==
  /\ prov[p].pc = "next" /\ AssetIn(p) \notin removed /\ Cached(AssetIn(p))
  /\ prov' = [prov EXCEPT ![p].pc = "pushing", ![p].source = marker[AssetIn(p)]]
  /\ UNCHANGED <<vars, marker>>

\* The media file is missing: the base transcript is pushed.
UseBase(p) ==
  /\ prov[p].pc = "next" /\ AssetIn(p) \notin removed /\ ~Cached(AssetIn(p))
  /\ prov' = [prov EXCEPT ![p].pc = "pushing", ![p].source = entry[AssetIn(p)]["en"].job]
  /\ UNCHANGED <<vars, marker>>

\* A sidecar is queued and waited for; the asset was read before the wait.
Transcribe(p, i) ==
  /\ prov[p].pc = "next" /\ AssetIn(p) \notin removed /\ ~Cached(AssetIn(p))
  /\ EnqueueSidecar(i, AssetIn(p))
  /\ prov' = [prov EXCEPT ![p].pc = "waiting", ![p].sidecar = i,
                          ![p].source = entry[AssetIn(p)]["en"].job]
  /\ UNCHANGED marker

\* postIngest is answered, or fails: the next asset either way.
Pushed(p) ==
  /\ prov[p].pc = "pushing"
  /\ prov' = [prov EXCEPT ![p] = Advanced(@)]
  /\ UNCHANGED <<vars, marker>>

Told(p) == prov[p].pc = "waiting" /\ prov[p].sidecar \in fired' \ fired

\* waitForJob resolves: with the marked sidecar, or after a failure with the base transcript.
Resolved(p) ==
  IF ~Told(p) THEN prov[p]
  ELSE LET i == prov[p].sidecar
       IN [prov[p] EXCEPT !.pc = "pushing",
                          !.source = IF job'[i].status = "done" THEN i ELSE @]

Succeeded(a, i) ==
  \E p \in Provisions : Told(p) /\ AssetIn(p) = a /\ i = prov[p].sidecar /\ job'[i].status = "done"

\* What the callbacks a step runs do to the calls that wait.
Tell ==
  /\ prov' = [p \in Provisions |-> Resolved(p)]
  /\ marker' = [a \in Assets |-> IF \E i \in Ids : Succeeded(a, i)
                                 THEN CHOOSE i \in Ids : Succeeded(a, i) ELSE marker[a]]

TranscripterStep == (ProcessNext \/ (\E i \in Ids : JobStep(i)) \/ UserStep) /\ Tell

\* The server dies: the calls are gone, the settings stay.
RestartAll == Restart /\ prov' = [p \in Provisions |-> Idle] /\ UNCHANGED marker

-----------------------------------------------------------------------------

PInit == Init /\ prov = [p \in Provisions |-> Idle] /\ marker = [a \in Assets |-> NoJob]

ProvStep(p) == Skip(p) \/ UseCached(p) \/ UseBase(p) \/ (\E i \in Ids : Transcribe(p, i)) \/ Pushed(p)

PNext ==
  \/ TranscripterStep \/ RestartAll
  \/ \E p \in Provisions : ProvStep(p) \/ \E b \in Batches : Begin(p, b)

PSpec == PInit /\ [][PNext]_pvars

\* As for the transcripter alone; fetch answers or fails.
PFairness ==
  /\ WF_pvars(EventLoop /\ Tell) /\ WF_pvars(Tick /\ Tell)
  /\ \A p \in Provisions : WF_pvars(ProvStep(p))

PFairSpec == PSpec /\ PFairness

-----------------------------------------------------------------------------
(* Properties *)

\* The transcript the marker names outlives every prune and every deletion of transcripts:
\* no later push finds its cache hit empty.
CacheHolds == \A a \in Assets : marker[a] # NoJob => marker[a] \in files

\* A call of provisioning that waits for a transcript goes on to its push whatever becomes
\* of the sidecar, a cancel (and the end of the server) excepted.
ProvisionGoesOn ==
  \A p \in Provisions :
    prov[p].pc = "waiting" ~> (prov[p].pc # "waiting" \/ prov[p].sidecar \in canceled)
=============================================================================
