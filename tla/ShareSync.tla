-------------------------------- MODULE ShareSync --------------------------------
(***************************************************************************)
(* The sync with LP Share, the public review app: shares and their comment  *)
(* threads are pushed to it, what clients change there is pulled, applied    *)
(* and acknowledged.  One tick at a time; every request of a tick may fail,  *)
(* or be carried out and its answer lost, and the process may die.           *)
(*                                                                          *)
(* LP Share is external.  What share-app.ts relies on: changes are numbered  *)
(* and kept, an ack marks those up to its cursor, a push of an asset's       *)
(* threads replaces them but leaves comments with changes not yet acked      *)
(* alone.  A comment's payload and a share's are what they say and whether   *)
(* comments are on; a comment of an earlier cut is as gone as a deleted one.  *)
(*                                                                          *)
(* Definitions marked "Mutation" are wrong on purpose and used nowhere: the  *)
(* properties are shown to fail when one replaces the definition after it.   *)
(***************************************************************************)
EXTENDS Naturals, FiniteSets, Sequences

CONSTANTS
  Shares, Assets, Comments,
  Texts,      \* what a comment may say
  AssetsOf,   \* the assets of each share
  CommentsOf, \* the comments each asset may get
  MaxLog,     \* bound: changes clients make
  MaxSteps    \* bound: what staff do in LPOS

ASSUME ShareAssumption ==
  /\ AssetsOf \in [Shares -> SUBSET Assets]
  /\ CommentsOf \in [Assets -> SUBSET Comments]
  /\ \A a, b \in Assets : a # b => CommentsOf[a] \cap CommentsOf[b] = {}
  /\ Texts # {} /\ MaxLog \in Nat /\ MaxSteps \in Nat

VARIABLES
  row,    \* media_comments with a share_id
  share,  \* share_links
  hashed, \* share_app_pushed, the assets: {} or {what was pushed}
  shared, \* share_app_pushed, the shares: {} or {what was pushed}
  cursor, \* share_app.pull_cursor
  tick,   \* syncShareAppOnce
  thread, \* LP Share: its comments
  page,   \* LP Share: its shares
  log,    \* LP Share: the changes of clients
  acked,  \* LP Share: how many of them are acknowledged
  steps,  \* counts towards MaxSteps
  unsure, \* ghost: assets whose push went wrong, until the next that is answered (see InSync)
  skipped,\* ghost: changes that could not be applied
  stray   \* ghost: shares whose first push was never answered

lpos == <<row, share, hashed, shared, cursor>>
lpShare == <<thread, page, log, acked>>
ghosts == <<unsure, skipped, stray>>
vars == <<lpos, tick, lpShare, steps, ghosts>>

CommentType == [state : {"none", "live", "gone"}, text : Texts, done : BOOLEAN]
ShareStates == {"none", "open", "quiet", "revoked"}
Payloads == {"open", "quiet"}
Views == SUBSET [of : Comments, text : Texts, done : BOOLEAN]
Kinds == {"create", "edit", "complete", "uncomplete", "delete"}

TickType ==
  [pc : {"idle", "asking", "got", "acking", "acked", "visiting", "sharing", "posting", "posted",
         "removing", "removed", "commenting", "sending", "sent"},
   from : Nat, upto : Nat, rows : [Comments -> CommentType],
   force : SUBSET Assets, live : SUBSET (Shares \X Payloads), share : SUBSET (Shares \X Payloads),
   todo : SUBSET Assets, asset : SUBSET Assets, view : Views]

TypeOK ==
  /\ row \in [Comments -> CommentType] /\ thread \in [Comments -> CommentType]
  /\ share \in [Shares -> ShareStates]
  /\ hashed \in [Assets -> SUBSET Views] /\ shared \in [Shares -> SUBSET Payloads]
  /\ page \in [Shares -> SUBSET Payloads]
  /\ log \in Seq([kind : Kinds, of : Comments]) /\ cursor \in 0..acked /\ acked \in 0..Len(log)
  /\ tick \in TickType /\ steps \in Nat
  /\ unsure \subseteq Assets /\ skipped \subseteq Nat /\ stray \subseteq Shares

AnyText == CHOOSE t \in Texts : TRUE
NoComment == [state |-> "none", text |-> AnyText, done |-> FALSE]
Resting ==
  [pc |-> "idle", from |-> 0, upto |-> 0, rows |-> [c \in Comments |-> NoComment], force |-> {},
   live |-> {}, share |-> {}, todo |-> {}, asset |-> {}, view |-> {}]

-----------------------------------------------------------------------------
(* What is pushed. *)

\* buildAssetComments
View(a) ==
  {[of |-> c, text |-> row[c].text, done |-> row[c].done] : c \in {d \in CommentsOf[a] : row[d].state = "live"}}

\* listShareLinks, with what each looks like to LP Share.
Live == {p \in Shares \X Payloads : share[p[1]] = p[2]}

\* The assets of the shares that have comments.
Commented == UNION {AssetsOf[s] : s \in {x \in Shares : share[x] = "open"}}

-----------------------------------------------------------------------------
(* Staff. *)

LocalStep == steps < MaxSteps /\ steps' = steps + 1 /\ UNCHANGED <<hashed, shared, cursor, tick, lpShare, ghosts>>

Known(c) == thread[c].state # "none" \/ \E i \in DOMAIN log : log[i].of = c

\* A reply in a thread of a share, whose root is none of Comments.
PostComment(c, t) ==
  /\ row[c].state = "none" /\ ~Known(c)
  /\ row' = [row EXCEPT ![c] = [state |-> "live", text |-> t, done |-> FALSE]]
  /\ UNCHANGED share /\ LocalStep

EditText(c, t) ==
  /\ row[c].state = "live" /\ t # row[c].text
  /\ row' = [row EXCEPT ![c].text = t]
  /\ UNCHANGED share /\ LocalStep

SetCompleted(c, b) ==
  /\ row[c].state = "live" /\ b # row[c].done
  /\ row' = [row EXCEPT ![c].done = b]
  /\ UNCHANGED share /\ LocalStep

DeleteComment(c) ==
  /\ row[c].state = "live"
  /\ row' = [row EXCEPT ![c].state = "gone"]
  /\ UNCHANGED share /\ LocalStep

\* A new cut of an asset starts without threads.
NewCut(a) ==
  /\ \E c \in CommentsOf[a] : row[c].state = "live"
  /\ row' = [c \in Comments |-> IF c \in CommentsOf[a] /\ row[c].state = "live"
                                THEN [row[c] EXCEPT !.state = "gone"] ELSE row[c]]
  /\ UNCHANGED share /\ LocalStep

\* createShareLink, updateShareLink, revokeShareLink
SetShare(s, new) ==
  /\ new # share[s] /\ new # "none" /\ share[s] # "revoked" /\ (new = "revoked" => share[s] # "none")
  /\ share' = [share EXCEPT ![s] = new]
  /\ UNCHANGED row /\ LocalStep

StaffStep ==
  \/ \E c \in Comments, t \in Texts : PostComment(c, t) \/ EditText(c, t)
  \/ \E c \in Comments, b \in BOOLEAN : SetCompleted(c, b)
  \/ \E c \in Comments : DeleteComment(c)
  \/ \E a \in Assets : NewCut(a)
  \/ \E s \in Shares, new \in ShareStates : SetShare(s, new)

-----------------------------------------------------------------------------
(* Clients. *)

CanComment(c) == \E s \in Shares : page[s] = {"open"} /\ \E a \in AssetsOf[s] : c \in CommentsOf[a]

Client(c, kind, new) ==
  /\ CanComment(c) /\ Len(log) < MaxLog
  /\ thread' = [thread EXCEPT ![c] = new]
  /\ log' = Append(log, [kind |-> kind, of |-> c])
  /\ UNCHANGED <<lpos, tick, page, acked, steps, ghosts>>

ClientStep ==
  \E c \in Comments :
    \/ /\ ~Known(c) /\ row[c].state = "none"
       /\ \E t \in Texts : Client(c, "create", [state |-> "live", text |-> t, done |-> FALSE])
    \/ /\ thread[c].state = "live"
       /\ \/ \E t \in Texts \ {thread[c].text} : Client(c, "edit", [thread[c] EXCEPT !.text = t])
          \/ ~thread[c].done /\ Client(c, "complete", [thread[c] EXCEPT !.done = TRUE])
          \/ thread[c].done /\ Client(c, "uncomplete", [thread[c] EXCEPT !.done = FALSE])
          \/ Client(c, "delete", [thread[c] EXCEPT !.state = "gone"])

-----------------------------------------------------------------------------
(* The tick: pull and ack. *)

Goto(pc) == tick' = [tick EXCEPT !.pc = pc]

StartTick ==
  /\ tick.pc = "idle"
  /\ tick' = [Resting EXCEPT !.pc = "asking", !.from = cursor]
  /\ UNCHANGED <<lpos, lpShare, steps, ghosts>>

\* LP Share answers with the changes since the cursor, each with the comment as it is now.
Answer ==
  /\ tick.pc = "asking"
  /\ tick' = [tick EXCEPT !.pc = "got", !.rows = thread, !.upto = Len(log)]
  /\ UNCHANGED <<lpos, lpShare, steps, ghosts>>

NothingNew ==
  /\ tick.pc = "got" /\ tick.upto = tick.from
  /\ Goto("visiting")
  /\ UNCHANGED <<lpos, lpShare, steps, ghosts>>

\* Mutation: the first change is taken for the one the cursor stands for.
PulledPastFirst == (tick.from + 2)..tick.upto

\* The changes the answer holds.
Pulled == (tick.from + 1)..tick.upto

\* The changes of I that are about c and of one of the kinds K.
About(I, c, K) == {i \in I : log[i].of = c /\ log[i].kind \in K}

\* Whether c is complete after the changes of I: the last of them that says so counts.
DoneAfter(I, c, before) ==
  LET flips == About(I, c, {"complete", "uncomplete"})
  IN IF flips = {} THEN before
     ELSE \E i \in flips : (\A j \in flips : j <= i) /\ log[i].kind = "complete"

\* applyChange for the changes of I about c, in their order; x is the comment they carry.
Applied(c, x, I) ==
  IF About(I, c, Kinds) = {} \/ (row[c].state = "none" /\ x.state # "live") THEN row[c]
  ELSE IF row[c].state = "none"
  THEN [x EXCEPT !.done = DoneAfter(I, c, x.done)]
  ELSE [state |-> IF x.state # "live" \/ About(I, c, {"delete"}) # {} THEN "gone" ELSE row[c].state,
        text |-> IF x.state = "live" /\ About(I, c, {"create", "edit"}) # {} THEN x.text ELSE row[c].text,
        done |-> IF x.state = "live" THEN DoneAfter(I, c, row[c].done) ELSE row[c].done]

AssetsWith(I) == {a \in Assets : \E i \in I : log[i].of \in CommentsOf[a]}

\* Mutation: an asset is pushed again only when its thread differs from the last push.
ForcedNot(I) == {}

\* The assets to push again in any case.
Forced(I) == AssetsWith(I)

\* Each change is tried by itself.  Those of F are not applied: one of N concerns a comment
\* LPOS does not have, on an asset that left the share or has no version, and applyChange
\* returns null; the others throw, and their assets are not pushed for it.
Apply(F, N) ==
  /\ tick.pc = "got" /\ tick.upto # tick.from /\ F \subseteq Pulled
  /\ N \subseteq {i \in F : row[log[i].of].state = "none"}
  /\ row' = [c \in Comments |-> Applied(c, tick.rows[c], Pulled \ F)]
  /\ tick' = [tick EXCEPT !.pc = "acking", !.force = Forced((Pulled \ F) \cup N)]
  /\ unsure' = unsure \cup AssetsWith(F) /\ skipped' = skipped \cup F
  /\ UNCHANGED <<share, hashed, shared, cursor, lpShare, steps, stray>>

\* The cursor the ack carries.
AckedUpTo == tick.upto

AckArrives ==
  /\ tick.pc = "acking"
  /\ acked' = IF acked < AckedUpTo THEN AckedUpTo ELSE acked
  /\ Goto("acked")
  /\ UNCHANGED <<lpos, thread, page, log, steps, ghosts>>

\* The ack is answered: the cursor is stored.  Then the first visits, which cannot fail the tick.
AckAnswered ==
  /\ tick.pc = "acked"
  /\ cursor' = tick.upto /\ Goto("visiting")
  /\ UNCHANGED <<row, share, hashed, shared, lpShare, steps, ghosts>>

-----------------------------------------------------------------------------
(* The tick: push. *)

ListShares ==
  /\ tick.pc = "visiting"
  /\ tick' = [tick EXCEPT !.pc = "sharing", !.live = Live]
  /\ UNCHANGED <<lpos, lpShare, steps, ghosts>>

Outdated == {p \in tick.live : shared[p[1]] # {p[2]}}
Listed == {p[1] : p \in tick.live}

\* Shares that were pushed and are not listed any more.
Revoked == {s \in Shares : shared[s] # {} /\ s \notin Listed}

PushShare(p) ==
  /\ tick.pc = "sharing" /\ p \in Outdated
  /\ tick' = [tick EXCEPT !.pc = "posting", !.share = {p}]
  /\ UNCHANGED <<lpos, lpShare, steps, ghosts>>

PostArrives ==
  /\ tick.pc = "posting"
  /\ page' = [s \in Shares |-> IF \E p \in tick.share : p[1] = s THEN {p[2] : p \in tick.share} ELSE page[s]]
  /\ Goto("posted")
  /\ UNCHANGED <<lpos, thread, log, acked, steps, ghosts>>

PostAnswered ==
  /\ tick.pc = "posted"
  /\ shared' = [s \in Shares |-> IF \E p \in tick.share : p[1] = s THEN {p[2] : p \in tick.share} ELSE shared[s]]
  /\ Goto("sharing")
  /\ UNCHANGED <<row, share, hashed, cursor, lpShare, steps, ghosts>>

\* Mutation: the record of a push is deleted before the share is.
RemoveForgotten(s) ==
  /\ tick.pc = "sharing" /\ Outdated = {} /\ s \in Revoked
  /\ tick' = [tick EXCEPT !.pc = "removing", !.share = {s} \X {"quiet"}]
  /\ shared' = [shared EXCEPT ![s] = {}]
  /\ UNCHANGED <<row, share, hashed, cursor, lpShare, steps, ghosts>>

\* Of the pair only the share counts.
RemoveShare(s) ==
  /\ tick.pc = "sharing" /\ Outdated = {} /\ s \in Revoked
  /\ tick' = [tick EXCEPT !.pc = "removing", !.share = {s} \X {"quiet"}]
  /\ UNCHANGED <<lpos, lpShare, steps, ghosts>>

RemoveArrives ==
  /\ tick.pc = "removing"
  /\ page' = [s \in Shares |-> IF \E p \in tick.share : p[1] = s THEN {} ELSE page[s]]
  /\ Goto("removed")
  /\ UNCHANGED <<lpos, thread, log, acked, steps, ghosts>>

RemoveAnswered ==
  /\ tick.pc = "removed"
  /\ shared' = [s \in Shares |-> IF \E p \in tick.share : p[1] = s THEN {} ELSE shared[s]]
  /\ Goto("sharing")
  /\ UNCHANGED <<row, share, hashed, cursor, lpShare, steps, ghosts>>

\* Which assets' threads to look at.  A share without comments keeps its assets out.
ListAssets ==
  /\ tick.pc = "sharing" /\ Outdated = {} /\ Revoked = {}
  /\ tick' = [tick EXCEPT !.pc = "commenting", !.todo = Commented]
  /\ unsure' = unsure \cup (tick.force \ Commented)
  /\ UNCHANGED <<lpos, lpShare, steps, skipped, stray>>

SkipThread(a) ==
  /\ tick.pc = "commenting" /\ a \in tick.todo /\ a \notin tick.force /\ hashed[a] = {View(a)}
  /\ tick' = [tick EXCEPT !.todo = @ \ {a}]
  /\ UNCHANGED <<lpos, lpShare, steps, ghosts>>

PushThread(a) ==
  /\ tick.pc = "commenting" /\ a \in tick.todo /\ (a \in tick.force \/ hashed[a] # {View(a)})
  /\ tick' = [tick EXCEPT !.pc = "sending", !.todo = @ \ {a}, !.asset = {a}, !.view = View(a)]
  /\ UNCHANGED <<lpos, lpShare, steps, ghosts>>

\* LP Share has changes of c that were not acknowledged.
Unacked(c) == \E i \in DOMAIN log : i > acked /\ log[i].of = c

Replaced(c, view) ==
  IF \E v \in view : v.of = c
  THEN LET v == CHOOSE v \in view : v.of = c IN [state |-> "live", text |-> v.text, done |-> v.done]
  ELSE NoComment

SendArrives ==
  /\ tick.pc = "sending"
  /\ thread' = [c \in Comments |-> IF (\E a \in tick.asset : c \in CommentsOf[a]) /\ ~Unacked(c)
                                   THEN Replaced(c, tick.view) ELSE thread[c]]
  /\ Goto("sent")
  /\ UNCHANGED <<lpos, page, log, acked, steps, ghosts>>

\* The thread's hash is the one it had when it was sent.
SentAnswered ==
  /\ tick.pc = "sent"
  /\ hashed' = [a \in Assets |-> IF a \in tick.asset THEN {tick.view} ELSE hashed[a]]
  /\ tick' = [tick EXCEPT !.pc = "commenting", !.force = @ \ tick.asset, !.asset = {}, !.view = {}]
  /\ unsure' = unsure \ tick.asset
  /\ UNCHANGED <<row, share, shared, cursor, lpShare, steps, skipped, stray>>

EndTick ==
  /\ tick.pc = "commenting" /\ tick.todo = {}
  /\ tick' = Resting
  /\ UNCHANGED <<lpos, lpShare, steps, ghosts>>

\* A request fails or its answer is lost, and the tick with it; or the process dies.
Abandon ==
  /\ tick.pc # "idle" /\ tick' = Resting
  /\ unsure' = IF tick.pc \in {"acking", "acked"} THEN unsure
               ELSE unsure \cup tick.force \cup (IF tick.pc = "sent" THEN tick.asset ELSE {})
  /\ stray' = IF tick.pc = "posted"
              THEN stray \cup {s \in Shares : shared[s] = {} /\ \E p \in tick.share : p[1] = s} ELSE stray
  /\ UNCHANGED <<lpos, lpShare, steps, skipped>>

-----------------------------------------------------------------------------

Init ==
  /\ row = [c \in Comments |-> NoComment] /\ thread = [c \in Comments |-> NoComment]
  /\ share = [s \in Shares |-> "none"] /\ hashed = [a \in Assets |-> {}]
  /\ shared = [s \in Shares |-> {}] /\ page = [s \in Shares |-> {}]
  /\ log = <<>> /\ cursor = 0 /\ acked = 0 /\ tick = Resting /\ steps = 0
  /\ unsure = {} /\ skipped = {} /\ stray = {}

PullStep ==
  \/ StartTick \/ Answer \/ NothingNew \/ AckArrives \/ AckAnswered
  \/ \E F \in SUBSET Pulled : \E N \in SUBSET F : Apply(F, N)
ShareStep ==
  \/ ListShares \/ PostArrives \/ PostAnswered \/ RemoveArrives \/ RemoveAnswered
  \/ (\E p \in Shares \X Payloads : PushShare(p)) \/ (\E s \in Shares : RemoveShare(s))
ThreadStep ==
  \/ ListAssets \/ SendArrives \/ SentAnswered \/ EndTick
  \/ (\E a \in Assets : SkipThread(a) \/ PushThread(a))

Next == StaffStep \/ ClientStep \/ PullStep \/ ShareStep \/ ThreadStep \/ Abandon

Spec == Init /\ [][Next]_vars

-----------------------------------------------------------------------------
(* Properties *)

Shown(a) ==
  {[of |-> c, text |-> thread[c].text, done |-> thread[c].done] : c \in {d \in CommentsOf[a] : thread[d].state = "live"}}

\* Whether a change of a client on asset a is still on its way into LPOS, or its asset waits
\* to be pushed for it.
Underway(a) == a \in tick.force \/ \E i \in DOMAIN log : i > cursor /\ log[i].of \in CommentsOf[a]

\* When the recorded push of an asset is what its thread is in LPOS, and nothing of a client
\* is on its way, LP Share shows that thread: clients and staff see the same.  Not so during
\* a push; nor from a re-push that was lost with a tick that failed after its ack, a push
\* whose answer was lost or a change that could not be applied, to the next answered push.
InSync ==
  \A a \in Assets \ (unsure \cup tick.asset) :
    hashed[a] = {View(a)} /\ ~Underway(a) => Shown(a) = View(a)

\* No client's comment is acknowledged before it is in LPOS: LP Share may drop what LPOS has,
\* so whatever was created and acknowledged has its row, unless it could not be applied or
\* was deleted before LPOS saw it.
AckedIsApplied ==
  \A i \in 1..acked :
    log[i].kind = "create" /\ i \notin skipped =>
      \/ row[log[i].of].state # "none"
      \/ \E j \in DOMAIN log : log[j] = [kind |-> "delete", of |-> log[i].of]

\* A share that LP Share shows can be taken down when it is revoked: its push is recorded,
\* or about to be.  Not so if the answer to its first push was lost.
RevokedIsRemoved ==
  \A s \in Shares \ stray :
    page[s] # {} => shared[s] # {} \/ (tick.pc = "posted" /\ \E p \in tick.share : p[1] = s)
=============================================================================
