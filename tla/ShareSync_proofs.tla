----------------------------- MODULE ShareSync_proofs -----------------------------
(***************************************************************************)
(* Theorems of ShareSync: its type invariant, that nothing acknowledged is   *)
(* lost, that a revoked share can be taken down, and that both sides show    *)
(* the same, for any shares, assets, comments and texts.                     *)
(***************************************************************************)
EXTENDS ShareSync, TLAPS

\* What a tick knows of the log: it began at the cursor, and what it was answered is there.
TickOK ==
  /\ tick.pc \in {"asking", "got", "acking", "acked"} => tick.from = cursor
  /\ tick.pc \in {"got", "acking", "acked"} => tick.from <= tick.upto /\ tick.upto <= Len(log)
  /\ tick.pc = "acked" => tick.upto <= acked

Typed == TypeOK /\ TickOK

\* A share that was removed shows nothing until its record goes.
RemovedIsEmpty == tick.pc = "removed" => \A p \in tick.share : page[p[1]] = {}

ShareInv == RevokedIsRemoved /\ RemovedIsEmpty

\* A client has deleted comment c.
Deleted(c) == \E j \in DOMAIN log : log[j] = [kind |-> "delete", of |-> c]

\* A comment whose creation LP Share has not seen acknowledged is in its thread.
LogKnown ==
  \A i \in DOMAIN log :
    log[i].kind = "create" => thread[log[i].of].state = "live" \/ Deleted(log[i].of) \/ i <= acked

\* The same of the answer a tick works on.
RowsKnown ==
  tick.pc = "got" =>
    \A i \in 1..tick.upto :
      log[i].kind = "create" => tick.rows[log[i].of].state = "live" \/ Deleted(log[i].of) \/ i <= acked

AppliedTo(n) ==
  \A i \in 1..n :
    log[i].kind = "create" /\ i \notin skipped => row[log[i].of].state # "none" \/ Deleted(log[i].of)

\* What an ack is about to acknowledge is applied.
AckingIsApplied == tick.pc = "acking" => AppliedTo(tick.upto)

AckInv == LogKnown /\ RowsKnown /\ AckedIsApplied /\ AckingIsApplied

\* A change on asset a is past the cursor.
Ahead(a) == \E i \in DOMAIN log : i > cursor /\ log[i].of \in CommentsOf[a]

InDoubt == unsure \cup (IF tick.pc = "sent" THEN tick.asset ELSE {})

\* What was recorded is what LP Share shows.
Recorded == \A a \in Assets \ InDoubt : \A v \in hashed[a] : hashed[a] = {v} /\ ~Underway(a) => Shown(a) = v

\* The assets to push again: those with a change in the answer; later, those still to come.
ForceOK ==
  /\ tick.pc \in {"idle", "asking", "got"} => tick.force = {}
  /\ tick.pc \in {"acking", "acked"} =>
       /\ AssetsWith(Pulled) \subseteq tick.force \cup unsure
       /\ \A a \in tick.force : Ahead(a)
  /\ tick.pc \in {"commenting", "sending", "sent"} => tick.force \subseteq tick.todo \cup tick.asset \cup unsure

\* A push carries the thread of one asset, and each comment once.
SendOK ==
  /\ tick.pc \notin {"sending", "sent"} => tick.asset = {}
  /\ tick.pc \in {"sending", "sent"} =>
       \E a \in Assets :
         /\ tick.asset = {a}
         /\ \A x \in tick.view : x.of \in CommentsOf[a]
         /\ \A x, y \in tick.view : x.of = y.of => x = y
  /\ tick.pc = "sent" => \A a \in tick.asset : Shown(a) = tick.view \/ Ahead(a)

SyncInv == Recorded /\ ForceOK /\ SendOK

-----------------------------------------------------------------------------
(* Types. *)

LEMMA AnyTextIn == AnyText \in Texts
BY ShareAssumption DEF AnyText

LEMMA NoCommentIn == NoComment \in CommentType
BY AnyTextIn DEF NoComment, CommentType

LEMMA RestingIn == Resting \in TickType
<1>1. [c \in Comments |-> NoComment] \in [Comments -> CommentType]
  BY NoCommentIn
<1> QED BY <1>1 DEF Resting, TickType, Views

LEMMA ViewIn ==
  ASSUME row \in [Comments -> CommentType], NEW a \in Assets
  PROVE  View(a) \in Views
BY ShareAssumption DEF View, Views, CommentType

LEMMA LiveIn == Live \in SUBSET (Shares \X Payloads)
BY DEF Live

LEMMA CommentedIn == Commented \in SUBSET Assets
BY ShareAssumption DEF Commented

LEMMA InitTyped == Init => Typed
<1> SUFFICES ASSUME Init PROVE Typed
  OBVIOUS
<1>1. row \in [Comments -> CommentType] /\ thread \in [Comments -> CommentType]
  BY NoCommentIn DEF Init
<1>2. tick \in TickType
  BY RestingIn DEF Init
<1>3. tick.pc = "idle"
  BY DEF Init, Resting
<1>4. Len(log) = 0 /\ log \in Seq([kind : Kinds, of : Comments]) /\ cursor = 0 /\ acked = 0
  BY DEF Init
<1>5. TypeOK
  BY <1>1, <1>2, <1>4 DEF Init, TypeOK, ShareStates
<1> QED BY <1>3, <1>5 DEF Typed, TickOK

LEMMA StaffTyped == Typed /\ StaffStep => Typed'
<1> SUFFICES ASSUME Typed, StaffStep PROVE Typed'
  OBVIOUS
<1>1. row' \in [Comments -> CommentType] /\ share' \in [Shares -> ShareStates]
  <2> USE DEF Typed, TypeOK
  <2>1. ASSUME NEW c \in Comments, NEW t \in Texts, PostComment(c, t) PROVE <1>1!1 /\ <1>1!2
    BY <2>1 DEF PostComment, CommentType
  <2>2. ASSUME NEW c \in Comments, NEW t \in Texts, EditText(c, t) PROVE <1>1!1 /\ <1>1!2
    BY <2>2 DEF EditText, CommentType
  <2>3. ASSUME NEW c \in Comments, NEW b \in BOOLEAN, SetCompleted(c, b) PROVE <1>1!1 /\ <1>1!2
    BY <2>3 DEF SetCompleted, CommentType
  <2>4. ASSUME NEW c \in Comments, DeleteComment(c) PROVE <1>1!1 /\ <1>1!2
    BY <2>4 DEF DeleteComment, CommentType
  <2>5. ASSUME NEW a \in Assets, NewCut(a) PROVE <1>1!1 /\ <1>1!2
    BY <2>5 DEF NewCut, CommentType
  <2>6. ASSUME NEW s \in Shares, NEW new \in ShareStates, SetShare(s, new) PROVE <1>1!1 /\ <1>1!2
    BY <2>6 DEF SetShare
  <2> QED BY <2>1, <2>2, <2>3, <2>4, <2>5, <2>6 DEF StaffStep
<1>2. LocalStep
  BY DEF StaffStep, PostComment, EditText, SetCompleted, DeleteComment, NewCut, SetShare
<1> QED BY <1>1, <1>2 DEF Typed, TypeOK, TickOK, LocalStep, lpShare, ghosts

LEMMA ClientTyped == Typed /\ ClientStep => Typed'
<1> SUFFICES ASSUME Typed, ClientStep PROVE Typed'
  OBVIOUS
<1>1. PICK c \in Comments, kind \in Kinds, new \in CommentType : Client(c, kind, new)
  BY DEF ClientStep, Typed, TypeOK, CommentType, Kinds
<1>2. thread' \in [Comments -> CommentType]
  BY <1>1 DEF Client, Typed, TypeOK
<1>3. log' \in Seq([kind : Kinds, of : Comments]) /\ Len(log') = Len(log) + 1
  BY <1>1 DEF Client, Typed, TypeOK
<1>4. cursor \in 0..acked /\ acked \in 0..Len(log') /\ Len(log) \in Nat
  BY <1>3 DEF Typed, TypeOK
<1>5. TickOK'
  BY <1>1, <1>3, <1>4 DEF Client, Typed, TickOK, TypeOK, TickType, lpos
<1> QED BY <1>1, <1>2, <1>3, <1>4, <1>5 DEF Client, Typed, TypeOK, lpos, ghosts

LEMMA AppliedIn ==
  ASSUME TypeOK, NEW c \in Comments, NEW x \in CommentType, NEW I
  PROVE  Applied(c, x, I) \in CommentType
<1>1. row[c] \in CommentType
  BY DEF TypeOK
<1>2. ASSUME NEW b \in BOOLEAN PROVE DoneAfter(I, c, b) \in BOOLEAN
  BY <1>2, Zenon DEF DoneAfter
<1>3. DoneAfter(I, c, x.done) \in BOOLEAN /\ DoneAfter(I, c, row[c].done) \in BOOLEAN
  BY <1>1, <1>2 DEF CommentType
<1> QED BY <1>1, <1>3 DEF Applied, CommentType

LEMMA PullTyped == Typed /\ PullStep => Typed'
<1> SUFFICES ASSUME Typed, PullStep PROVE Typed'
  OBVIOUS
<1>1. CASE StartTick
  <2>1. Resting \in TickType /\ cursor \in Nat
    BY RestingIn DEF Typed, TypeOK
  <2>2. tick' \in TickType /\ tick'.pc = "asking" /\ tick'.from = cursor
    BY <1>1, <2>1 DEF StartTick, TickType
  <2> QED BY <1>1, <2>2 DEF StartTick, Typed, TypeOK, TickOK, lpos, lpShare, ghosts
<1>2. CASE Answer
  <2>0. Len(log) \in Nat /\ thread \in [Comments -> CommentType] /\ tick \in TickType
    BY DEF Typed, TypeOK
  <2>1. tick' \in TickType /\ tick'.pc = "got" /\ tick'.from = tick.from /\ tick'.upto = Len(log)
    BY <1>2, <2>0 DEF Answer, TickType
  <2>2. tick.from = cursor /\ cursor <= Len(log)
    BY <1>2 DEF Answer, Typed, TypeOK, TickOK
  <2> QED BY <1>2, <2>1, <2>2 DEF Answer, Typed, TypeOK, TickOK, lpos, lpShare, ghosts
<1>3. CASE NothingNew
  <2>1. tick' \in TickType /\ tick'.pc = "visiting"
    BY <1>3 DEF NothingNew, Goto, TickType, Typed, TypeOK
  <2> QED BY <1>3, <2>1 DEF NothingNew, Typed, TypeOK, TickOK, lpos, lpShare, ghosts
<1>4. ASSUME NEW F \in SUBSET Pulled, NEW N \in SUBSET F, Apply(F, N) PROVE Typed'
  <2>1. tick' \in TickType /\ tick'.pc = "acking" /\ tick'.from = tick.from /\ tick'.upto = tick.upto
    BY <1>4 DEF Apply, Forced, AssetsWith, TickType, Typed, TypeOK
  <2>2. \A c \in Comments : tick.rows[c] \in CommentType
    BY DEF Typed, TypeOK, TickType
  <2>3. row' \in [Comments -> CommentType]
    BY <1>4, <2>2, AppliedIn DEF Apply, Typed
  <2>4. unsure' \subseteq Assets /\ skipped' \subseteq Nat
    BY <1>4 DEF Apply, AssetsWith, Pulled, Typed, TypeOK, TickType
  <2> QED BY <1>4, <2>1, <2>3, <2>4 DEF Apply, Typed, TypeOK, TickOK, lpShare
<1>5. CASE AckArrives
  <2>1. tick' \in TickType /\ tick'.pc = "acked" /\ tick'.from = tick.from /\ tick'.upto = tick.upto
    BY <1>5 DEF AckArrives, Goto, TickType, Typed, TypeOK
  <2>2. tick.from = cursor /\ tick.upto <= Len(log) /\ tick.from <= tick.upto /\ tick.upto \in Nat
    BY <1>5 DEF AckArrives, Typed, TypeOK, TickOK, TickType
  <2>3. acked' \in 0..Len(log) /\ acked <= acked' /\ tick.upto <= acked'
    BY <1>5, <2>2 DEF AckArrives, AckedUpTo, Typed, TypeOK
  <2> QED BY <1>5, <2>1, <2>2, <2>3 DEF AckArrives, Typed, TypeOK, TickOK, lpos, ghosts
<1>6. CASE AckAnswered
  <2>1. tick' \in TickType /\ tick'.pc = "visiting"
    BY <1>6 DEF AckAnswered, Goto, TickType, Typed, TypeOK
  <2>2. cursor' \in 0..acked
    BY <1>6 DEF AckAnswered, Typed, TypeOK, TickOK, TickType
  <2> QED BY <1>6, <2>1, <2>2 DEF AckAnswered, Typed, TypeOK, TickOK, lpShare, ghosts
<1> QED BY <1>1, <1>2, <1>3, <1>4, <1>5, <1>6 DEF PullStep

\* The steps that push nothing but move the tick on.
LEMMA ShareTyped == Typed /\ ShareStep => Typed'
<1> SUFFICES ASSUME Typed, ShareStep PROVE Typed'
  OBVIOUS
<1> USE DEF Typed, TypeOK, TickOK
<1>1. CASE ListShares
  <2>1. tick' \in TickType /\ tick'.pc = "sharing"
    BY <1>1, LiveIn DEF ListShares, TickType
  <2> QED BY <1>1, <2>1 DEF ListShares, lpos, lpShare, ghosts
<1>2. CASE PostArrives
  <2>1. tick' \in TickType /\ tick'.pc = "posted"
    BY <1>2 DEF PostArrives, Goto, TickType
  <2>2. page' \in [Shares -> SUBSET Payloads]
    BY <1>2 DEF PostArrives, TickType
  <2> QED BY <1>2, <2>1, <2>2 DEF PostArrives, lpos, ghosts
<1>3. CASE PostAnswered
  <2>1. tick' \in TickType /\ tick'.pc = "sharing"
    BY <1>3 DEF PostAnswered, Goto, TickType
  <2>2. shared' \in [Shares -> SUBSET Payloads]
    BY <1>3 DEF PostAnswered, TickType
  <2> QED BY <1>3, <2>1, <2>2 DEF PostAnswered, lpShare, ghosts
<1>4. CASE RemoveArrives
  <2>1. tick' \in TickType /\ tick'.pc = "removed"
    BY <1>4 DEF RemoveArrives, Goto, TickType
  <2>2. page' \in [Shares -> SUBSET Payloads]
    BY <1>4 DEF RemoveArrives
  <2> QED BY <1>4, <2>1, <2>2 DEF RemoveArrives, lpos, ghosts
<1>5. CASE RemoveAnswered
  <2>1. tick' \in TickType /\ tick'.pc = "sharing"
    BY <1>5 DEF RemoveAnswered, Goto, TickType
  <2>2. shared' \in [Shares -> SUBSET Payloads]
    BY <1>5 DEF RemoveAnswered
  <2> QED BY <1>5, <2>1, <2>2 DEF RemoveAnswered, lpShare, ghosts
<1>6. ASSUME NEW p \in Shares \X Payloads, PushShare(p) PROVE Typed'
  <2>1. tick' \in TickType /\ tick'.pc = "posting"
    BY <1>6 DEF PushShare, TickType
  <2> QED BY <1>6, <2>1 DEF PushShare, lpos, lpShare, ghosts
<1>7. ASSUME NEW s \in Shares, RemoveShare(s) PROVE Typed'
  <2>1. tick' \in TickType /\ tick'.pc = "removing"
    BY <1>7 DEF RemoveShare, TickType, Payloads
  <2> QED BY <1>7, <2>1 DEF RemoveShare, lpos, lpShare, ghosts
<1> QED BY <1>1, <1>2, <1>3, <1>4, <1>5, <1>6, <1>7 DEF ShareStep

LEMMA ReplacedIn ==
  ASSUME NEW c \in Comments, NEW v \in Views
  PROVE  Replaced(c, v) \in CommentType
BY NoCommentIn DEF Replaced, Views, CommentType

LEMMA ThreadTyped == Typed /\ ThreadStep => Typed'
<1> SUFFICES ASSUME Typed, ThreadStep PROVE Typed'
  OBVIOUS
<1> USE DEF Typed, TypeOK, TickOK
<1>1. CASE ListAssets
  <2>1. tick' \in TickType /\ tick'.pc = "commenting"
    BY <1>1, CommentedIn DEF ListAssets, TickType
  <2>2. unsure' \subseteq Assets
    BY <1>1 DEF ListAssets, TickType
  <2> QED BY <1>1, <2>1, <2>2 DEF ListAssets, lpos, lpShare
<1>2. CASE SendArrives
  <2>1. tick' \in TickType /\ tick'.pc = "sent"
    BY <1>2 DEF SendArrives, Goto, TickType
  <2>2. thread' \in [Comments -> CommentType]
    BY <1>2, ReplacedIn DEF SendArrives, TickType
  <2> QED BY <1>2, <2>1, <2>2 DEF SendArrives, lpos, ghosts
<1>3. CASE SentAnswered
  <2>1. tick' \in TickType /\ tick'.pc = "commenting"
    BY <1>3 DEF SentAnswered, TickType, Views
  <2>2. hashed' \in [Assets -> SUBSET Views]
    BY <1>3 DEF SentAnswered, TickType
  <2> QED BY <1>3, <2>1, <2>2 DEF SentAnswered, lpShare
<1>4. CASE EndTick
  <2>1. tick' \in TickType /\ tick'.pc = "idle"
    BY <1>4, RestingIn DEF EndTick, Resting
  <2> QED BY <1>4, <2>1 DEF EndTick, lpos, lpShare, ghosts
<1>5. ASSUME NEW a \in Assets, SkipThread(a) PROVE Typed'
  <2>1. tick' \in TickType /\ tick'.pc = "commenting"
    BY <1>5 DEF SkipThread, TickType
  <2> QED BY <1>5, <2>1 DEF SkipThread, lpos, lpShare, ghosts
<1>6. ASSUME NEW a \in Assets, PushThread(a) PROVE Typed'
  <2>1. tick' \in TickType /\ tick'.pc = "sending"
    BY <1>6, ViewIn DEF PushThread, TickType
  <2> QED BY <1>6, <2>1 DEF PushThread, lpos, lpShare, ghosts
<1> QED BY <1>1, <1>2, <1>3, <1>4, <1>5, <1>6 DEF ThreadStep

LEMMA AbandonTyped == Typed /\ Abandon => Typed'
<1> SUFFICES ASSUME Typed, Abandon PROVE Typed'
  OBVIOUS
<1>1. tick' \in TickType /\ tick'.pc = "idle"
  BY RestingIn DEF Abandon, Resting
<1>2. unsure' \subseteq Assets /\ stray' \subseteq Shares
  BY DEF Abandon, Typed, TypeOK, TickType
<1> QED BY <1>1, <1>2 DEF Abandon, Typed, TypeOK, TickOK, lpos, lpShare

LEMMA StutterTyped == Typed /\ UNCHANGED vars => Typed'
BY DEF Typed, TypeOK, TickOK, vars, lpos, lpShare, ghosts

\* Every variable has its type, and a tick knows how far the log goes and no further.
THEOREM AlwaysTyped == Spec => []Typed
<1>1. Typed /\ [Next]_vars => Typed'
  BY StaffTyped, ClientTyped, PullTyped, ShareTyped, ThreadTyped, AbandonTyped, StutterTyped DEF Next
<1> QED BY InitTyped, <1>1, PTL DEF Spec

\* TypeOK of ShareSync: each variable of the sync of share-app.ts keeps its type, and no
\* cursor passes what was acknowledged.
THEOREM ShareSyncTypes == Spec => []TypeOK
<1>1. Typed => TypeOK
  BY DEF Typed
<1> QED BY AlwaysTyped, <1>1, PTL

-----------------------------------------------------------------------------
(* Shares. *)

\* A step that leaves the record of shares, the pages and what is stray alone.
LEMMA QuietShares ==
  ASSUME ShareInv, page' = page, shared' = shared, stray' = stray, tick'.share = tick.share,
         tick'.pc = tick.pc \/ (tick.pc # "posted" /\ tick'.pc # "removed")
  PROVE  ShareInv'
BY DEF ShareInv, RevokedIsRemoved, RemovedIsEmpty

LEMMA ShareInvStep == Typed /\ ShareInv /\ [Next]_vars => ShareInv'
<1> SUFFICES ASSUME Typed, ShareInv, [Next]_vars PROVE ShareInv'
  OBVIOUS
<1>t. tick \in TickType
  BY DEF Typed, TypeOK
<1>1. CASE StaffStep
  <2>1. LocalStep
    BY <1>1 DEF StaffStep, PostComment, EditText, SetCompleted, DeleteComment, NewCut, SetShare
  <2> QED BY <2>1, QuietShares DEF LocalStep, lpShare, ghosts
<1>2. CASE ClientStep
  <2>1. PICK c \in Comments, kind \in Kinds, new \in CommentType : Client(c, kind, new)
    BY <1>2 DEF ClientStep, Typed, TypeOK, CommentType, Kinds
  <2> QED BY <2>1, QuietShares DEF Client, lpos, ghosts
<1>3. CASE PullStep
  <2>1. page' = page /\ shared' = shared /\ stray' = stray
    BY <1>3 DEF PullStep, StartTick, Answer, NothingNew, Apply, AckArrives, AckAnswered, lpos, lpShare, ghosts
  <2>2. CASE StartTick
    BY <2>1, <2>2 DEF StartTick, Resting, ShareInv, RevokedIsRemoved, RemovedIsEmpty
  <2>3. CASE ~StartTick
    <3>1. tick'.share = tick.share /\ tick.pc # "posted" /\ tick'.pc # "removed"
      BY <1>t, <1>3, <2>3 DEF PullStep, Answer, NothingNew, Apply, AckArrives, AckAnswered, Goto, TickType
    <3> QED BY <2>1, <3>1, QuietShares
  <2> QED BY <2>2, <2>3
<1>4. CASE ShareStep
  <2> USE <1>t
  <2>1. CASE ListShares
    BY <2>1, QuietShares DEF ListShares, TickType, lpos, lpShare, ghosts
  <2>2. CASE PostArrives
    <3>1. /\ tick.pc = "posting" /\ tick'.pc = "posted" /\ tick'.share = tick.share
          /\ shared' = shared /\ stray' = stray
          /\ \A s \in Shares : page'[s] = page[s] \/ \E p \in tick.share : p[1] = s
      BY <2>2 DEF PostArrives, Goto, TickType, lpos, ghosts
    <3> QED BY <3>1 DEF ShareInv, RevokedIsRemoved, RemovedIsEmpty
  <2>3. CASE PostAnswered
    <3>1. tick'.pc = "sharing" /\ stray' = stray /\ page' = page
      BY <2>3 DEF PostAnswered, Goto, TickType, lpShare, ghosts
    <3>2. \A s \in Shares : shared'[s] # {} \/ (shared'[s] = shared[s] /\ ~\E p \in tick.share : p[1] = s)
      BY <2>3 DEF PostAnswered
    <3> QED BY <3>1, <3>2 DEF ShareInv, RevokedIsRemoved, RemovedIsEmpty
  <2>4. CASE RemoveArrives
    <3>1. /\ tick.pc = "removing" /\ tick'.pc = "removed" /\ tick'.share = tick.share
          /\ shared' = shared /\ stray' = stray
      BY <2>4 DEF RemoveArrives, Goto, TickType, lpos, ghosts
    <3>2. \A s \in Shares : page'[s] = {} \/ page'[s] = page[s]
      BY <2>4 DEF RemoveArrives
    <3>3. \A p \in tick.share : page'[p[1]] = {}
      BY <2>4 DEF RemoveArrives, TickType
    <3> QED BY <3>1, <3>2, <3>3 DEF ShareInv, RevokedIsRemoved, RemovedIsEmpty
  <2>5. CASE RemoveAnswered
    <3>1. tick.pc = "removed" /\ tick'.pc = "sharing" /\ stray' = stray /\ page' = page
      BY <2>5 DEF RemoveAnswered, Goto, TickType, lpShare, ghosts
    <3>2. \A s \in Shares : shared'[s] = shared[s] \/ page[s] = {}
      BY <2>5, <3>1 DEF RemoveAnswered, ShareInv, RemovedIsEmpty
    <3> QED BY <3>1, <3>2 DEF ShareInv, RevokedIsRemoved, RemovedIsEmpty
  <2>6. ASSUME NEW p \in Shares \X Payloads, PushShare(p) PROVE ShareInv'
    <3>1. tick.pc = "sharing" /\ tick'.pc = "posting" /\ page' = page /\ shared' = shared /\ stray' = stray
      BY <2>6 DEF PushShare, TickType, lpos, lpShare, ghosts
    <3> QED BY <3>1 DEF ShareInv, RevokedIsRemoved, RemovedIsEmpty
  <2>7. ASSUME NEW s \in Shares, RemoveShare(s) PROVE ShareInv'
    <3>1. tick.pc = "sharing" /\ tick'.pc = "removing" /\ page' = page /\ shared' = shared /\ stray' = stray
      BY <2>7 DEF RemoveShare, TickType, lpos, lpShare, ghosts
    <3> QED BY <3>1 DEF ShareInv, RevokedIsRemoved, RemovedIsEmpty
  <2> QED BY <1>4, <2>1, <2>2, <2>3, <2>4, <2>5, <2>6, <2>7 DEF ShareStep
<1>5. CASE ThreadStep
  <2>1. page' = page /\ shared' = shared /\ stray' = stray
    BY <1>5 DEF ThreadStep, ListAssets, SendArrives, SentAnswered, EndTick, SkipThread, PushThread, lpos,
                lpShare, ghosts
  <2>2. tick.pc # "posted" /\ tick'.pc # "removed"
    <3> USE <1>t DEF TickType
    <3>1. CASE ListAssets \/ SendArrives
      BY <3>1 DEF ListAssets, SendArrives, Goto
    <3>2. CASE SentAnswered
      BY <3>2 DEF SentAnswered
    <3>4. CASE EndTick
      BY <3>4 DEF EndTick, Resting
    <3>3. ASSUME NEW a \in Assets, SkipThread(a) \/ PushThread(a) PROVE <2>2!1 /\ <2>2!2
      BY <3>3 DEF SkipThread, PushThread
    <3> QED BY <1>5, <3>1, <3>2, <3>3, <3>4 DEF ThreadStep
  <2> QED BY <2>1, <2>2 DEF ShareInv, RevokedIsRemoved, RemovedIsEmpty
<1>6. CASE Abandon
  <2>1. tick'.pc = "idle" /\ page' = page /\ shared' = shared
    BY <1>6 DEF Abandon, Resting, lpos, lpShare
  <2>2. \A s \in Shares : s \in stray => s \in stray'
    BY <1>6 DEF Abandon
  <2>3. tick.pc = "posted" => \A s \in Shares : (\E p \in tick.share : p[1] = s) => shared[s] # {} \/ s \in stray'
    BY <1>6 DEF Abandon
  <2> QED BY <2>1, <2>2, <2>3 DEF ShareInv, RevokedIsRemoved, RemovedIsEmpty
<1>7. CASE UNCHANGED vars
  BY <1>7, QuietShares DEF vars, lpos, lpShare, ghosts
<1> QED BY <1>1, <1>2, <1>3, <1>4, <1>5, <1>6, <1>7 DEF Next

\* RevokedIsRemoved of ShareSync: whatever requests of pushShares fail or lose their answer,
\* a share that LP Share shows has a record by which it is taken down, unless it was the
\* answer to its first push that was lost.
THEOREM RevokedCanBeRemoved == Spec => []RevokedIsRemoved
<1>1. Init => ShareInv
  BY DEF Init, Resting, ShareInv, RevokedIsRemoved, RemovedIsEmpty
<1>2. ShareInv => RevokedIsRemoved
  BY DEF ShareInv
<1> QED BY AlwaysTyped, ShareInvStep, <1>1, <1>2, PTL DEF Spec

-----------------------------------------------------------------------------
(* Acknowledged changes. *)

\* What a step may do to what is applied: rows do not vanish, the log only grows, more may be
\* skipped.
Grows ==
  /\ \A c \in Comments : row[c].state # "none" => row'[c].state # "none"
  /\ Len(log) <= Len(log') /\ \A i \in DOMAIN log : log'[i] = log[i]
  /\ skipped \subseteq skipped'

LEMMA SeqElement ==
  ASSUME NEW S, NEW q \in Seq(S), NEW i \in DOMAIN q
  PROVE  q[i] \in S
OBVIOUS

LEMMA LogFacts ==
  ASSUME Typed
  PROVE  /\ DOMAIN log = 1..Len(log) /\ Len(log) \in Nat
         /\ \A i \in DOMAIN log : log[i].of \in Comments /\ log[i].kind \in Kinds
         /\ cursor \in Nat /\ acked \in Nat /\ cursor <= acked /\ acked <= Len(log)
         /\ tick.upto \in Nat /\ tick.from \in Nat
<1>1. tick.upto \in Nat /\ tick.from \in Nat
  BY DEF Typed, TypeOK, TickType
<1>2. DOMAIN log = 1..Len(log) /\ Len(log) \in Nat
  BY DEF Typed, TypeOK
<1>3. \A i \in DOMAIN log : log[i] \in [kind : Kinds, of : Comments]
  <2>1. log \in Seq([kind : Kinds, of : Comments])
    BY DEF Typed, TypeOK
  <2> QED BY <2>1, SeqElement
<1>4. cursor \in Nat /\ acked \in Nat /\ cursor <= acked /\ acked <= Len(log)
  BY <1>2 DEF Typed, TypeOK
<1> QED BY <1>1, <1>2, <1>3, <1>4

LEMMA DeletedStays ==
  ASSUME Typed, Typed', Grows, NEW c, Deleted(c)
  PROVE  Deleted(c)'
<1>1. PICK j \in DOMAIN log : log[j] = [kind |-> "delete", of |-> c]
  BY DEF Deleted
<1>2. j \in DOMAIN log' /\ log'[j] = [kind |-> "delete", of |-> c]
  BY <1>1 DEF Grows, Typed, TypeOK
<1> QED BY <1>2 DEF Deleted

LEMMA AppliedStays ==
  ASSUME Typed, Typed', Grows, NEW n \in 0..Len(log), AppliedTo(n)
  PROVE  AppliedTo(n)'
<1> SUFFICES ASSUME NEW i \in 1..n, log'[i].kind = "create", i \notin skipped'
             PROVE  (row[log[i].of].state # "none" \/ Deleted(log[i].of))'
  BY DEF AppliedTo
<1>1. i \in DOMAIN log /\ log'[i] = log[i] /\ i \notin skipped
  BY LogFacts DEF Grows
<1>2. row[log[i].of].state # "none" \/ Deleted(log[i].of)
  BY <1>1 DEF AppliedTo
<1> QED BY <1>1, <1>2, DeletedStays, LogFacts DEF Grows

\* A step that changes no thread, and acknowledges, pulls or applies nothing.
LEMMA QuietAcks ==
  ASSUME Typed, Typed', AckInv, Grows, log' = log, thread' = thread, acked' = acked,
         tick'.pc = "got" => tick.pc = "got" /\ tick'.rows = tick.rows /\ tick'.upto = tick.upto,
         tick'.pc = "acking" => tick.pc = "acking" /\ tick'.upto = tick.upto
  PROVE  AckInv'
<1>1. \A c : Deleted(c)' <=> Deleted(c)
  BY DEF Deleted
<1>2. LogKnown' /\ RowsKnown'
  BY <1>1 DEF AckInv, LogKnown, RowsKnown
<1>3. AppliedTo(acked) => AppliedTo(acked)'
  BY AppliedStays, LogFacts
<1>4. AckedIsApplied'
  BY <1>3 DEF AckInv, AckedIsApplied, AppliedTo, Deleted
<1>5. tick'.pc = "acking" => AppliedTo(tick.upto)'
  <2> SUFFICES ASSUME tick'.pc = "acking" PROVE AppliedTo(tick.upto)'
    OBVIOUS
  <2>1. tick.upto \in 0..Len(log) /\ AppliedTo(tick.upto)
    BY LogFacts DEF AckInv, AckingIsApplied, Typed, TickOK
  <2> QED BY <2>1, AppliedStays
<1> QED BY <1>2, <1>4, <1>5 DEF AckInv, AckingIsApplied

LEMMA StaffAcks == Typed /\ Typed' /\ AckInv /\ StaffStep => AckInv'
<1> SUFFICES ASSUME Typed, Typed', AckInv, StaffStep PROVE AckInv'
  OBVIOUS
<1>1. LocalStep
  BY DEF StaffStep, PostComment, EditText, SetCompleted, DeleteComment, NewCut, SetShare
<1>2. \A c \in Comments : row[c].state # "none" => row'[c].state # "none"
  <2> USE DEF Typed, TypeOK
  <2>1. ASSUME NEW c \in Comments, NEW t \in Texts, PostComment(c, t) \/ EditText(c, t) PROVE <1>2
    BY <2>1 DEF PostComment, EditText, CommentType
  <2>2. ASSUME NEW c \in Comments, NEW b \in BOOLEAN, SetCompleted(c, b) PROVE <1>2
    BY <2>2 DEF SetCompleted, CommentType
  <2>3. ASSUME NEW c \in Comments, DeleteComment(c) PROVE <1>2
    BY <2>3 DEF DeleteComment, CommentType
  <2>4. ASSUME NEW a \in Assets, NewCut(a) PROVE <1>2
    BY <2>4 DEF NewCut, CommentType
  <2>5. ASSUME NEW s \in Shares, NEW new \in ShareStates, SetShare(s, new) PROVE <1>2
    BY <2>5 DEF SetShare
  <2> QED BY <2>1, <2>2, <2>3, <2>4, <2>5 DEF StaffStep
<1>3. log' = log /\ thread' = thread /\ acked' = acked /\ tick' = tick /\ skipped' = skipped
  BY <1>1 DEF LocalStep, lpShare, ghosts
<1>4. Grows
  BY <1>2, <1>3, LogFacts DEF Grows
<1> QED BY <1>3, <1>4, QuietAcks

LEMMA ClientAcks == Typed /\ Typed' /\ AckInv /\ ClientStep => AckInv'
<1> SUFFICES ASSUME Typed, Typed', AckInv, ClientStep PROVE AckInv'
  OBVIOUS
<1>1. PICK c \in Comments, kind \in Kinds, new \in CommentType :
        /\ Client(c, kind, new)
        /\ kind = "create" => new.state = "live"
        /\ thread[c].state = "live" => new.state = "live" \/ kind = "delete"
  <2>1. PICK c \in Comments :
          \/ \E t \in Texts : Client(c, "create", [state |-> "live", text |-> t, done |-> FALSE])
          \/ \E t \in Texts \ {thread[c].text} : Client(c, "edit", [thread[c] EXCEPT !.text = t])
          \/ Client(c, "complete", [thread[c] EXCEPT !.done = TRUE])
          \/ Client(c, "uncomplete", [thread[c] EXCEPT !.done = FALSE])
          \/ Client(c, "delete", [thread[c] EXCEPT !.state = "gone"])
    BY DEF ClientStep
  <2>2. thread[c] \in CommentType
    BY DEF Typed, TypeOK
  <2> DEFINE Fits(kind, new) == /\ Client(c, kind, new) /\ kind \in Kinds /\ new \in CommentType
                                /\ kind = "create" => new.state = "live"
                                /\ thread[c].state = "live" => new.state = "live" \/ kind = "delete"
  <2>3. ASSUME NEW t \in Texts, Client(c, "create", [state |-> "live", text |-> t, done |-> FALSE])
        PROVE  Fits("create", [state |-> "live", text |-> t, done |-> FALSE])
    BY <2>3 DEF CommentType, Kinds
  <2>4. ASSUME NEW t \in Texts, Client(c, "edit", [thread[c] EXCEPT !.text = t])
        PROVE  Fits("edit", [thread[c] EXCEPT !.text = t])
    BY <2>2, <2>4 DEF CommentType, Kinds
  <2>5. ASSUME Client(c, "complete", [thread[c] EXCEPT !.done = TRUE])
        PROVE  Fits("complete", [thread[c] EXCEPT !.done = TRUE])
    BY <2>2, <2>5 DEF CommentType, Kinds
  <2>6. ASSUME Client(c, "uncomplete", [thread[c] EXCEPT !.done = FALSE])
        PROVE  Fits("uncomplete", [thread[c] EXCEPT !.done = FALSE])
    BY <2>2, <2>6 DEF CommentType, Kinds
  <2>7. ASSUME Client(c, "delete", [thread[c] EXCEPT !.state = "gone"])
        PROVE  Fits("delete", [thread[c] EXCEPT !.state = "gone"])
    BY <2>2, <2>7 DEF CommentType, Kinds
  <2>8. \E kind, new : Fits(kind, new)
    <3> HIDE DEF Fits
    <3> QED BY <2>1, <2>3, <2>4, <2>5, <2>6, <2>7, Zenon
  <2> QED BY <2>8
<1> DEFINE l == Len(log) + 1
<1>2. /\ Len(log') = l /\ log'[l] = [kind |-> kind, of |-> c]
      /\ \A i \in DOMAIN log : log'[i] = log[i] /\ i \in DOMAIN log'
      /\ DOMAIN log' = DOMAIN log \cup {l}
  <2>1. log \in Seq([kind : Kinds, of : Comments]) /\ log' = Append(log, [kind |-> kind, of |-> c])
    BY <1>1 DEF Client, Typed, TypeOK
  <2> QED BY <2>1, LogFacts
<1>3. row' = row /\ acked' = acked /\ tick' = tick /\ skipped' = skipped
  BY <1>1 DEF Client, lpos, ghosts
<1>4. Grows
  BY <1>2, <1>3, LogFacts DEF Grows
<1>5. \A d \in Comments : thread[d].state = "live" => thread'[d].state = "live" \/ Deleted(d)'
  <2>1. \A d \in Comments : d # c => thread'[d] = thread[d]
    BY <1>1 DEF Client, Typed, TypeOK
  <2>2. thread'[c] = new
    BY <1>1 DEF Client, Typed, TypeOK
  <2>3. kind = "delete" => Deleted(c)'
    BY <1>2 DEF Deleted
  <2> QED BY <1>1, <2>1, <2>2, <2>3
<1>6. \A d : Deleted(d) => Deleted(d)'
  BY <1>4, DeletedStays
<1>7. LogKnown'
  <2> SUFFICES ASSUME NEW i \in DOMAIN log', log'[i].kind = "create"
               PROVE  (thread[log[i].of].state = "live" \/ Deleted(log[i].of) \/ i <= acked)'
    BY DEF LogKnown
  <2>1. CASE i \in DOMAIN log
    BY <1>2, <1>3, <1>5, <1>6, <2>1, LogFacts DEF AckInv, LogKnown
  <2>2. CASE i = l
    <3>1. kind = "create" /\ log'[i].of = c
      BY <1>2, <2>2
    <3>2. thread'[c] = new
      BY <1>1 DEF Client, Typed, TypeOK
    <3> QED BY <1>1, <3>1, <3>2
  <2> QED BY <1>2, <2>1, <2>2
<1>8. RowsKnown'
  <2>1. tick.pc = "got" => \A i \in 1..tick.upto : i \in DOMAIN log
    BY LogFacts DEF Typed, TickOK
  <2> QED BY <1>2, <1>3, <1>6, <2>1 DEF AckInv, RowsKnown
<1>9. AckedIsApplied'
  <2>1. AppliedTo(acked)'
    BY <1>3, <1>4, AppliedStays, LogFacts DEF AckInv, AckedIsApplied, AppliedTo, Deleted
  <2> QED BY <1>3, <2>1 DEF AckedIsApplied, AppliedTo, Deleted
<1>10. AckingIsApplied'
  <2>1. tick.pc = "acking" => AppliedTo(tick.upto) /\ tick.upto \in 0..Len(log)
    BY LogFacts DEF AckInv, AckingIsApplied, Typed, TickOK
  <2> QED BY <1>3, <1>4, <2>1, AppliedStays DEF AckingIsApplied
<1> QED BY <1>7, <1>8, <1>9, <1>10 DEF AckInv

\* Applying changes removes no row, and gives one to a comment whose change carries it alive.
LEMMA AppliedKeeps ==
  ASSUME NEW c \in Comments, NEW x, NEW I
  PROVE  /\ row[c].state # "none" => Applied(c, x, I).state # "none"
         /\ About(I, c, Kinds) # {} /\ x \in CommentType /\ x.state = "live" => Applied(c, x, I).state # "none"
<1>1. row[c].state # "none" => Applied(c, x, I).state # "none"
  BY DEF Applied
<1>2. ASSUME About(I, c, Kinds) # {}, x \in CommentType, x.state = "live", row[c].state = "none"
      PROVE  Applied(c, x, I).state # "none"
  <2>1. Applied(c, x, I) = [x EXCEPT !.done = DoneAfter(I, c, x.done)]
    BY <1>2 DEF Applied
  <2> QED BY <1>2, <2>1 DEF CommentType
<1> QED BY <1>1, <1>2

LEMMA ApplyAcks ==
  ASSUME Typed, Typed', AckInv, NEW F \in SUBSET Pulled, NEW N \in SUBSET F, Apply(F, N)
  PROVE  AckInv'
<1>1. /\ tick.pc = "got" /\ tick'.pc = "acking" /\ tick'.upto = tick.upto
      /\ row' = [c \in Comments |-> Applied(c, tick.rows[c], Pulled \ F)]
      /\ log' = log /\ thread' = thread /\ acked' = acked /\ skipped' = skipped \cup F
  BY DEF Apply, lpShare, Typed, TypeOK, TickType
<1>2. Grows
  BY <1>1, AppliedKeeps, LogFacts DEF Grows
<1>3. \A c : Deleted(c)' <=> Deleted(c)
  BY <1>1 DEF Deleted
<1>4. LogKnown' /\ RowsKnown'
  BY <1>1, <1>3 DEF AckInv, LogKnown, RowsKnown
<1>5. AckedIsApplied'
  <2>0. AppliedTo(acked) /\ acked \in 0..Len(log)
    BY LogFacts DEF AckInv, AckedIsApplied, AppliedTo, Deleted
  <2>1. AppliedTo(acked)'
    BY <1>1, <1>2, <2>0, AppliedStays
  <2> QED BY <1>1, <2>1 DEF AckedIsApplied, AppliedTo, Deleted
<1>6. \A i \in 1..tick.upto :
        log[i].kind = "create" /\ i \notin skipped' => row'[log[i].of].state # "none" \/ Deleted(log[i].of)
  <2> SUFFICES ASSUME NEW i \in 1..tick.upto, log[i].kind = "create", i \notin skipped'
               PROVE  row'[log[i].of].state # "none" \/ Deleted(log[i].of)
    OBVIOUS
  <2>1. i \in DOMAIN log /\ log[i].of \in Comments /\ log[i].kind \in Kinds
    BY <1>1, LogFacts DEF Typed, TickOK
  <2>2. CASE i <= acked
    <3>1. row[log[i].of].state # "none" \/ Deleted(log[i].of)
      BY <1>1, <2>2, LogFacts DEF AckInv, AckedIsApplied, Deleted
    <3> QED BY <2>1, <3>1, <1>2 DEF Grows
  <2>3. CASE i > acked /\ tick.rows[log[i].of].state = "live"
    <3>1. i \in Pulled \ F
      BY <1>1, <2>3, LogFacts DEF Pulled, Typed, TickOK
    <3>2. About(Pulled \ F, log[i].of, Kinds) # {}
      BY <2>1, <3>1 DEF About
    <3>3. tick.rows[log[i].of] \in CommentType
      BY <2>1 DEF Typed, TypeOK, TickType
    <3>4. Applied(log[i].of, tick.rows[log[i].of], Pulled \ F).state # "none"
      BY <2>1, <2>3, <3>2, <3>3, AppliedKeeps
    <3> QED BY <1>1, <2>1, <3>4
  <2>4. tick.rows[log[i].of].state = "live" \/ Deleted(log[i].of) \/ i <= acked
    BY <1>1 DEF AckInv, RowsKnown
  <2> QED BY <2>1, <2>2, <2>3, <2>4, LogFacts
<1>7. AckingIsApplied'
  BY <1>1, <1>3, <1>6 DEF AckingIsApplied, AppliedTo
<1> QED BY <1>4, <1>5, <1>7 DEF AckInv

LEMMA PullAcks == Typed /\ Typed' /\ AckInv /\ PullStep => AckInv'
<1> SUFFICES ASSUME Typed, Typed', AckInv, PullStep PROVE AckInv'
  OBVIOUS
<1>t. tick \in TickType
  BY DEF Typed, TypeOK
<1>g. row' = row /\ log' = log /\ skipped' = skipped => Grows
  BY LogFacts DEF Grows
<1>1. CASE StartTick
  BY <1>1, <1>g, QuietAcks DEF StartTick, Resting, lpos, lpShare, ghosts
<1>2. CASE Answer
  <2>1. /\ row' = row /\ log' = log /\ skipped' = skipped /\ thread' = thread /\ acked' = acked
        /\ tick'.pc = "got" /\ tick'.rows = thread /\ tick'.upto = Len(log)
    BY <1>2, <1>t DEF Answer, TickType, lpos, lpShare, ghosts
  <2>2. \A c : Deleted(c)' <=> Deleted(c)
    BY <2>1 DEF Deleted
  <2>3. LogKnown' /\ AckedIsApplied'
    BY <2>1, <2>2 DEF AckInv, LogKnown, AckedIsApplied, Deleted
  <2>4. RowsKnown'
    BY <2>1, <2>2, LogFacts DEF AckInv, LogKnown, RowsKnown
  <2>5. AckingIsApplied'
    BY <2>1 DEF AckingIsApplied
  <2> QED BY <2>3, <2>4, <2>5 DEF AckInv
<1>3. CASE NothingNew
  <2>1. tick'.pc = "visiting"
    BY <1>3, <1>t DEF NothingNew, Goto, TickType
  <2> QED BY <1>3, <1>g, <2>1, QuietAcks DEF NothingNew, lpos, lpShare, ghosts
<1>4. ASSUME NEW F \in SUBSET Pulled, NEW N \in SUBSET F, Apply(F, N) PROVE AckInv'
  BY <1>4, ApplyAcks
<1>5. CASE AckArrives
  <2>1. /\ row' = row /\ log' = log /\ skipped' = skipped /\ thread' = thread
        /\ tick.pc = "acking" /\ tick'.pc = "acked" /\ (acked' = acked \/ acked' = tick.upto) /\ acked <= acked'
    BY <1>5, <1>t, LogFacts DEF AckArrives, AckedUpTo, Goto, TickType, lpos, ghosts
  <2>2. \A c : Deleted(c)' <=> Deleted(c)
    BY <2>1 DEF Deleted
  <2>3. LogKnown' /\ RowsKnown' /\ AckingIsApplied'
    BY <2>1, <2>2, LogFacts DEF AckInv, LogKnown, RowsKnown, AckingIsApplied, Typed, TypeOK
  <2>4. AckedIsApplied'
    BY <2>1 DEF AckInv, AckedIsApplied, AckingIsApplied, AppliedTo, Deleted
  <2> QED BY <2>3, <2>4 DEF AckInv
<1>6. CASE AckAnswered
  <2>1. tick'.pc = "visiting"
    BY <1>6, <1>t DEF AckAnswered, Goto, TickType
  <2> QED BY <1>6, <1>g, <2>1, QuietAcks DEF AckAnswered, lpShare, ghosts
<1> QED BY <1>1, <1>2, <1>3, <1>4, <1>5, <1>6 DEF PullStep

\* A push replaces only comments with nothing unacknowledged.
LEMMA ThreadAcks == Typed /\ Typed' /\ AckInv /\ ThreadStep => AckInv'
<1> SUFFICES ASSUME Typed, Typed', AckInv, ThreadStep PROVE AckInv'
  OBVIOUS
<1>t. tick \in TickType
  BY DEF Typed, TypeOK
<1>g. row' = row /\ log' = log /\ skipped' = skipped => Grows
  BY LogFacts DEF Grows
<1>1. CASE SendArrives
  <2>1. /\ row' = row /\ log' = log /\ skipped' = skipped /\ acked' = acked /\ tick'.pc = "sent"
    BY <1>1, <1>t DEF SendArrives, Goto, TickType, lpos, ghosts
  <2>2. \A c : Deleted(c)' <=> Deleted(c)
    BY <2>1 DEF Deleted
  <2>3. LogKnown'
    <3> SUFFICES ASSUME NEW i \in DOMAIN log, log[i].kind = "create"
                 PROVE  thread'[log[i].of].state = "live" \/ Deleted(log[i].of) \/ i <= acked
      BY <2>1, <2>2 DEF LogKnown
    <3>1. i <= acked \/ thread'[log[i].of] = thread[log[i].of]
      BY <1>1, LogFacts DEF SendArrives, Unacked
    <3> QED BY <3>1 DEF AckInv, LogKnown
  <2>4. RowsKnown' /\ AckedIsApplied' /\ AckingIsApplied'
    BY <2>1, <2>2 DEF AckInv, RowsKnown, AckedIsApplied, AckingIsApplied, Deleted
  <2> QED BY <2>3, <2>4 DEF AckInv
<1>2. CASE ListAssets
  <2>1. tick'.pc = "commenting"
    BY <1>2, <1>t DEF ListAssets, TickType
  <2> QED BY <1>2, <1>g, <2>1, QuietAcks DEF ListAssets, lpos, lpShare
<1>3. CASE SentAnswered
  <2>1. tick'.pc = "commenting"
    BY <1>3, <1>t DEF SentAnswered, TickType
  <2> QED BY <1>3, <1>g, <2>1, QuietAcks DEF SentAnswered, lpShare
<1>4. CASE EndTick
  BY <1>4, <1>g, QuietAcks DEF EndTick, Resting, lpos, lpShare, ghosts
<1>5. ASSUME NEW a \in Assets, SkipThread(a) \/ PushThread(a) PROVE AckInv'
  <2>1. tick'.pc \in {"commenting", "sending"}
    BY <1>5, <1>t DEF SkipThread, PushThread, TickType
  <2> QED BY <1>5, <1>g, <2>1, QuietAcks DEF SkipThread, PushThread, lpos, lpShare, ghosts
<1> QED BY <1>1, <1>2, <1>3, <1>4, <1>5 DEF ThreadStep

LEMMA ShareAcks == Typed /\ Typed' /\ AckInv /\ ShareStep => AckInv'
<1> SUFFICES ASSUME Typed, Typed', AckInv, ShareStep PROVE AckInv'
  OBVIOUS
<1>t. tick \in TickType
  BY DEF Typed, TypeOK
<1>1. row' = row /\ log' = log /\ skipped' = skipped /\ thread' = thread /\ acked' = acked
  BY DEF ShareStep, ListShares, PostArrives, PostAnswered, RemoveArrives, RemoveAnswered, PushShare, RemoveShare,
         lpos, lpShare, ghosts
<1>2. tick'.pc \notin {"got", "acking"}
  BY <1>t DEF ShareStep, ListShares, PostArrives, PostAnswered, RemoveArrives, RemoveAnswered, PushShare,
              RemoveShare, Goto, TickType
<1>3. Grows
  BY <1>1, LogFacts DEF Grows
<1> QED BY <1>1, <1>2, <1>3, QuietAcks

LEMMA AckInvStep == Typed /\ Typed' /\ AckInv /\ [Next]_vars => AckInv'
<1> SUFFICES ASSUME Typed, Typed', AckInv, Abandon \/ UNCHANGED vars PROVE AckInv'
  BY StaffAcks, ClientAcks, PullAcks, ShareAcks, ThreadAcks DEF Next
<1>1. row' = row /\ log' = log /\ skipped' = skipped /\ thread' = thread /\ acked' = acked
  BY DEF Abandon, vars, lpos, lpShare, ghosts
<1>2. tick' = tick \/ tick'.pc = "idle"
  BY DEF Abandon, Resting, vars
<1>3. Grows
  BY <1>1, LogFacts DEF Grows
<1> QED BY <1>1, <1>2, <1>3, QuietAcks

\* AckedIsApplied of ShareSync: however the ticks of pullChanges fail, every comment whose
\* creation LPOS acknowledged is in its table, and LP Share may forget the change.
THEOREM NothingAckedIsLost == Spec => []AckedIsApplied
<1>1. Init => AckInv
  BY DEF Init, Resting, AckInv, LogKnown, RowsKnown, AckedIsApplied, AckingIsApplied
<1>2. AckInv => AckedIsApplied
  BY DEF AckInv
<1> QED BY AlwaysTyped, AckInvStep, <1>1, <1>2, PTL DEF Spec

-----------------------------------------------------------------------------
(* Both sides show the same. *)

\* A step that touches no thread, no record of one and no cursor, and keeps the tick's work.
LEMMA QuietSync ==
  ASSUME Typed, SyncInv, thread' = thread, hashed' = hashed, log' = log, cursor' = cursor, unsure' = unsure,
         tick'.force = tick.force, tick'.asset = tick.asset, tick'.view = tick.view, tick'.todo = tick.todo,
         tick'.from = tick.from, tick'.upto = tick.upto,
         \/ tick'.pc = tick.pc
         \/ /\ tick.pc \notin {"sending", "sent"}
            /\ tick'.pc \notin {"sending", "sent", "commenting", "idle", "asking", "got", "acking"}
            /\ tick'.pc = "acked" => tick.pc = "acking"
  PROVE  SyncInv'
<1>1. \A a : Shown(a)' = Shown(a) /\ (Ahead(a)' <=> Ahead(a)) /\ (Underway(a)' <=> Underway(a))
  BY DEF Shown, Ahead, Underway
<1>2. AssetsWith(Pulled)' = AssetsWith(Pulled)
  BY DEF AssetsWith, Pulled
<1>3. InDoubt' = InDoubt
  BY DEF InDoubt
<1>4. Recorded'
  BY <1>1, <1>3 DEF SyncInv, Recorded
<1>5. ForceOK'
  BY <1>1, <1>2 DEF SyncInv, ForceOK
<1>6. SendOK'
  BY <1>1 DEF SyncInv, SendOK
<1> QED BY <1>4, <1>5, <1>6 DEF SyncInv

LEMMA StaffSync == Typed /\ SyncInv /\ StaffStep => SyncInv'
<1> SUFFICES ASSUME Typed, SyncInv, StaffStep PROVE SyncInv'
  OBVIOUS
<1>1. LocalStep
  BY DEF StaffStep, PostComment, EditText, SetCompleted, DeleteComment, NewCut, SetShare
<1> QED BY <1>1, QuietSync DEF LocalStep, lpShare, ghosts

\* A client's change is ahead of the cursor on its own asset, and nothing to the others.
LEMMA ClientSync == Typed /\ SyncInv /\ ClientStep => SyncInv'
<1> SUFFICES ASSUME Typed, SyncInv, ClientStep PROVE SyncInv'
  OBVIOUS
<1>1. PICK c \in Comments, kind \in Kinds, new \in CommentType : Client(c, kind, new)
  BY DEF ClientStep, Typed, TypeOK, CommentType, Kinds
<1> DEFINE l == Len(log) + 1
<1>2. /\ log'[l].of = c /\ \A i \in DOMAIN log : log'[i] = log[i]
      /\ DOMAIN log' = DOMAIN log \cup {l}
  <2>1. log \in Seq([kind : Kinds, of : Comments]) /\ log' = Append(log, [kind |-> kind, of |-> c])
    BY <1>1 DEF Client, Typed, TypeOK
  <2> QED BY <2>1, LogFacts
<1>3. hashed' = hashed /\ cursor' = cursor /\ tick' = tick /\ unsure' = unsure
  BY <1>1 DEF Client, lpos, ghosts
<1>4. l > cursor /\ l \in DOMAIN log'
  BY <1>2, LogFacts
<1>5. \A a : Ahead(a) => Ahead(a)'
  BY <1>2, <1>3 DEF Ahead
<1>6. \A a : Underway(a) => Underway(a)'
  BY <1>2, <1>3 DEF Underway
<1>7. \A a : c \in CommentsOf[a] => Ahead(a)' /\ Underway(a)'
  BY <1>2, <1>3, <1>4 DEF Ahead, Underway
<1>8. \A a \in Assets : c \notin CommentsOf[a] => Shown(a)' = Shown(a)
  <2> SUFFICES ASSUME NEW a \in Assets, c \notin CommentsOf[a] PROVE Shown(a)' = Shown(a)
    OBVIOUS
  <2>1. \A d \in CommentsOf[a] : thread'[d] = thread[d]
    BY <1>1, ShareAssumption DEF Client, Typed, TypeOK
  <2> QED BY <2>1 DEF Shown
<1>9. InDoubt' = InDoubt
  BY <1>3 DEF InDoubt
<1>10. Recorded'
  BY <1>3, <1>6, <1>7, <1>8, <1>9 DEF SyncInv, Recorded
<1>11. tick.pc \in {"acking", "acked"} => AssetsWith(Pulled)' = AssetsWith(Pulled)
  <2>1. tick.pc \in {"acking", "acked"} => \A i \in Pulled : i \in DOMAIN log
    BY LogFacts DEF Pulled, Typed, TickOK
  <2>2. Pulled' = Pulled
    BY <1>3 DEF Pulled
  <2> QED BY <1>2, <2>1, <2>2 DEF AssetsWith
<1>12. ForceOK'
  BY <1>3, <1>5, <1>11 DEF SyncInv, ForceOK
<1>13. SendOK'
  <2>1. tick.pc = "sent" => \A a \in tick.asset : a \in Assets
    BY DEF Typed, TypeOK, TickType
  <2> QED BY <1>3, <1>5, <1>7, <1>8, <2>1 DEF SyncInv, SendOK
<1> QED BY <1>10, <1>12, <1>13 DEF SyncInv

LEMMA PullSync == Typed /\ SyncInv /\ PullStep => SyncInv'
<1> SUFFICES ASSUME Typed, SyncInv, PullStep PROVE SyncInv'
  OBVIOUS
<1>t. tick \in TickType
  BY DEF Typed, TypeOK
<1>1. CASE StartTick
  <2>1. /\ tick.pc = "idle" /\ tick'.pc = "asking" /\ tick'.force = {} /\ tick'.asset = {}
        /\ thread' = thread /\ hashed' = hashed /\ log' = log /\ cursor' = cursor /\ unsure' = unsure
    BY <1>1 DEF StartTick, Resting, lpos, lpShare, ghosts
  <2>2. \A a : Shown(a)' = Shown(a) /\ (Underway(a)' <=> Underway(a))
    BY <2>1 DEF Shown, Underway, SyncInv, ForceOK
  <2>3. InDoubt' = InDoubt
    BY <2>1 DEF InDoubt
  <2>4. Recorded'
    BY <2>1, <2>2, <2>3 DEF SyncInv, Recorded
  <2> QED BY <2>1, <2>4 DEF SyncInv, ForceOK, SendOK
<1>2. CASE Answer
  <2>1. /\ tick.pc = "asking" /\ tick'.pc = "got" /\ tick'.force = tick.force /\ tick'.asset = tick.asset
        /\ thread' = thread /\ hashed' = hashed /\ log' = log /\ cursor' = cursor /\ unsure' = unsure
    BY <1>2, <1>t DEF Answer, TickType, lpos, lpShare, ghosts
  <2>2. \A a : Shown(a)' = Shown(a) /\ (Underway(a)' <=> Underway(a))
    BY <2>1 DEF Shown, Underway
  <2>3. InDoubt' = InDoubt
    BY <2>1 DEF InDoubt
  <2>4. Recorded'
    BY <2>1, <2>2, <2>3 DEF SyncInv, Recorded
  <2> QED BY <2>1, <2>4 DEF SyncInv, ForceOK, SendOK
<1>3. CASE NothingNew
  BY <1>3, <1>t, QuietSync DEF NothingNew, Goto, TickType, lpos, lpShare, ghosts
<1>4. ASSUME NEW F \in SUBSET Pulled, NEW N \in SUBSET F, Apply(F, N) PROVE SyncInv'
  <2>1. /\ tick.pc = "got" /\ tick'.pc = "acking" /\ tick'.force = AssetsWith((Pulled \ F) \cup N)
        /\ tick'.asset = tick.asset /\ tick'.from = tick.from /\ tick'.upto = tick.upto
        /\ unsure' = unsure \cup AssetsWith(F)
        /\ thread' = thread /\ hashed' = hashed /\ log' = log /\ cursor' = cursor
    BY <1>4, <1>t DEF Apply, Forced, TickType, lpShare
  <2>2. \A a : Shown(a)' = Shown(a) /\ (Ahead(a)' <=> Ahead(a))
    BY <2>1 DEF Shown, Ahead
  <2>3. \A a : Underway(a) => Underway(a)'
    BY <2>1 DEF Underway, SyncInv, ForceOK
  <2>4. Recorded'
    <3>1. \A a : a \in InDoubt => a \in InDoubt'
      BY <2>1 DEF InDoubt
    <3> QED BY <2>1, <2>2, <2>3, <3>1 DEF SyncInv, Recorded
  <2>5. AssetsWith(Pulled)' \subseteq tick'.force \cup unsure'
    BY <2>1 DEF AssetsWith, Pulled
  <2>6. \A a \in tick'.force : Ahead(a)'
    <3>1. \A i \in Pulled : i \in DOMAIN log /\ i > cursor
      BY <2>1, LogFacts DEF Pulled, Typed, TickOK
    <3> QED BY <2>1, <2>2, <3>1 DEF AssetsWith, Ahead
  <2> QED BY <2>1, <2>4, <2>5, <2>6 DEF SyncInv, ForceOK, SendOK
<1>5. CASE AckArrives
  BY <1>5, <1>t, QuietSync DEF AckArrives, Goto, TickType, lpos, ghosts
<1>6. CASE AckAnswered
  <2>1. /\ tick.pc = "acked" /\ tick'.pc = "visiting" /\ tick'.force = tick.force /\ tick'.asset = tick.asset
        /\ cursor' = tick.upto
        /\ thread' = thread /\ hashed' = hashed /\ log' = log /\ unsure' = unsure
    BY <1>6, <1>t DEF AckAnswered, Goto, TickType, lpShare, ghosts
  <2>2. \A a \in Assets \ unsure : Underway(a) => Underway(a)'
    <3> SUFFICES ASSUME NEW a \in Assets \ unsure, a \notin tick.force,
                        NEW i \in DOMAIN log, i > cursor, log[i].of \in CommentsOf[a]
                 PROVE  Underway(a)'
      BY <2>1 DEF Underway
    <3>1. i \notin Pulled
      BY <2>1 DEF SyncInv, ForceOK, AssetsWith
    <3>2. i > tick.upto
      BY <2>1, <3>1, LogFacts DEF Pulled, Typed, TickOK
    <3> QED BY <2>1, <3>2 DEF Underway
  <2>3. InDoubt' = InDoubt /\ InDoubt = unsure
    BY <2>1 DEF InDoubt
  <2>4. \A a : Shown(a)' = Shown(a)
    BY <2>1 DEF Shown
  <2>5. Recorded'
    BY <2>1, <2>2, <2>3, <2>4 DEF SyncInv, Recorded
  <2> QED BY <2>1, <2>5 DEF SyncInv, ForceOK, SendOK
<1> QED BY <1>1, <1>2, <1>3, <1>4, <1>5, <1>6 DEF PullStep

LEMMA ShareSteps == Typed /\ SyncInv /\ ShareStep => SyncInv'
<1> SUFFICES ASSUME Typed, SyncInv, ShareStep PROVE SyncInv'
  OBVIOUS
<1>t. tick \in TickType
  BY DEF Typed, TypeOK
<1>1. thread' = thread /\ hashed' = hashed /\ log' = log /\ cursor' = cursor /\ unsure' = unsure
  BY DEF ShareStep, ListShares, PostArrives, PostAnswered, RemoveArrives, RemoveAnswered, PushShare, RemoveShare,
         lpos, lpShare, ghosts
<1>2. /\ tick'.force = tick.force /\ tick'.asset = tick.asset /\ tick'.view = tick.view /\ tick'.todo = tick.todo
      /\ tick'.from = tick.from /\ tick'.upto = tick.upto
      /\ tick.pc \notin {"sending", "sent"}
      /\ tick'.pc \in {"sharing", "posting", "posted", "removing", "removed"}
  BY <1>t DEF ShareStep, ListShares, PostArrives, PostAnswered, RemoveArrives, RemoveAnswered, PushShare,
              RemoveShare, Goto, TickType
<1> QED BY <1>1, <1>2, QuietSync

\* An asset is sent with each of its comments once.
LEMMA PushThreadSync ==
  ASSUME Typed, SyncInv, NEW a \in Assets, PushThread(a)
  PROVE  SyncInv'
<1>1. /\ tick.pc = "commenting" /\ tick'.pc = "sending" /\ tick'.force = tick.force
      /\ tick'.todo = tick.todo \ {a} /\ tick'.asset = {a} /\ tick'.view = View(a)
      /\ thread' = thread /\ hashed' = hashed /\ log' = log /\ cursor' = cursor /\ unsure' = unsure
  BY DEF PushThread, Typed, TypeOK, TickType, lpos, lpShare, ghosts
<1>2. \A b : Shown(b)' = Shown(b) /\ (Underway(b)' <=> Underway(b))
  BY <1>1 DEF Shown, Underway
<1>3. InDoubt' = InDoubt
  BY <1>1 DEF InDoubt
<1>4. Recorded'
  BY <1>1, <1>2, <1>3 DEF SyncInv, Recorded
<1>5. ForceOK'
  BY <1>1 DEF SyncInv, ForceOK, SendOK
<1>6. (\A x \in View(a) : x.of \in CommentsOf[a]) /\ (\A x, y \in View(a) : x.of = y.of => x = y)
  BY DEF View
<1>7. SendOK'
  BY <1>1, <1>6 DEF SendOK
<1> QED BY <1>4, <1>5, <1>7 DEF SyncInv

\* What arrives is what LP Share then shows, unless it keeps a comment it was not asked about.
LEMMA SendArrivesSync ==
  ASSUME Typed, SyncInv, SendArrives
  PROVE  SyncInv'
<1>t. tick \in TickType /\ thread \in [Comments -> CommentType]
  BY DEF Typed, TypeOK
<1>1. /\ tick.pc = "sending" /\ tick'.pc = "sent" /\ tick'.force = tick.force
      /\ tick'.todo = tick.todo /\ tick'.asset = tick.asset /\ tick'.view = tick.view
      /\ hashed' = hashed /\ log' = log /\ cursor' = cursor /\ unsure' = unsure
  BY <1>t DEF SendArrives, Goto, TickType, lpos, ghosts
<1>2. PICK a \in Assets :
        /\ tick.asset = {a}
        /\ \A x \in tick.view : x.of \in CommentsOf[a]
        /\ \A x, y \in tick.view : x.of = y.of => x = y
  BY <1>1 DEF SyncInv, SendOK
<1>3. \A c \in Comments : thread'[c] = IF c \in CommentsOf[a] /\ ~Unacked(c) THEN Replaced(c, tick.view)
                                       ELSE thread[c]
  BY <1>2 DEF SendArrives
<1>4. \A b \in Assets : b # a => Shown(b)' = Shown(b)
  <2> SUFFICES ASSUME NEW b \in Assets, b # a PROVE Shown(b)' = Shown(b)
    OBVIOUS
  <2>1. \A d \in CommentsOf[b] : thread'[d] = thread[d]
    BY <1>3, ShareAssumption
  <2> QED BY <2>1 DEF Shown
<1>5. \A b : Ahead(b)' <=> Ahead(b)
  BY <1>1 DEF Ahead
<1>6. Shown(a)' = tick.view \/ Ahead(a)
  <2> SUFFICES ASSUME ~Ahead(a) PROVE Shown(a)' = tick.view
    OBVIOUS
  <2>1. \A c \in CommentsOf[a] : c \in Comments /\ ~Unacked(c)
    BY ShareAssumption, LogFacts DEF Unacked, Ahead
  <2>2. \A c \in CommentsOf[a] : thread'[c] = Replaced(c, tick.view)
    BY <1>3, <2>1
  <2>3. \A x \in tick.view : x \in [of : Comments, text : Texts, done : BOOLEAN]
    BY <1>t DEF TickType, Views
  <2>4. ASSUME NEW x \in tick.view
        PROVE  Replaced(x.of, tick.view) = [state |-> "live", text |-> x.text, done |-> x.done]
    <3>1. (CHOOSE v \in tick.view : v.of = x.of) = x
      BY <1>2
    <3> QED BY <3>1 DEF Replaced
  <2>5. \A c : (\A x \in tick.view : x.of # c) => Replaced(c, tick.view).state = "none"
    BY DEF Replaced, NoComment
  <2>6. ASSUME NEW x \in tick.view PROVE x \in Shown(a)'
    <3>1. x.of \in CommentsOf[a]
      BY <1>2
    <3>2. thread'[x.of] = [state |-> "live", text |-> x.text, done |-> x.done]
      BY <2>2, <2>4, <3>1
    <3>3. x = [of |-> x.of, text |-> x.text, done |-> x.done]
      BY <2>3
    <3>4. x = [of |-> x.of, text |-> thread'[x.of].text, done |-> thread'[x.of].done] /\ thread'[x.of].state = "live"
      BY <3>2, <3>3
    <3> QED BY <3>1, <3>4 DEF Shown
  <2>7. ASSUME NEW y \in Shown(a)' PROVE y \in tick.view
    <3>1. PICK c \in CommentsOf[a] :
            thread'[c].state = "live" /\ y = [of |-> c, text |-> thread'[c].text, done |-> thread'[c].done]
      BY DEF Shown
    <3>2. PICK x \in tick.view : x.of = c
      BY <2>2, <2>5, <3>1
    <3>3. thread'[c] = [state |-> "live", text |-> x.text, done |-> x.done]
      BY <2>2, <2>4, <3>2
    <3>4. y = [of |-> x.of, text |-> x.text, done |-> x.done]
      BY <3>1, <3>2, <3>3
    <3> QED BY <2>3, <3>4
  <2> QED BY <2>6, <2>7
<1>7. Recorded'
  <2>1. \A b : Underway(b)' <=> Underway(b)
    BY <1>1 DEF Underway
  <2>2. InDoubt' = unsure \cup {a} /\ InDoubt = unsure
    BY <1>1, <1>2 DEF InDoubt
  <2> QED BY <1>1, <1>4, <2>1, <2>2 DEF SyncInv, Recorded
<1>8. ForceOK'
  BY <1>1 DEF SyncInv, ForceOK
<1>9. SendOK'
  BY <1>1, <1>2, <1>5, <1>6 DEF SendOK
<1> QED BY <1>7, <1>8, <1>9 DEF SyncInv

LEMMA SentAnsweredSync ==
  ASSUME Typed, SyncInv, SentAnswered
  PROVE  SyncInv'
<1>1. /\ tick.pc = "sent" /\ tick'.pc = "commenting" /\ tick'.force = tick.force \ tick.asset
      /\ tick'.todo = tick.todo /\ tick'.asset = {}
      /\ thread' = thread /\ log' = log /\ cursor' = cursor /\ unsure' = unsure \ tick.asset
  BY DEF SentAnswered, Typed, TypeOK, TickType, lpShare
<1>2. \A a \in Assets : hashed'[a] = IF a \in tick.asset THEN {tick.view} ELSE hashed[a]
  BY DEF SentAnswered
<1>3. \A a : Shown(a)' = Shown(a)
  BY <1>1 DEF Shown
<1>4. \A a : (a \notin tick.asset /\ Underway(a)) \/ Ahead(a) => Underway(a)'
  BY <1>1 DEF Underway, Ahead
<1>5. InDoubt' = unsure \ tick.asset /\ InDoubt = unsure \cup tick.asset
  BY <1>1 DEF InDoubt
<1>6. Recorded'
  <2> SUFFICES ASSUME NEW a \in Assets \ (unsure \ tick.asset), NEW v \in hashed'[a], hashed'[a] = {v},
                      ~Underway(a)'
               PROVE  Shown(a) = v
    BY <1>3, <1>5 DEF Recorded
  <2>1. CASE a \in tick.asset
    BY <1>1, <1>2, <1>4, <2>1 DEF SyncInv, SendOK
  <2>2. CASE a \notin tick.asset
    BY <1>2, <1>4, <1>5, <2>2 DEF SyncInv, Recorded
  <2> QED BY <2>1, <2>2
<1>7. ForceOK'
  BY <1>1 DEF SyncInv, ForceOK
<1> QED BY <1>1, <1>6, <1>7 DEF SyncInv, SendOK

LEMMA ThreadSync == Typed /\ SyncInv /\ ThreadStep => SyncInv'
<1> SUFFICES ASSUME Typed, SyncInv, ThreadStep PROVE SyncInv'
  OBVIOUS
<1>t. tick \in TickType
  BY DEF Typed, TypeOK
<1>1. CASE ListAssets
  <2>1. /\ tick.pc = "sharing" /\ tick'.pc = "commenting" /\ tick'.force = tick.force
        /\ tick'.todo = Commented /\ tick'.asset = tick.asset /\ unsure' = unsure \cup (tick.force \ Commented)
        /\ thread' = thread /\ hashed' = hashed /\ log' = log /\ cursor' = cursor
    BY <1>1, <1>t DEF ListAssets, TickType, lpos, lpShare
  <2>2. \A b : Shown(b)' = Shown(b) /\ (Underway(b)' <=> Underway(b))
    BY <2>1 DEF Shown, Underway
  <2>3. InDoubt \subseteq InDoubt'
    BY <2>1 DEF InDoubt
  <2>4. Recorded'
    BY <2>1, <2>2, <2>3 DEF SyncInv, Recorded
  <2> QED BY <2>1, <2>4 DEF SyncInv, ForceOK, SendOK
<1>2. CASE EndTick
  <2>1. /\ tick.pc = "commenting" /\ tick.todo = {} /\ tick'.pc = "idle" /\ tick'.force = {} /\ tick'.asset = {}
        /\ thread' = thread /\ hashed' = hashed /\ log' = log /\ cursor' = cursor /\ unsure' = unsure
    BY <1>2 DEF EndTick, Resting, lpos, lpShare, ghosts
  <2>2. tick.force \subseteq unsure
    BY <2>1 DEF SyncInv, ForceOK, SendOK
  <2>3. InDoubt' = unsure /\ InDoubt = unsure
    BY <2>1 DEF InDoubt
  <2>4. \A b : Shown(b)' = Shown(b) /\ (b \notin unsure /\ Underway(b) => Underway(b)')
    BY <2>1, <2>2 DEF Shown, Underway
  <2>5. Recorded'
    BY <2>1, <2>3, <2>4 DEF SyncInv, Recorded
  <2> QED BY <2>1, <2>5 DEF SyncInv, ForceOK, SendOK
<1>3. ASSUME NEW a \in Assets, SkipThread(a) PROVE SyncInv'
  <2>1. /\ tick.pc = "commenting" /\ tick'.pc = "commenting" /\ tick'.force = tick.force /\ a \notin tick.force
        /\ tick'.todo = tick.todo \ {a} /\ tick'.asset = tick.asset
        /\ thread' = thread /\ hashed' = hashed /\ log' = log /\ cursor' = cursor /\ unsure' = unsure
    BY <1>3, <1>t DEF SkipThread, TickType, lpos, lpShare, ghosts
  <2>2. \A b : Shown(b)' = Shown(b) /\ (Underway(b)' <=> Underway(b))
    BY <2>1 DEF Shown, Underway
  <2>3. InDoubt' = InDoubt
    BY <2>1 DEF InDoubt
  <2>4. Recorded'
    BY <2>1, <2>2, <2>3 DEF SyncInv, Recorded
  <2> QED BY <2>1, <2>4 DEF SyncInv, ForceOK, SendOK
<1> QED BY <1>1, <1>2, <1>3, PushThreadSync, SendArrivesSync, SentAnsweredSync DEF ThreadStep

\* A tick that fails leaves what it was to push again either ahead of the cursor or in doubt.
LEMMA AbandonSync == Typed /\ SyncInv /\ Abandon => SyncInv'
<1> SUFFICES ASSUME Typed, SyncInv, Abandon PROVE SyncInv'
  OBVIOUS
<1>1. /\ tick'.pc = "idle" /\ tick'.force = {} /\ tick'.asset = {}
      /\ thread' = thread /\ hashed' = hashed /\ log' = log /\ cursor' = cursor
  BY DEF Abandon, Resting, lpos, lpShare
<1>2. InDoubt' = unsure'
  BY <1>1 DEF InDoubt
<1>3. InDoubt \subseteq unsure'
  BY DEF Abandon, InDoubt
<1>4. \A a \in tick.force : Ahead(a) \/ a \in unsure'
  BY DEF Abandon, SyncInv, ForceOK
<1>5. \A a : Shown(a)' = Shown(a) /\ (Ahead(a) => Underway(a)')
  BY <1>1 DEF Shown, Ahead, Underway
<1>6. \A a : Underway(a) => Ahead(a) \/ a \in unsure'
  BY <1>4 DEF Underway, Ahead
<1>7. Recorded'
  BY <1>1, <1>2, <1>3, <1>5, <1>6 DEF SyncInv, Recorded
<1> QED BY <1>1, <1>7 DEF SyncInv, ForceOK, SendOK

LEMMA SyncInvStep == Typed /\ SyncInv /\ [Next]_vars => SyncInv'
<1>1. Typed /\ SyncInv /\ UNCHANGED vars => SyncInv'
  BY QuietSync DEF vars, lpos, lpShare, ghosts
<1> QED BY <1>1, StaffSync, ClientSync, PullSync, ShareSteps, ThreadSync, AbandonSync DEF Next

\* InSync of ShareSync: whichever requests of syncShareAppOnce fail or lose their answers, an
\* asset whose recorded push is its thread in LPOS shows that thread to its clients, once
\* nothing of theirs is on its way and no push of it went wrong since the last answered one.
THEOREM SidesAgree == Spec => []InSync
<1>1. Init => SyncInv
  BY DEF Init, Resting, SyncInv, Recorded, InDoubt, ForceOK, SendOK
<1>2. Typed /\ SyncInv => InSync
  <2> SUFFICES ASSUME Typed, SyncInv, NEW a \in Assets \ (unsure \cup tick.asset), hashed[a] = {View(a)},
                      ~Underway(a)
               PROVE  Shown(a) = View(a)
    BY DEF InSync
  <2>1. a \notin InDoubt
    BY DEF InDoubt
  <2> QED BY <2>1 DEF SyncInv, Recorded
<1> QED BY AlwaysTyped, SyncInvStep, <1>1, <1>2, PTL DEF Spec
=============================================================================
