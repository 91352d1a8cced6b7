-------------------------- MODULE ColdStorage_proofs --------------------------
(***************************************************************************)
(* Theorems of ColdStorage, for every set of files, every retention time    *)
(* and any number of runs, purges, failures and restarts.                   *)
(***************************************************************************)
EXTENDS ColdStorage, TLAPS

-----------------------------------------------------------------------------
(* The inductive invariant: what the table, the listing a run holds and the *)
(* uploads it waits for have to do with the bucket.                         *)

\* The object was in the bucket at time t, and only a purge took it out since.
Held(k, t) == bucket[k] # 0 \/ purgedAt[k] >= t

\* A row written by no later run than one that began at `top'.
RowOK(k, row, top) ==
  /\ row \in RowType
  /\ row.seen <= top /\ row.uploaded <= top
  /\ row.missing # 0 => row.seen < row.missing
  /\ Active(row) => Held(k, row.seen) /\ Held(k, row.uploaded)

Top == IF run.pc = "idle" THEN now ELSE run.start

RowsOK == \A k \in Keys : RowOK(k, rows[k], Top)

ListingOK == \A k \in Keys : run.objects[k] # 0 => Held(k, run.start)

PutOK == run.pc = "put" => \A k \in run.uploading : Held(k, run.start)

\* What a run has in hand at each await, and when it began.
Shape ==
  /\ run.start <= now
  /\ run.pc \in {"list", "listed"} => run.dirs = Dirs
  /\ run.pc \in {"idle", "list", "listed", "collect"} => run.uploading = {} /\ run.todo = {}
  /\ \A i, j \in run.uploading : i = j
  /\ run.pc \in {"upload", "put"} => run.dir = {}

SteadyThere == \A k \in steady : source[k] # 0

\* A run in which nothing failed has seen, or has still to visit, every steady file.
Covers ==
  run.pc # "idle" /\ run.clean =>
    \A k \in steady : \/ rows[k].seen = run.start
                      \/ k \in run.todo \cup run.uploading
                      \/ DirOf[k] \in run.dirs \cup run.dir

ColdInv == TypeOK /\ RowsOK /\ ListingOK /\ PutOK /\ Shape /\ SteadyThere /\ Covers

-----------------------------------------------------------------------------
(* The statements on a row keep it in order. *)

LEMMA SeenRow ==
  ASSUME NEW k \in Keys, NEW row, NEW t \in Nat, RowOK(k, row, t), Held(k, t),
         purgedAt[k] \in Nat
  PROVE  RowOK(k, Seen(row, t), t) /\ Seen(row, t).seen = t /\ Seen(row, t).missing = 0
<1>1. Held(k, row.uploaded)
  BY DEF RowOK, RowType, Held
<1>2. QED
  BY <1>1 DEF RowOK, Seen, RowType, Active

LEMMA BootstrappedRow ==
  ASSUME NEW k \in Keys, NEW row, NEW t \in Nat, RowOK(k, row, t), Held(k, t),
         purgedAt[k] \in Nat
  PROVE  RowOK(k, Bootstrapped(row, t), t)
<1>1. CASE row.tracked
  BY <1>1 DEF Bootstrapped
<1>2. CASE ~row.tracked
  <2>1. Bootstrapped(row, t) =
          [tracked |-> TRUE, uploaded |-> t, seen |-> 0, missing |-> 0, deleted |-> 0]
    BY <1>2 DEF Bootstrapped, Untracked
  <2>2. QED
    BY <2>1 DEF RowOK, RowType, Held
<1>3. QED
  BY <1>1, <1>2

LEMMA StampedRow ==
  ASSUME NEW k \in Keys, NEW row, NEW t \in Nat, RowOK(k, row, t)
  PROVE  /\ RowOK(k, Stamped(row, t), t)
         /\ Active(Stamped(row, t)) => Active(row)
         /\ row.seen = t => Stamped(row, t) = row
BY DEF RowOK, Stamped, RowType, Active

LEMMA PrunedRow ==
  ASSUME NEW k \in Keys, NEW row, NEW t \in Nat, RowOK(k, row, t)
  PROVE  /\ RowOK(k, Pruned(row, t), t)
         /\ Active(Pruned(row, t)) => Pruned(row, t) = row
<1>1. Untracked \in RowType /\ ~Active(Untracked) /\ Untracked.seen = 0
        /\ Untracked.uploaded = 0 /\ Untracked.missing = 0
  BY DEF Untracked, RowType, Active
<1>2. CASE Pruned(row, t) = row
  BY <1>2
<1>3. CASE Pruned(row, t) = Untracked
  BY <1>1, <1>3 DEF RowOK
<1>4. QED
  BY <1>2, <1>3 DEF Pruned

LEMMA DeletedRow ==
  ASSUME NEW k \in Keys, NEW row, NEW top \in Nat, NEW t \in Nat \ {0}, RowOK(k, row, top)
  PROVE  RowOK(k, Deleted(row, t), top) /\ (row.seen = Deleted(row, t).seen)
BY DEF RowOK, Deleted, RowType, Active

\* A later time is as good a bound, and what was held stays held.
LEMMA Later_ ==
  ASSUME NEW k \in Keys, NEW row, NEW s \in Nat, NEW t \in Nat, s <= t, RowOK(k, row, s)
  PROVE  RowOK(k, row, t)
BY DEF RowOK, RowType

LEMMA HeldOn ==
  ASSUME NEW k \in Keys, NEW t \in Nat, Held(k, t),
         purgedAt \in [Keys -> Nat], now \in Nat, t <= now,
         \/ bucket'[k] # 0
         \/ bucket'[k] = bucket[k] /\ purgedAt'[k] = purgedAt[k]
         \/ purgedAt'[k] = now
  PROVE  Held(k, t)'
BY DEF Held

\* A row stays in order when its object is put in place, kept or purged now.
LEMMA RowOn ==
  ASSUME NEW k \in Keys, NEW row, NEW top \in Nat, RowOK(k, row, top), top <= now,
         purgedAt \in [Keys -> Nat], now \in Nat,
         \/ bucket'[k] # 0
         \/ bucket'[k] = bucket[k] /\ purgedAt'[k] = purgedAt[k]
         \/ purgedAt'[k] = now
  PROVE  /\ row.seen <= top /\ row.uploaded <= top /\ row \in RowType
         /\ row.missing # 0 => row.seen < row.missing
         /\ Active(row) => Held(k, row.seen)' /\ Held(k, row.uploaded)'
<1>1. row.seen \in Nat /\ row.uploaded \in Nat /\ row.seen <= now /\ row.uploaded <= now
  BY DEF RowOK, RowType
<1>2. QED
  BY <1>1, HeldOn DEF RowOK

LEMMA SeenTable ==
  ASSUME ColdInv, run.pc # "idle", NEW S \in SUBSET Keys, \A k \in S : Held(k, run.start)
  PROVE  \A k \in Keys : /\ RowOK(k, SeenAll(S, run.start)[k], run.start)
                         /\ k \in S => SeenAll(S, run.start)[k].seen = run.start
                         /\ k \in S => SeenAll(S, run.start)[k].missing = 0
                         /\ k \notin S => SeenAll(S, run.start)[k] = rows[k]
<1> TAKE k \in Keys
<1>1. RowOK(k, rows[k], run.start) /\ run.start \in Nat /\ purgedAt[k] \in Nat
  BY DEF ColdInv, RowsOK, Top, TypeOK, RunType
<1>2. CASE k \in S
  BY <1>1, <1>2, SeenRow DEF SeenAll
<1>3. CASE k \notin S
  BY <1>1, <1>3 DEF SeenAll
<1>4. QED
  BY <1>2, <1>3

LEMMA NoRunType == NoRun \in RunType
BY DEF NoRun, RunType, RunPcs, NoObjects

LEMMA NoPurgeType == NoPurge \in PurgeType
BY DEF NoPurge, PurgeType

\* The last steps of a run, from a table in order.
LEMMA FinishInv ==
  ASSUME ColdInv, run.pc # "idle", NEW table, NEW c \in BOOLEAN,
         \A k \in Keys : RowOK(k, table[k], run.start), table = [k \in Keys |-> table[k]],
         Finish(table, c), UNCHANGED bucket, Elsewhere
  PROVE  ColdInv'
<1>0. TypeOK /\ Shape /\ run.start \in Nat /\ run.start <= now /\ now \in Nat
  BY DEF ColdInv, TypeOK, RunType, Shape
<1>1. rows' = [k \in Keys |-> rows'[k]] /\ \A k \in Keys : RowOK(k, rows'[k], run.start)
  <2>1. CASE c
    BY <2>1 DEF Finish
  <2>2. CASE ~c
    <3>1. rows' = [k \in Keys |-> Pruned(Stamped(table[k], run.start), run.start)]
      BY <2>2 DEF Finish
    <3>2. ASSUME NEW k \in Keys
          PROVE  RowOK(k, Pruned(Stamped(table[k], run.start), run.start), run.start)
      BY <1>0, StampedRow, PrunedRow
    <3>3. QED
      BY <3>1, <3>2
  <2>3. QED
    BY <2>1, <2>2
<1>2. run' = NoRun /\ NoRun.pc = "idle" /\ NoRun.start = 0 /\ NoRun.uploading = {} /\ NoRun.todo = {}
        /\ \A k \in Keys : NoRun.objects[k] = 0
  BY DEF Finish, NoRun, NoObjects
<1>3. TypeOK'
  <2>1. rows' \in [Keys -> RowType]
    BY <1>1 DEF RowOK
  <2>2. cancelRequested' \in BOOLEAN
    BY <1>0 DEF Finish, TypeOK
  <2>3. run' \in RunType
    BY <1>2, NoRunType
  <2>4. QED
    BY <1>0, <2>1, <2>2, <2>3 DEF TypeOK, Elsewhere
<1>4. RowsOK'
  <2> SUFFICES ASSUME NEW k \in Keys PROVE RowOK(k, rows[k], Top)'
    BY DEF RowsOK
  <2>1. RowOK(k, rows'[k], run.start)
    BY <1>1
  <2>2. RowOK(k, rows'[k], now)
    BY <1>0, <2>1, Later_
  <2>3. Top' = now
    BY <1>2 DEF Top, Elsewhere
  <2>4. QED
    BY <2>2, <2>3 DEF RowOK, Held, Elsewhere
<1>5. ListingOK' /\ PutOK' /\ Shape' /\ Covers'
  BY <1>0, <1>2 DEF Elsewhere, ListingOK, PutOK, Shape, Covers
<1>6. SteadyThere'
  BY DEF ColdInv, SteadyThere, Elsewhere
<1>7. QED
  BY <1>3, <1>4, <1>5, <1>6 DEF ColdInv

\* The walk up to its next await, from a run record that covers the steady files.
LEMMA ProceedInv ==
  ASSUME ColdInv, run.pc # "idle", NEW r \in RunType, NEW S \in SUBSET Keys,
         r.start = run.start, r.objects = run.objects, r.dir = {},
         \A k \in S : Held(k, run.start),
         r.clean => \A k \in steady : \/ rows[k].seen = run.start
                                      \/ k \in S \cup r.todo
                                      \/ DirOf[k] \in r.dirs,
         Proceed(r, S), UNCHANGED bucket, Elsewhere
  PROVE  ColdInv'
<1>0. /\ TypeOK /\ Shape /\ SteadyThere /\ ListingOK
      /\ run.start \in Nat /\ run.start <= now /\ now \in Nat
      /\ source \in [Keys -> Sizes \cup {0}]
  BY DEF ColdInv, TypeOK, RunType, Shape
<1> DEFINE There(V) == {v \in V : source[v] # 0}
<1>1. \A k \in Quiet(r) : k \in Keys /\ k \in r.todo /\ (source[k] # 0 => Held(k, run.start))
  BY <1>0 DEF Quiet, RunType, ListingOK
<1>2. ASSUME NEW V \in SUBSET Quiet(r)
      PROVE  S \cup There(V) \in SUBSET Keys /\ \A k \in S \cup There(V) : Held(k, run.start)
  BY <1>1, <1>2
<1>3. ASSUME NEW table, NEW c \in BOOLEAN, NEW V \in SUBSET Quiet(r), NEW U \in SUBSET Keys,
             U = S \/ U = S \cup There(V), table = SeenAll(U, run.start), Finish(table, c)
      PROVE  ColdInv'
  <2>1. \A k \in U : Held(k, run.start)
    BY <1>2, <1>3
  <2>2. \A k \in Keys : RowOK(k, table[k], run.start)
    BY <1>3, <2>1, SeenTable
  <2>3. table = [k \in Keys |-> table[k]]
    BY <1>3 DEF SeenAll
  <2>4. QED
    BY <1>3, <2>2, <2>3, FinishInv
\* the walk goes on: a table in order, and a run record that covers what is left
<1>4. ASSUME NEW V \in SUBSET Quiet(r), NEW s \in RunType,
             rows' = SeenAll(S \cup There(V), run.start), run' = s,
             s.pc \in {"collect", "upload"}, s.start = run.start, s.objects = run.objects,
             s.pc = "collect" => s.uploading = {} /\ s.todo = {}, s.clean = r.clean,
             \A k \in r.todo : k \in V \/ k \in s.todo \cup s.uploading,
             r.dirs \subseteq s.dirs \cup s.dir, s.pc = "upload" => s.dir = {},
             \A i, j \in s.uploading : i = j,
             UNCHANGED cancelRequested
      PROVE  ColdInv'
  <2> DEFINE U == S \cup There(V)
  <2>1. /\ U \in SUBSET Keys
        /\ \A k \in U : Held(k, run.start)
    BY <1>2
  <2> HIDE DEF U
  <2>2. \A k \in Keys : /\ RowOK(k, SeenAll(U, run.start)[k], run.start)
                        /\ k \in U => SeenAll(U, run.start)[k].seen = run.start
                        /\ k \notin U => SeenAll(U, run.start)[k] = rows[k]
    BY <2>1, SeenTable
  <2>3. rows' = SeenAll(U, run.start)
    BY <1>4 DEF U
  <2>4. TypeOK'
    <3>1. rows' \in [Keys -> RowType]
      BY <2>2, <2>3 DEF RowOK, SeenAll
    <3>2. QED
      BY <1>0, <1>4, <3>1 DEF TypeOK, Elsewhere
  <2>5. RowsOK'
    <3> SUFFICES ASSUME NEW k \in Keys PROVE RowOK(k, rows[k], Top)'
      BY DEF RowsOK
    <3>1. RowOK(k, rows'[k], run.start)
      BY <2>2, <2>3
    <3>2. Top' = run.start
      BY <1>4 DEF Top
    <3>3. QED
      BY <3>1, <3>2 DEF RowOK, Held, Elsewhere
  <2>6. ListingOK' /\ PutOK'
    BY <1>0, <1>4 DEF ListingOK, PutOK, Held, Elsewhere
  <2>7. Shape' /\ SteadyThere'
    BY <1>0, <1>4 DEF Shape, SteadyThere, Elsewhere
  <2>8. Covers'
    <3> SUFFICES ASSUME s.clean, NEW k \in steady
                 PROVE  \/ rows'[k].seen = run.start
                        \/ k \in s.todo \cup s.uploading
                        \/ DirOf[k] \in s.dirs \cup s.dir
      BY <1>4 DEF Covers, Elsewhere
    <3>1. k \in Keys /\ source[k] # 0
      BY <1>0 DEF TypeOK, SteadyThere
    <3>2. CASE k \in U
      BY <2>2, <2>3, <3>1, <3>2
    <3>3. CASE k \notin U
      <4>1. rows'[k] = rows[k]
        BY <2>2, <2>3, <3>1, <3>3
      <4>2. k \notin S /\ k \notin V
        BY <3>1, <3>3 DEF U
      <4>3. QED
        BY <1>4, <4>1, <4>2
    <3>4. QED
      BY <3>2, <3>3
  <2>9. QED
    BY <2>4, <2>5, <2>6, <2>7, <2>8 DEF ColdInv
<1> DEFINE leave == cancelRequested /\ (r.todo # {} \/ r.dirs # {})
<1>5. CASE leave /\ Finish(SeenAll(S, r.start), TRUE)
  BY <1>3, <1>5
<1>6. ASSUME NEW V \in SUBSET Quiet(r), NEW k \in r.todo \ Quiet(r),
             rows' = SeenAll(S \cup There(V), r.start),
             run' = [r EXCEPT !.pc = "upload", !.todo = @ \ (V \cup {k}),
                              !.uploading = {k}, !.size = source[k]],
             UNCHANGED cancelRequested
      PROVE  ColdInv'
  <2> DEFINE s == [r EXCEPT !.pc = "upload", !.todo = @ \ (V \cup {k}),
                            !.uploading = {k}, !.size = source[k]]
  <2>1. k \in Keys /\ source[k] \in Sizes \cup {0}
    BY <1>0 DEF RunType
  <2>2. s \in RunType
    BY <2>1 DEF RunType, RunPcs
  <2>3. /\ s.pc = "upload" /\ s.start = r.start /\ s.objects = r.objects /\ s.clean = r.clean
        /\ s.todo = r.todo \ (V \cup {k}) /\ s.uploading = {k} /\ s.dirs = r.dirs
        /\ s.dir = {}
    BY DEF RunType
  <2>4. run' = s /\ rows' = SeenAll(S \cup There(V), run.start)
    BY <1>6
  <2> HIDE DEF s
  <2>5. QED
    BY <1>4, <1>6, <2>2, <2>3, <2>4
<1>7. ASSUME NEW d \in r.dirs, r.todo = Quiet(r),
             rows' = SeenAll(S \cup There(r.todo), r.start),
             run' = [r EXCEPT !.pc = "collect", !.todo = {}, !.dirs = @ \ {d}, !.dir = {d},
                              !.uploading = {}, !.size = 0],
             UNCHANGED cancelRequested
      PROVE  ColdInv'
  <2> DEFINE s == [r EXCEPT !.pc = "collect", !.todo = {}, !.dirs = @ \ {d}, !.dir = {d},
                            !.uploading = {}, !.size = 0]
  <2>2. s \in RunType
    BY DEF RunType, RunPcs
  <2>3. /\ s.pc = "collect" /\ s.start = r.start /\ s.objects = r.objects /\ s.clean = r.clean
        /\ s.todo = {} /\ s.uploading = {} /\ s.dirs = r.dirs \ {d} /\ s.dir = {d}
    BY DEF RunType
  <2>4. run' = s /\ rows' = SeenAll(S \cup There(r.todo), run.start)
    BY <1>7
  <2>6. r.todo \in SUBSET Quiet(r)
    BY <1>7
  <2> HIDE DEF s
  <2>5. QED
    BY <1>4, <1>7, <2>2, <2>3, <2>4, <2>6
<1>8. CASE r.todo = Quiet(r) /\ Finish(SeenAll(S \cup There(r.todo), r.start), FALSE)
  <2>1. r.todo \in SUBSET Quiet(r)
    BY <1>8
  <2>2. S \cup There(r.todo) \in SUBSET Keys
    BY <1>2, <2>1
  <2>3. QED
    BY <1>3, <1>8, <2>1, <2>2
<1>9. QED
  BY <1>5, <1>6, <1>7, <1>8 DEF Proceed

-----------------------------------------------------------------------------
(* One lemma per action or group of actions. *)

\* A step that leaves the run, the table's times and the steady files in place.
LEMMA AsideInv ==
  ASSUME ColdInv, TypeOK', UNCHANGED <<run, source, now, steady>>,
         \A k \in Keys : \/ rows'[k] = rows[k]
                         \/ RowOK(k, rows'[k], Top) /\ rows'[k].seen = rows[k].seen,
         \A k \in Keys : \/ bucket'[k] # 0
                         \/ bucket'[k] = bucket[k] /\ purgedAt'[k] = purgedAt[k]
                         \/ purgedAt'[k] = now
  PROVE  ColdInv'
<1>0. /\ TypeOK /\ RowsOK /\ ListingOK /\ PutOK /\ Shape /\ SteadyThere /\ Covers
      /\ purgedAt \in [Keys -> Nat] /\ now \in Nat /\ run.start \in Nat
      /\ Top \in Nat /\ Top <= now /\ Top' = Top
      /\ run.start <= now
  BY DEF ColdInv, TypeOK, RunType, Shape, Top
<1>1. RowsOK'
  <2> SUFFICES ASSUME NEW k \in Keys PROVE RowOK(k, rows[k], Top)'
    BY DEF RowsOK
  <2>1. RowOK(k, rows'[k], Top)
    BY <1>0 DEF RowsOK
  <2>2. QED
    BY <1>0, <2>1, RowOn DEF RowOK
<1>2. ListingOK'
  <2> SUFFICES ASSUME NEW k \in Keys, run.objects[k] # 0 PROVE Held(k, run.start)'
    BY DEF ListingOK
  <2>1. Held(k, run.start)
    BY <1>0 DEF ListingOK
  <2>2. QED
    BY <1>0, <2>1, HeldOn
<1>3. PutOK'
  <2> SUFFICES ASSUME run.pc = "put", NEW k \in run.uploading PROVE Held(k, run.start)'
    BY DEF PutOK
  <2>1. Held(k, run.start) /\ k \in Keys
    BY <1>0 DEF PutOK, TypeOK, RunType
  <2>2. QED
    BY <1>0, <2>1, HeldOn
<1>4. Shape' /\ SteadyThere'
  BY <1>0 DEF Shape, SteadyThere
<1>5. Covers'
  BY <1>0 DEF Covers, TypeOK
<1>6. QED
  BY <1>1, <1>2, <1>3, <1>4, <1>5 DEF ColdInv

LEMMA BeginInv == ColdInv /\ Begin => ColdInv'
<1> SUFFICES ASSUME ColdInv, Begin PROVE ColdInv'
  OBVIOUS
<1>0. TypeOK /\ RowsOK /\ now \in Nat /\ Top \in Nat /\ Top <= now /\ now + 1 \in Nat
  BY DEF ColdInv, TypeOK, RunType, Shape, Top
<1> DEFINE s == [NoRun EXCEPT !.pc = "list", !.start = now + 1, !.dirs = Dirs]
<1>1. /\ s \in RunType /\ s.pc = "list" /\ s.start = now + 1 /\ s.dirs = Dirs
      /\ s.uploading = {} /\ s.todo = {} /\ s.dir = {} /\ \A k \in Keys : s.objects[k] = 0
  BY <1>0 DEF NoRun, NoObjects, RunType, RunPcs
<1>2. /\ run' = s /\ now' = now + 1 /\ cancelRequested' = FALSE
      /\ steady' = {k \in Keys : source[k] # 0}
      /\ UNCHANGED <<source, bucket, rows, purges, bulk, purgedAt>>
  BY DEF Begin
<1> HIDE DEF s
<1>3. TypeOK'
  <2>1. now' \in Nat \ {0} /\ steady' \in SUBSET Keys
    BY <1>0, <1>2
  <2>2. run' \in RunType
    BY <1>1, <1>2
  <2>3. QED
    BY <1>0, <1>2, <2>1, <2>2 DEF TypeOK
<1>4. RowsOK'
  <2> SUFFICES ASSUME NEW k \in Keys PROVE RowOK(k, rows[k], Top)'
    BY DEF RowsOK
  <2>1. RowOK(k, rows[k], now + 1)
    BY <1>0, Later_ DEF RowsOK
  <2>2. Top' = now + 1
    BY <1>1, <1>2 DEF Top
  <2>3. QED
    BY <1>2, <2>1, <2>2 DEF RowOK, Held
<1>5. ListingOK' /\ PutOK' /\ Shape'
  BY <1>0, <1>1, <1>2 DEF ListingOK, PutOK, Shape
<1>6. SteadyThere' /\ Covers'
  <2>1. \A k \in steady' : k \in Keys /\ source'[k] # 0 /\ DirOf[k] \in s.dirs
    BY <1>1, <1>2 DEF Dirs
  <2>2. QED
    BY <1>2, <2>1 DEF SteadyThere, Covers
<1>7. QED
  BY <1>3, <1>4, <1>5, <1>6 DEF ColdInv

LEMMA ListReadInv == ColdInv /\ ListRead => ColdInv'
<1> SUFFICES ASSUME ColdInv, ListRead PROVE ColdInv'
  OBVIOUS
<1>0. TypeOK /\ RowsOK /\ Shape /\ Covers
  BY DEF ColdInv
<1> DEFINE s == [run EXCEPT !.pc = "listed", !.objects = bucket]
<1>1. /\ s \in RunType /\ s.pc = "listed" /\ s.start = run.start /\ s.dirs = run.dirs
      /\ s.uploading = run.uploading /\ s.todo = run.todo /\ s.dir = run.dir
      /\ s.clean = run.clean /\ s.objects = bucket
  BY <1>0 DEF TypeOK, RunType, RunPcs
<1>2. run' = s /\ run.pc = "list"
  BY DEF ListRead
<1> HIDE DEF s
<1>3. TypeOK'
  BY <1>0, <1>1, <1>2 DEF TypeOK, ListRead, store
<1>4. RowsOK'
  BY <1>0, <1>1, <1>2 DEF RowsOK, RowOK, Held, Top, ListRead, store
<1>5. ListingOK' /\ PutOK'
  BY <1>1, <1>2 DEF ListingOK, PutOK, Held, ListRead, store
<1>6. Shape' /\ SteadyThere'
  BY <1>0, <1>1, <1>2 DEF ColdInv, Shape, SteadyThere, ListRead, store
<1>7. Covers'
  BY <1>0, <1>1, <1>2 DEF Covers, ListRead, store
<1>8. QED
  BY <1>3, <1>4, <1>5, <1>6, <1>7 DEF ColdInv

LEMMA ListAnsweredInv == ColdInv /\ ListAnswered => ColdInv'
<1> SUFFICES ASSUME ColdInv, ListAnswered PROVE ColdInv'
  OBVIOUS
<1>0. /\ TypeOK /\ RowsOK /\ ListingOK /\ Shape /\ Covers /\ run.pc = "listed"
      /\ run.start \in Nat /\ run.todo = {} /\ run.uploading = {}
  BY DEF ColdInv, ListAnswered, TypeOK, RunType, Shape
<1> DEFINE leave == cancelRequested /\ run.dirs # {}
           table == [k \in Keys |-> IF run.objects[k] # 0 THEN Bootstrapped(rows[k], run.start)
                                    ELSE rows[k]]
<1>1. \A k \in Keys : RowOK(k, table[k], run.start)
  <2> TAKE k \in Keys
  <2>1. RowOK(k, rows[k], run.start) /\ purgedAt[k] \in Nat
    BY <1>0 DEF RowsOK, Top, TypeOK
  <2>2. CASE run.objects[k] # 0
    BY <1>0, <2>1, <2>2, BootstrappedRow DEF ListingOK
  <2>3. CASE run.objects[k] = 0
    BY <2>1, <2>3
  <2>4. QED
    BY <2>2, <2>3
<1>2. \A k \in Keys : table[k].seen = rows[k].seen \/ rows[k].seen # run.start \/ ~rows[k].tracked
  BY DEF Bootstrapped
<1>3. CASE leave /\ Finish(table, TRUE)
  <2>1. table = [k \in Keys |-> table[k]]
    OBVIOUS
  <2>2. UNCHANGED bucket /\ Elsewhere
    BY DEF ListAnswered
  <2> HIDE DEF table
  <2>3. QED
    BY <1>0, <1>1, <1>3, <2>1, <2>2, FinishInv
<1>4. ASSUME rows' = table, NEW d \in run.dirs,
             run' = [run EXCEPT !.pc = "collect", !.dirs = @ \ {d}, !.dir = {d}],
             UNCHANGED <<cancelRequested, bucket>>, Elsewhere
      PROVE  ColdInv'
  <2> DEFINE s == [run EXCEPT !.pc = "collect", !.dirs = @ \ {d}, !.dir = {d}]
  <2>1. /\ s \in RunType /\ s.pc = "collect" /\ s.start = run.start /\ s.objects = run.objects
        /\ s.todo = {} /\ s.uploading = {} /\ s.dirs = run.dirs \ {d} /\ s.dir = {d}
    BY <1>0 DEF TypeOK, RunType, RunPcs
  <2>2. run' = s
    BY <1>4
  <2> HIDE DEF s, table
  <2>3. table \in [Keys -> RowType]
    BY <1>1 DEF RowOK, table
  <2>4. TypeOK'
    BY <1>0, <1>4, <2>1, <2>2, <2>3 DEF TypeOK, Elsewhere
  <2>5. RowsOK'
    BY <1>1, <1>4, <2>1, <2>2 DEF RowsOK, RowOK, Held, Top, Elsewhere
  <2>6. ListingOK' /\ PutOK'
    BY <1>0, <1>4, <2>1, <2>2 DEF ListingOK, PutOK, Held, Elsewhere
  <2>7. Shape' /\ SteadyThere'
    BY <1>0, <1>4, <2>1, <2>2 DEF ColdInv, Shape, SteadyThere, Elsewhere
  <2>8. Covers'
    BY <1>0, <1>4, <2>1, <2>2 DEF Covers, Shape, Dirs, Elsewhere, TypeOK
  <2>9. QED
    BY <2>4, <2>5, <2>6, <2>7, <2>8 DEF ColdInv
<1>5. QED
  BY <1>3, <1>4 DEF ListAnswered

LEMMA ListFailsInv == ColdInv /\ ListFails => ColdInv'
<1> SUFFICES ASSUME ColdInv, ListFails PROVE ColdInv'
  OBVIOUS
<1>1. \A k \in Keys : RowOK(k, rows[k], run.start)
  BY DEF ColdInv, RowsOK, Top, ListFails
<1>2. rows = [k \in Keys |-> rows[k]] /\ run.pc # "idle"
  BY DEF ColdInv, TypeOK, ListFails
<1>3. QED
  BY <1>1, <1>2, FinishInv DEF ListFails

\* collectFiles returned some files of the directory, all of them in a clean run.
LEMMA CollectedAs ==
  ASSUME ColdInv, run.pc = "collect", NEW F \in SUBSET Found, NEW r,
         r \in RunType, r.start = run.start, r.objects = run.objects, r.dir = {},
         r.todo = F, r.dirs = run.dirs, r.clean => F = Found /\ run.clean,
         Proceed(r, {}), UNCHANGED bucket, Elsewhere
  PROVE  ColdInv'
<1>0. TypeOK /\ Covers /\ Shape /\ SteadyThere
  BY DEF ColdInv
<1>1. r.clean => \A k \in steady : \/ rows[k].seen = run.start
                                  \/ k \in {} \cup r.todo
                                  \/ DirOf[k] \in r.dirs
  <2> SUFFICES ASSUME r.clean, NEW k \in steady, rows[k].seen # run.start, DirOf[k] \notin r.dirs
               PROVE  k \in r.todo
    OBVIOUS
  <2>1. run.clean /\ r.todo = Found
    OBVIOUS
  <2>2. k \in run.todo \cup run.uploading \/ DirOf[k] \in run.dirs \cup run.dir
    BY <1>0, <2>1 DEF Covers
  <2>3. DirOf[k] \in run.dir /\ k \in Keys /\ source[k] # 0
    BY <1>0, <2>2 DEF Shape, SteadyThere, TypeOK
  <2>4. QED
    BY <2>1, <2>3 DEF Found
<1>2. QED
  BY <1>1, ProceedInv

LEMMA CollectedInv == ColdInv /\ (Collected \/ CollectedLess) => ColdInv'
<1> SUFFICES ASSUME ColdInv, Collected \/ CollectedLess PROVE ColdInv'
  OBVIOUS
<1>0. run \in RunType /\ Found \subseteq Keys
  BY DEF ColdInv, TypeOK, Found
<1>1. CASE Collected
  <2> DEFINE r == [run EXCEPT !.dir = {}, !.todo = Found]
  <2>1. /\ r \in RunType /\ r.start = run.start /\ r.objects = run.objects /\ r.dir = {}
        /\ r.clean = run.clean /\ r.todo = Found /\ r.dirs = run.dirs
    BY <1>0 DEF RunType
  <2>2. run.pc = "collect" /\ Proceed(r, {}) /\ UNCHANGED bucket /\ Elsewhere
    BY <1>1 DEF Collected
  <2> HIDE DEF r
  <2>3. QED
    BY <2>1, <2>2, CollectedAs
<1>2. CASE CollectedLess
  <2>1. PICK F \in SUBSET Found \ {Found} :
          Proceed([run EXCEPT !.dir = {}, !.todo = F, !.clean = FALSE], {})
    BY <1>2 DEF CollectedLess
  <2> DEFINE r == [run EXCEPT !.dir = {}, !.todo = F, !.clean = FALSE]
  <2>2. /\ r \in RunType /\ r.start = run.start /\ r.objects = run.objects /\ r.dir = {}
        /\ r.clean = FALSE /\ r.todo = F /\ r.dirs = run.dirs
    BY <1>0 DEF RunType
  <2>3. run.pc = "collect" /\ UNCHANGED bucket /\ Elsewhere
    BY <1>2 DEF CollectedLess
  <2>4. Proceed(r, {})
    BY <2>1
  <2> HIDE DEF r
  <2>5. QED
    BY <2>2, <2>3, <2>4, CollectedAs
<1>3. QED
  BY <1>1, <1>2

LEMMA PutAppliedInv == ColdInv /\ PutApplied => ColdInv'
<1> SUFFICES ASSUME ColdInv, run.pc = "upload", NEW k \in run.uploading,
                    NEW size \in {run.size, source[k]} \ {0},
                    bucket' = [bucket EXCEPT ![k] = size],
                    purges' = [p \in Purgers |-> [purges[p] EXCEPT !.current = @ \ {k}]],
                    run' = [run EXCEPT !.pc = "put"],
                    UNCHANGED <<source, rows, now, cancelRequested, bulk,
                                purgedAt, steady>>
             PROVE  ColdInv'
  BY DEF PutApplied
<1>0. TypeOK /\ RowsOK /\ ListingOK /\ Shape /\ SteadyThere /\ Covers /\ run \in RunType
  BY DEF ColdInv, TypeOK
<1>1. /\ run'.pc = "put" /\ run'.start = run.start /\ run'.objects = run.objects
      /\ run'.dirs = run.dirs /\ run'.dir = run.dir /\ run'.todo = run.todo
      /\ run'.uploading = run.uploading /\ run'.clean = run.clean /\ run' \in RunType
  BY <1>0 DEF RunType, RunPcs
<1>2. k \in Keys /\ size \in Sizes /\ size # 0
  BY <1>0 DEF RunType, TypeOK
<1>3. purges' \in [Purgers -> PurgeType]
  <2>1. ASSUME NEW p \in Purgers PROVE [purges[p] EXCEPT !.current = @ \ {k}] \in PurgeType
    <3>1. purges[p] \in PurgeType
      BY <1>0 DEF TypeOK
    <3>2. QED
      BY <3>1 DEF PurgeType
  <2>2. QED
    BY <2>1
<1>4. TypeOK'
  BY <1>0, <1>1, <1>2, <1>3 DEF TypeOK
<1>5. bucket \in [Keys -> Sizes \cup {0}] /\ \A i \in Keys : bucket[i] # 0 => bucket'[i] # 0
  BY <1>0, <1>2 DEF TypeOK
<1>6. RowsOK' /\ ListingOK'
  BY <1>0, <1>1, <1>5 DEF RowsOK, RowOK, ListingOK, Held, Top
<1>7. PutOK'
  <2>1. run.uploading \subseteq Keys /\ purgedAt \in [Keys -> Nat]
    BY <1>0 DEF RunType, TypeOK
  <2>2. run.uploading = {k}
    BY <1>0, <2>1 DEF Shape
  <2>3. QED
    BY <1>1, <1>2, <1>5, <2>2 DEF PutOK, Held
<1>8. Shape' /\ SteadyThere' /\ Covers'
  BY <1>0, <1>1 DEF Shape, SteadyThere, Covers
<1>9. QED
  BY <1>4, <1>6, <1>7, <1>8 DEF ColdInv

LEMMA PutAnsweredInv == ColdInv /\ PutAnswered => ColdInv'
<1> SUFFICES ASSUME ColdInv, PutAnswered PROVE ColdInv'
  OBVIOUS
<1>0. TypeOK /\ Covers /\ Shape /\ PutOK /\ run \in RunType /\ run.uploading \subseteq Keys
  BY DEF ColdInv, TypeOK, RunType
<1> DEFINE r == [run EXCEPT !.uploading = {}, !.size = 0]
<1>1. /\ r \in RunType /\ r.start = run.start /\ r.objects = run.objects /\ r.dir = run.dir
      /\ r.clean = run.clean /\ r.todo = run.todo /\ r.dirs = run.dirs
  BY <1>0 DEF RunType
<1>2. run.pc = "put" /\ Proceed(r, run.uploading) /\ UNCHANGED bucket /\ Elsewhere
  BY DEF PutAnswered
<1> HIDE DEF r
<1>3. run.pc # "idle" /\ r.dir = {} /\ \A k \in run.uploading : Held(k, run.start)
  BY <1>0, <1>1, <1>2 DEF Shape, PutOK
<1>4. r.clean => \A k \in steady : \/ rows[k].seen = run.start
                                  \/ k \in run.uploading \cup r.todo
                                  \/ DirOf[k] \in r.dirs
  BY <1>0, <1>1, <1>2, <1>3 DEF Covers
<1>5. QED
  BY <1>0, <1>1, <1>2, <1>3, <1>4, ProceedInv

LEMMA PutFailsInv == ColdInv /\ PutFails => ColdInv'
<1> SUFFICES ASSUME ColdInv, PutFails PROVE ColdInv'
  OBVIOUS
<1>0. TypeOK /\ RowsOK /\ Shape /\ run \in RunType /\ run.pc \in {"upload", "put"}
        /\ UNCHANGED bucket /\ Elsewhere
  BY DEF ColdInv, TypeOK, PutFails
<1>1. CASE cancelRequested /\ Finish(rows, TRUE)
  <2>1. \A k \in Keys : RowOK(k, rows[k], run.start)
    BY <1>0 DEF RowsOK, Top
  <2>2. rows = [k \in Keys |-> rows[k]]
    BY <1>0 DEF TypeOK
  <2>3. QED
    BY <1>0, <1>1, <2>1, <2>2, FinishInv
<1>2. CASE Proceed([run EXCEPT !.uploading = {}, !.size = 0, !.clean = FALSE], {})
  <2> DEFINE r == [run EXCEPT !.uploading = {}, !.size = 0, !.clean = FALSE]
  <2>1. /\ r \in RunType /\ r.start = run.start /\ r.objects = run.objects /\ r.dir = {}
        /\ r.clean = FALSE
    BY <1>0 DEF RunType, Shape
  <2>2. Proceed(r, {})
    BY <1>2
  <2> HIDE DEF r
  <2>3. QED
    BY <1>0, <2>1, <2>2, ProceedInv
<1>3. QED
  BY <1>1, <1>2 DEF PutFails

\* Cancel and the calls that only start a purge.
LEMMA AskInv ==
  ColdInv /\ (Cancel \/ ApproveAll \/ (\E k \in Keys : DeleteOne(k)) \/ (\E d \in Dirs : DeletePrefix(d)))
    => ColdInv'
<1> SUFFICES ASSUME ColdInv,
                    \/ Cancel \/ ApproveAll \/ \E k \in Keys : DeleteOne(k)
                    \/ \E d \in Dirs : DeletePrefix(d)
             PROVE  ColdInv'
  OBVIOUS
<1>0. TypeOK
  BY DEF ColdInv
<1>1. \A K \in SUBSET Keys, one \in BOOLEAN : Asking(K, one) \in PurgeType
  BY DEF Asking, NoPurge, PurgeType
<1>2. UNCHANGED <<source, bucket, rows, now, run, purgedAt, steady>>
  BY DEF Cancel, ApproveAll, DeleteOne, DeletePrefix, Others, store
<1>3. cancelRequested' \in BOOLEAN /\ bulk' \subseteq Keys
  BY <1>0 DEF Cancel, ApproveAll, DeleteOne, DeletePrefix, Others, TypeOK, Review
<1>4. purges' \in [Purgers -> PurgeType]
  <2>1. CASE Cancel
    BY <1>0, <2>1 DEF Cancel, TypeOK
  <2>2. CASE ApproveAll
    <3>1. PICK k \in Review : purges' = [purges EXCEPT !["bulk"] = Asking({k}, TRUE)]
      BY <2>2 DEF ApproveAll
    <3>2. Asking({k}, TRUE) \in PurgeType
      BY <1>1 DEF Review
    <3>3. QED
      BY <1>0, <3>1, <3>2 DEF TypeOK
  <2>3. ASSUME NEW k \in Keys, DeleteOne(k) PROVE purges' \in [Purgers -> PurgeType]
    <3>1. Asking({k}, TRUE) \in PurgeType
      BY <1>1
    <3>2. QED
      BY <1>0, <2>3, <3>1 DEF TypeOK, DeleteOne
  <2>4. ASSUME NEW d \in Dirs, DeletePrefix(d) PROVE purges' \in [Purgers -> PurgeType]
    <3>1. Asking({k \in Keys : DirOf[k] = d}, FALSE) \in PurgeType
      BY <1>1
    <3>2. QED
      BY <1>0, <2>4, <3>1 DEF TypeOK, DeletePrefix
  <2>5. QED
    BY <2>1, <2>2, <2>3, <2>4
<1>5. TypeOK'
  BY <1>0, <1>2, <1>3, <1>4 DEF TypeOK
<1>6. QED
  BY <1>2, <1>5, AsideInv

LEMMA EndedType ==
  ASSUME TypeOK, NEW p \in Purgers, Ended(p)
  PROVE  purges' \in [Purgers -> PurgeType] /\ bulk' \subseteq Keys
<1>1. \A k \in Keys : Asking({k}, TRUE) \in PurgeType
  BY DEF Asking, NoPurge, PurgeType
<1>2. bulk \subseteq Keys /\ purges \in [Purgers -> PurgeType]
  BY DEF TypeOK
<1>3. ASSUME NEW k \in bulk, bulk' = bulk \ {k},
             purges' = [purges EXCEPT ![p] = Asking({k}, TRUE)]
      PROVE  purges' \in [Purgers -> PurgeType] /\ bulk' \subseteq Keys
  <2>1. Asking({k}, TRUE) \in PurgeType
    BY <1>1, <1>2
  <2>2. QED
    BY <1>2, <1>3, <2>1
<1>4. CASE purges' = [purges EXCEPT ![p] = NoPurge] /\ UNCHANGED bulk
  BY <1>2, <1>4, NoPurgeType
<1>5. QED
  BY <1>3, <1>4 DEF Ended

\* The steps of a purge, and a spare.
LEMMA PurgeInv ==
  ASSUME ColdInv, NEW p \in Purgers, PurgeStep(p)
  PROVE  ColdInv'
<1>0. TypeOK /\ RowsOK /\ purges[p] \in PurgeType /\ now \in Nat \ {0} /\ Top \in Nat
  BY DEF ColdInv, TypeOK, RunType, Top
<1>1. CASE VersionsListed(p)
  <2> DEFINE K == {k \in purges[p].keys : bucket[k] # 0}
  <2>1. purges' = [purges EXCEPT ![p].pc = "listed", ![p].hit = K, ![p].current = K]
    BY <1>1 DEF VersionsListed
  <2>2. K \subseteq Keys
    BY <1>0 DEF PurgeType
  <2> HIDE DEF K
  <2>3. purges' \in [Purgers -> PurgeType]
    BY <1>0, <2>1, <2>2 DEF TypeOK, PurgeType
  <2>4. TypeOK'
    BY <1>0, <1>1, <2>3 DEF TypeOK, VersionsListed, Others
  <2>5. QED
    BY <1>1, <2>4, AsideInv DEF VersionsListed, Others
<1>2. CASE VersionsDeleted(p)
  <2>1. PICK R, W \in SUBSET purges[p].hit, G \in SUBSET purges[p].current :
          /\ purges[p].hit \ R \subseteq W
          /\ purges[p].current \ R \subseteq G /\ G \subseteq W
          /\ bucket' = [k \in Keys |-> IF k \in G THEN 0 ELSE bucket[k]]
          /\ purgedAt' = [k \in Keys |-> IF k \in G THEN now ELSE purgedAt[k]]
          /\ purges' = [q \in Purgers |->
               IF q = p
               THEN [purges[p] EXCEPT !.pc = "deleted", !.current = {}, !.refused = R, !.went = W]
               ELSE [purges[q] EXCEPT !.current = @ \ G]]
    BY <1>2 DEF VersionsDeleted
  <2>3. bucket' \in [Keys -> Sizes \cup {0}] /\ purgedAt' \in [Keys -> Nat]
    BY <1>0, <2>1 DEF TypeOK
  <2>4. purges' \in [Purgers -> PurgeType]
    <3>1. R \subseteq Keys /\ W \subseteq Keys
      BY <1>0 DEF PurgeType
    <3>2. [purges[p] EXCEPT !.pc = "deleted", !.current = {}, !.refused = R, !.went = W] \in PurgeType
      BY <1>0, <3>1 DEF PurgeType
    <3>3. ASSUME NEW q \in Purgers PROVE [purges[q] EXCEPT !.current = @ \ G] \in PurgeType
      <4>1. purges[q] \in PurgeType
        BY <1>0 DEF TypeOK
      <4>2. QED
        BY <4>1 DEF PurgeType
    <3>4. QED
      BY <2>1, <3>2, <3>3
  <2>5. UNCHANGED <<source, now, run, cancelRequested, steady, rows, bulk>>
    BY <1>2 DEF VersionsDeleted, Others
  <2>6. TypeOK'
    BY <1>0, <2>3, <2>4, <2>5 DEF TypeOK
  <2>7. \A k \in Keys : \/ bucket'[k] = bucket[k] /\ purgedAt'[k] = purgedAt[k]
                        \/ purgedAt'[k] = now
    BY <2>1
  <2>8. QED
    BY <2>5, <2>6, <2>7, AsideInv
<1>3. CASE Purged(p)
  <2>1. /\ rows' = [k \in Keys |-> IF k \in StampedBy(purges[p]) THEN Deleted(rows[k], now)
                                   ELSE rows[k]]
        /\ Ended(p)
        /\ UNCHANGED <<source, now, run, cancelRequested, steady, bucket, purgedAt>>
    BY <1>3 DEF Purged, Others
  <2>2. ASSUME NEW k \in Keys
        PROVE  RowOK(k, rows'[k], Top) /\ rows'[k].seen = rows[k].seen
    <3>1. RowOK(k, rows[k], Top)
      BY <1>0 DEF RowsOK
    <3>2. RowOK(k, Deleted(rows[k], now), Top) /\ Deleted(rows[k], now).seen = rows[k].seen
      BY <1>0, <3>1, DeletedRow
    <3>3. QED
      BY <2>1, <3>1, <3>2
  <2>3. rows' \in [Keys -> RowType]
    <3>1. \A k \in Keys : rows'[k] \in RowType
      BY <2>2 DEF RowOK
    <3>2. QED
      BY <2>1, <3>1
  <2>4. TypeOK'
    BY <1>0, <2>1, <2>3, EndedType DEF TypeOK
  <2>5. QED
    BY <2>1, <2>2, <2>4, AsideInv
<1>4. CASE PurgeThrows(p)
  <2>1. /\ Ended(p)
        /\ UNCHANGED <<source, now, run, cancelRequested, steady, bucket, rows, purgedAt>>
    BY <1>4 DEF PurgeThrows, Others
  <2>2. TypeOK'
    BY <1>0, <2>1, EndedType DEF TypeOK
  <2>3. QED
    BY <2>1, <2>2, AsideInv
<1>5. QED
  BY <1>1, <1>2, <1>3, <1>4 DEF PurgeStep

LEMMA SpareInv ==
  ASSUME ColdInv, NEW k \in Keys, Spare(k)
  PROVE  ColdInv'
<1>0. TypeOK /\ RowsOK /\ RowOK(k, rows[k], Top)
  BY DEF ColdInv, RowsOK
<1>1. /\ rows' = [rows EXCEPT ![k].missing = 0]
      /\ UNCHANGED <<source, now, run, cancelRequested, steady, bucket, purges, bulk, purgedAt>>
  BY DEF Spare, Others
<1>2. RowOK(k, rows'[k], Top) /\ rows'[k].seen = rows[k].seen
  BY <1>0, <1>1 DEF TypeOK, RowOK, RowType, Active
<1>3. \A i \in Keys : i # k => rows'[i] = rows[i]
  BY <1>0, <1>1 DEF TypeOK
<1>4. rows' \in [Keys -> RowType]
  BY <1>0, <1>1 DEF TypeOK, RowType
<1>5. TypeOK'
  BY <1>0, <1>1, <1>4 DEF TypeOK
<1>6. QED
  BY <1>1, <1>2, <1>3, <1>5, AsideInv

\* The files change.
LEMMA FileInv ==
  ASSUME ColdInv, NEW k \in Keys, FileChanges(k)
  PROVE  ColdInv'
<1>0. TypeOK /\ SteadyThere
  BY DEF ColdInv
<1>1. /\ UNCHANGED <<bucket, rows, now, run, cancelRequested, purges, bulk, purgedAt>>
      /\ source' \in [Keys -> Sizes \cup {0}] /\ steady' \subseteq steady
  BY <1>0 DEF FileChanges, TypeOK
<1>2. TypeOK'
  BY <1>0, <1>1 DEF TypeOK
<1>3. SteadyThere'
  BY <1>0 DEF FileChanges, SteadyThere, TypeOK
<1>4. RowsOK' /\ ListingOK' /\ PutOK' /\ Shape' /\ Covers'
  BY <1>1 DEF ColdInv, RowsOK, RowOK, Top, ListingOK, PutOK, Held, Shape, Covers
<1>5. QED
  BY <1>2, <1>3, <1>4 DEF ColdInv

\* A day passes, or the process dies: an idle table is bounded by the time itself.
LEMMA DayInv == ColdInv /\ Day => ColdInv'
<1> SUFFICES ASSUME ColdInv, Day PROVE ColdInv'
  OBVIOUS
<1>0. TypeOK /\ RowsOK /\ Shape /\ now \in Nat /\ now + 1 \in Nat \ {0} /\ Top \in Nat /\ run.start \in Nat
  BY DEF ColdInv, TypeOK, RunType, Top
<1>1. /\ now' = now + 1
      /\ UNCHANGED <<source, bucket, rows, run, cancelRequested, purges, bulk,
                     purgedAt, steady>>
  BY DEF Day
<1>2. TypeOK'
  BY <1>0, <1>1 DEF TypeOK
<1>3. RowsOK'
  <2> SUFFICES ASSUME NEW k \in Keys PROVE RowOK(k, rows[k], Top)'
    BY DEF RowsOK
  <2>1. Top' \in Nat /\ Top <= Top'
    BY <1>0, <1>1 DEF Top
  <2>2. RowOK(k, rows[k], Top')
    BY <1>0, <2>1, Later_ DEF RowsOK
  <2>3. QED
    BY <1>1, <2>2 DEF RowOK, Held
<1>4. Shape'
  <2>1. run'.start <= now'
    BY <1>0, <1>1 DEF Shape
  <2>2. QED
    BY <1>0, <1>1, <2>1 DEF Shape
<1>5. ListingOK' /\ PutOK' /\ SteadyThere' /\ Covers'
  BY <1>1 DEF ColdInv, ListingOK, PutOK, Held, SteadyThere, Covers
<1>6. QED
  BY <1>2, <1>3, <1>4, <1>5 DEF ColdInv

LEMMA RestartInv == ColdInv /\ Restart => ColdInv'
<1> SUFFICES ASSUME ColdInv, Restart PROVE ColdInv'
  OBVIOUS
<1>0. TypeOK /\ RowsOK /\ Shape /\ SteadyThere /\ now \in Nat /\ Top \in Nat /\ Top <= now
  BY DEF ColdInv, TypeOK, RunType, Top, Shape
<1>1. /\ run' = NoRun /\ cancelRequested' = FALSE /\ purges' = [p \in Purgers |-> NoPurge] /\ bulk' = {}
      /\ UNCHANGED <<source, bucket, rows, now, purgedAt, steady>>
  BY DEF Restart, store
<1>2. NoRun.pc = "idle" /\ NoRun.start = 0 /\ NoRun.uploading = {} /\ NoRun.todo = {}
        /\ \A k \in Keys : NoRun.objects[k] = 0
  BY DEF NoRun, NoObjects
<1>3. TypeOK'
  BY <1>0, <1>1, NoRunType, NoPurgeType DEF TypeOK
<1>4. RowsOK'
  <2> SUFFICES ASSUME NEW k \in Keys PROVE RowOK(k, rows[k], Top)'
    BY DEF RowsOK
  <2>1. RowOK(k, rows[k], now)
    BY <1>0, Later_ DEF RowsOK
  <2>2. Top' = now
    BY <1>1, <1>2 DEF Top
  <2>3. QED
    BY <1>1, <2>1, <2>2 DEF RowOK, Held
<1>5. ListingOK' /\ PutOK' /\ Shape' /\ Covers' /\ SteadyThere'
  BY <1>0, <1>1, <1>2 DEF ListingOK, PutOK, Shape, Covers, SteadyThere
<1>6. QED
  BY <1>3, <1>4, <1>5 DEF ColdInv

-----------------------------------------------------------------------------
(* Theorems *)

LEMMA ColdStart == Init => ColdInv
<1> SUFFICES ASSUME Init PROVE ColdInv
  OBVIOUS
<1>1. run = NoRun /\ NoRun.pc = "idle" /\ NoRun.start = 0 /\ NoRun.uploading = {} /\ NoRun.todo = {}
        /\ \A k \in Keys : NoRun.objects[k] = 0
  BY DEF Init, NoRun, NoObjects
<1>2. Untracked \in RowType /\ ~Active(Untracked) /\ Untracked.seen = 0
        /\ Untracked.uploaded = 0 /\ Untracked.missing = 0
  BY DEF Untracked, RowType, Active
<1>3. TypeOK
  <2>1. rows \in [Keys -> RowType]
    BY <1>2 DEF Init
  <2>2. purges \in [Purgers -> PurgeType]
    BY NoPurgeType DEF Init
  <2>3. run \in RunType
    BY NoRunType DEF Init
  <2>4. bucket \in [Keys -> Sizes \cup {0}] /\ purgedAt \in [Keys -> Nat]
    BY DEF Init, NoObjects
  <2>5. cancelRequested \in BOOLEAN
    BY Zenon DEF Init
  <2>6. now \in Nat \ {0}
    BY DEF Init
  <2>7. QED
    BY <2>1, <2>2, <2>3, <2>4, <2>5, <2>6 DEF Init, TypeOK
<1>4. RowsOK
  <2> SUFFICES ASSUME NEW k \in Keys PROVE RowOK(k, Untracked, 1)
    BY <1>1 DEF Init, RowsOK, Top
  <2>1. QED
    BY <1>2 DEF RowOK
<1>5. ListingOK /\ PutOK /\ Shape /\ SteadyThere /\ Covers
  BY <1>1 DEF Init, ListingOK, PutOK, Shape, SteadyThere, Covers
<1>6. QED
  BY <1>3, <1>4, <1>5 DEF ColdInv

LEMMA ColdStep == ColdInv /\ [Next]_vars => ColdInv'
<1> SUFFICES ASSUME ColdInv, [Next]_vars PROVE ColdInv'
  OBVIOUS
<1>1. CASE Begin
  BY <1>1, BeginInv
<1>2. CASE RunStep
  BY <1>2, ListReadInv, ListAnsweredInv, ListFailsInv, CollectedInv, PutAppliedInv,
     PutAnsweredInv, PutFailsInv DEF RunStep
<1>3. CASE Cancel \/ ApproveAll \/ (\E k \in Keys : DeleteOne(k)) \/ (\E d \in Dirs : DeletePrefix(d))
  BY <1>3, AskInv
<1>4. CASE Day
  BY <1>4, DayInv
<1>5. CASE Restart
  BY <1>5, RestartInv
<1>6. CASE \E k \in Keys : Spare(k)
  BY <1>6, SpareInv
<1>7. CASE \E k \in Keys : FileChanges(k)
  BY <1>7, FileInv
<1>8. CASE \E p \in Purgers : PurgeStep(p)
  BY <1>8, PurgeInv
<1>9. CASE UNCHANGED vars
  <2>1. UNCHANGED <<source, bucket, rows, now, run, cancelRequested, purges, bulk,
                    purgedAt, steady>>
    BY <1>9 DEF vars
  <2>2. TypeOK'
    BY <2>1 DEF ColdInv, TypeOK
  <2>3. QED
    BY <2>1, <2>2, AsideInv
<1>10. \/ Begin \/ RunStep \/ Day \/ Restart \/ UNCHANGED vars
       \/ Cancel \/ ApproveAll \/ (\E k \in Keys : DeleteOne(k)) \/ (\E d \in Dirs : DeletePrefix(d))
       \/ \E k \in Keys : Spare(k)
       \/ \E k \in Keys : FileChanges(k)
       \/ \E p \in Purgers : PurgeStep(p)
  <2>1. Next \/ UNCHANGED vars
    OBVIOUS
  <2>2. QED
    BY <2>1, Zenon DEF Next
<1>11. QED
  BY <1>1, <1>2, <1>3, <1>4, <1>5, <1>6, <1>7, <1>8, <1>9, <1>10

\* The relation between the table, the bucket, the run's listing and the steady
\* files holds throughout.
THEOREM ColdInvariant == Spec => []ColdInv
<1>1. QED
  BY ColdStart, ColdStep, PTL DEF Spec

\* The variables keep their types.
THEOREM ColdTyped == Spec => []TypeOK
<1>1. ColdInv => TypeOK
  BY DEF ColdInv
<1>2. QED
  BY <1>1, ColdInvariant, PTL

\* However runs, purges, failures and restarts interleave, what the table counts as
\* stored is in the bucket unless a purge took it out after it was last seen there.
THEOREM StoredIsThere == Spec => []StoredUnlessPurged
<1>1. ColdInv => StoredUnlessPurged
  <2> SUFFICES ASSUME ColdInv, NEW k \in Keys, Active(rows[k])
               PROVE  bucket[k] # 0 \/ purgedAt[k] >= Later(rows[k].seen, rows[k].uploaded)
    BY DEF StoredUnlessPurged
  <2>1. Held(k, rows[k].seen) /\ Held(k, rows[k].uploaded)
    BY DEF ColdInv, RowsOK, RowOK
  <2>2. QED
    BY <2>1 DEF Held, Later
<1>2. QED
  BY <1>1, ColdInvariant, PTL

\* No object comes up for deletion before every run of the retention time has passed
\* it by.
THEOREM ReviewWaits == Spec => []ReviewIsOld
<1>1. ColdInv => ReviewIsOld
  <2> SUFFICES ASSUME ColdInv, NEW k \in Review PROVE rows[k].seen + RetainDays < now
    BY DEF ReviewIsOld
  <2>1. k \in Keys /\ rows[k].missing # 0 /\ rows[k].missing + RetainDays <= now
    BY DEF Review, AwaitsReview
  <2>2. rows[k].seen < rows[k].missing
    BY <2>1 DEF ColdInv, RowsOK, RowOK
  <2>3. rows[k].seen \in Nat /\ rows[k].missing \in Nat /\ now \in Nat /\ RetainDays \in Nat
    BY <2>1, ColdStorageAssumption DEF ColdInv, TypeOK, RowType
  <2>4. QED
    BY <2>1, <2>2, <2>3
<1>2. QED
  BY <1>1, ColdInvariant, PTL

\* A walk that ends with nothing failed has seen every file that was there all along.
LEMMA CleanWalk ==
  ASSUME ColdInv, run.pc # "idle", NEW r \in RunType, NEW S \in SUBSET Keys,
         r.start = run.start, NEW k \in steady, r.dirs = {}, r.todo = Quiet(r),
         rows[k].seen = run.start \/ k \in S \cup r.todo \/ DirOf[k] \in r.dirs,
         \A i \in S : Held(i, run.start), \A i \in r.todo : source[i] # 0 => Held(i, run.start),
         Finish(SeenAll(S \cup {v \in r.todo : source[v] # 0}, r.start), FALSE)
  PROVE  Missing(rows'[k]) => Missing(rows[k])
<1> DEFINE U == S \cup {v \in r.todo : source[v] # 0}
<1>1. k \in Keys /\ source[k] # 0 /\ run.start \in Nat /\ U \in SUBSET Keys
  BY DEF ColdInv, TypeOK, SteadyThere, RunType
<1>2. \A i \in U : Held(i, run.start)
  OBVIOUS
<1>3. rows' = [i \in Keys |-> Pruned(Stamped(SeenAll(U, run.start)[i], run.start), run.start)]
  BY DEF Finish
<1>4. rows[k].seen = run.start \/ k \in U
  BY <1>1
<1> HIDE DEF U
<1>5. /\ RowOK(k, SeenAll(U, run.start)[k], run.start)
      /\ SeenAll(U, run.start)[k].seen = run.start
      /\ k \in U => SeenAll(U, run.start)[k].missing = 0
      /\ k \notin U => SeenAll(U, run.start)[k] = rows[k]
  BY <1>1, <1>2, <1>4, SeenTable
<1>6. Stamped(SeenAll(U, run.start)[k], run.start) = SeenAll(U, run.start)[k]
  BY <1>1, <1>5, StampedRow
<1>7. rows'[k] = Pruned(SeenAll(U, run.start)[k], run.start)
  BY <1>1, <1>3, <1>6
<1>8. Missing(rows'[k]) => rows'[k] = SeenAll(U, run.start)[k]
  BY <1>1, <1>5, <1>7, PrunedRow DEF Missing
<1>9. QED
  BY <1>5, <1>8 DEF Missing

\* The other ways for the walk to return to idle are a cancel, which stamps nothing.
LEMMA ProceedEnds ==
  ASSUME ColdInv, run.pc # "idle", NEW r \in RunType, NEW S \in SUBSET Keys,
         r.start = run.start, r.objects = run.objects, NEW k \in steady,
         rows[k].seen = run.start \/ k \in S \cup r.todo \/ DirOf[k] \in r.dirs,
         \A i \in S : Held(i, run.start),
         Proceed(r, S), run'.pc = "idle"
  PROVE  Missing(rows'[k]) => Missing(rows[k])
<1>1. k \in Keys
  BY DEF ColdInv, TypeOK
<1>2. CASE Finish(SeenAll(S, r.start), TRUE)
  <2>1. rows'[k] = SeenAll(S, run.start)[k]
    BY <1>2 DEF Finish
  <2>2. k \in S => rows'[k].missing = 0
    BY <1>1, <2>1, SeenTable
  <2>3. k \notin S => rows'[k] = rows[k]
    BY <1>1, <2>1, SeenTable
  <2>4. QED
    BY <2>2, <2>3 DEF Missing
<1>3. CASE /\ r.todo = Quiet(r) /\ r.dirs = {}
           /\ Finish(SeenAll(S \cup {v \in r.todo : source[v] # 0}, r.start), FALSE)
  <2>1. \A i \in r.todo : source[i] # 0 => Held(i, run.start)
    BY <1>3 DEF Quiet, ColdInv, ListingOK, RunType
  <2>2. QED
    BY <1>3, <2>1, CleanWalk
<1>4. ASSUME NEW V, NEW i, run' = [r EXCEPT !.pc = "upload", !.todo = @ \ (V \cup {i}),
                                            !.uploading = {i}, !.size = source[i]]
      PROVE  FALSE
  BY <1>4 DEF RunType
<1>5. ASSUME NEW d, run' = [r EXCEPT !.pc = "collect", !.todo = {}, !.dirs = @ \ {d},
                                     !.dir = {d}, !.uploading = {}, !.size = 0]
      PROVE  FALSE
  BY <1>5 DEF RunType
<1>6. QED
  BY <1>2, <1>3, <1>4, <1>5 DEF Proceed

LEMMA CleanEnds ==
  ASSUME ColdInv, CleanEnd, NEW k \in steady
  PROVE  Missing(rows'[k]) => Missing(rows[k])
<1>0. /\ TypeOK /\ Shape /\ PutOK /\ SteadyThere /\ run \in RunType /\ k \in Keys /\ source[k] # 0
      /\ run.clean /\ run'.pc = "idle" /\ run.uploading \subseteq Keys
  BY DEF ColdInv, TypeOK, SteadyThere, CleanEnd, RunType
<1>1. run.pc # "idle" =>
        \/ rows[k].seen = run.start
        \/ k \in run.todo \cup run.uploading
        \/ DirOf[k] \in run.dirs \cup run.dir
  BY <1>0 DEF ColdInv, Covers
<1>2. CASE Collected
  <2> DEFINE r == [run EXCEPT !.dir = {}, !.todo = Found]
  <2>1. /\ r \in RunType /\ r.start = run.start /\ r.objects = run.objects
        /\ r.todo = Found /\ r.dirs = run.dirs
    BY <1>0 DEF RunType, Found
  <2>2. run.pc = "collect" /\ Proceed(r, {})
    BY <1>2 DEF Collected
  <2> HIDE DEF r
  <2>3. rows[k].seen = run.start \/ k \in {} \cup r.todo \/ DirOf[k] \in r.dirs
    BY <1>0, <1>1, <2>1, <2>2 DEF Shape, Found
  <2>4. QED
    BY <1>0, <2>1, <2>2, <2>3, ProceedEnds
<1>3. CASE PutAnswered
  <2> DEFINE r == [run EXCEPT !.uploading = {}, !.size = 0]
  <2>1. /\ r \in RunType /\ r.start = run.start /\ r.objects = run.objects
        /\ r.todo = run.todo /\ r.dirs = run.dirs
    BY <1>0 DEF RunType
  <2>2. run.pc = "put" /\ Proceed(r, run.uploading)
    BY <1>3 DEF PutAnswered
  <2> HIDE DEF r
  <2>3. /\ rows[k].seen = run.start \/ k \in run.uploading \cup r.todo \/ DirOf[k] \in r.dirs
        /\ \A i \in run.uploading : Held(i, run.start)
    BY <1>0, <1>1, <2>1, <2>2 DEF Shape, PutOK
  <2>4. QED
    BY <1>0, <2>1, <2>2, <2>3, ProceedEnds
<1>4. QED
  BY <1>2, <1>3 DEF CleanEnd

\* A run in which nothing failed reports no file as missing that was there all along,
\* whatever was purged, spared or changed on the drive while it walked.
THEOREM CleanRunsAreRight == Spec => CleanRunStampsAbsent
<1>1. ColdInv => [CleanEnd => \A k \in steady : Missing(rows'[k]) => Missing(rows[k])]_vars
  BY CleanEnds
<1>2. QED
  BY <1>1, ColdInvariant, PTL DEF CleanRunStampsAbsent
=============================================================================
