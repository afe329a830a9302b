----------------------------- MODULE WorkProofs -----------------------------
(***************************************************************************)
(* What holds of the program's stores of work for any number of processes, *)
(* users and attempts: the schema under concurrent migrations, the         *)
(* collection of compensation records, files that are rolled back, the     *)
(* table of workflow runs, the queue of webhook deliveries, workflows,     *)
(* declared ones and those that are built in, deployments in two stores,   *)
(* and tables that are read page by page.                                  *)
(***************************************************************************)
EXTENDS Migrations, Compensation, WorkflowRuns, DeliveryQueue, DslWorkflow,
        Pipelines, DeploymentStore, Paging, SequenceTheorems, FiniteSetTheorems, WellFoundedInduction, TLAPS

(* Numbers *)

Less == {pair \in Nat \X Nat : pair[1] < pair[2]}

\* They are ordered so that every set of them has a least one.
LEMMA LessWellFounded == IsWellFoundedOn(Less, Nat)
<1>1. Less = OpToRel(<, Nat)
  BY Zenon DEF Less, OpToRel
<1> QED
  BY <1>1, NatLessThanWellFounded, Zenon

\* Any numbers have a least one.
LEMMA LeastExists ==
  ASSUME NEW S \in SUBSET Nat, S # {}
  PROVE  \E v \in S : \A w \in S : v <= w
<1>1. PICK v \in S : \A w \in S : ~(<<w, v>> \in Less)
  BY WFMin, LessWellFounded
<1>2. ASSUME NEW w \in S PROVE v <= w
  <2>1. v \in Nat /\ w \in Nat
    OBVIOUS
  <2>2. w < v => <<w, v>> \in Less
    BY <2>1 DEF Less
  <2>3. ~(w < v)
    BY <1>1, <2>2, Zenon
  <2> QED
    BY <2>1, <2>3
<1> QED
  BY <1>2

\* Numbers up to a bound have a greatest one.
LEMMA GreatestExists ==
  ASSUME NEW n \in Nat, NEW S \in SUBSET (1..n), S # {}
  PROVE  Max(S) \in S /\ \A w \in S : Max(S) >= w
<1> DEFINE bounds == {u \in Nat : \A w \in S : w <= u}
<1>1. PICK u \in bounds : \A w \in bounds : u <= w
  <2>1. n \in bounds
    OBVIOUS
  <2> HIDE DEF bounds
  <2>2. bounds \in SUBSET Nat
    BY DEF bounds
  <2> QED
    BY <2>1, <2>2, LeastExists
<1>2. u \in S
  <2> SUFFICES ASSUME u \notin S PROVE FALSE
    OBVIOUS
  <2>1. u \in Nat /\ \A w \in S : w \in 1..n /\ w < u
    OBVIOUS
  <2>2. u - 1 \in Nat
    <3>1. PICK w \in S : TRUE
      OBVIOUS
    <3>2. w \in 1..n /\ w < u
      BY <2>1
    <3> QED
      BY <2>1, <3>2
  <2>3. \A w \in S : w <= u - 1
    BY <2>1
  <2>4. u - 1 \in bounds
    BY <2>2, <2>3
  <2> QED
    BY <1>1, <2>1, <2>4
<1>3. \A w \in S : u >= w /\ w \in Nat /\ u \in Nat
  OBVIOUS
<1> QED
  BY <1>2, <1>3 DEF Max

-----------------------------------------------------------------------------
(* Rolling a file back *)

Restores == undo.operation \in {"update", "delete"}

\* An attempt writes only what it has read, and removes a backup only after it wrote.
AttemptSound(a) ==
    /\ step[a] \in {"truncate", "fill", "remove"} => Restores
    /\ step[a] = "remove" => undo.from = "backup"
    /\ step[a] \in {"fill", "remove"} => file \in {"old", "torn"}
    /\ step[a] = "success" => IF Restores THEN file \in {"old", "torn"} ELSE undo.operation = "create" /\ file = "absent"
    /\ step[a] # "none" => a <= attempt

\* While nobody but the attempt the server waits for touched the files, they are in step with
\* that attempt: the backup goes last.
Alongside ==
    /\ undo.from = "backup" /\ Restores /\ backup = "absent" =>
          file = "old" /\ (outcome = "none" => step[attempt] \notin {"truncate", "fill", "remove"})
    /\ outcome = "none" /\ step[attempt] \in {"remove", "success"} => (Restores => file = "old")
    /\ outcome = "success" => (Restores => file = "old")

FilesSound ==
    /\ attempt > 0 /\ undo.from = "backup" => backup \in {"old", "absent"}
    /\ undo.from = "backup" /\ Restores /\ attempt > 0 /\ backup = "absent" => file \in {"old", "torn"}
    /\ attempt > 0 /\ Restores /\ file = "torn" => broken \/ \E a \in RollbackAttempt : step[a] = "fill"
    /\ attempt > 0 /\ undo.operation = "create" => file \in {"absent", "new"}
    /\ outcome = "success" => attempt > 0 /\ step[attempt] = "success"

RollbackInv ==
    /\ RollbackTypeOK /\ FilesSound
    /\ \A a \in RollbackAttempt : AttemptSound(a)
    /\ attempt > 0 /\ ~late => Alongside

\* The invariant says of the files what is wanted.
LEMMA RollbackInvStrong == ASSUME RollbackAssumption, RollbackInv PROVE NothingLost
<1> USE DEF RollbackAssumption
<1>1. RollbackTypeOK /\ FilesSound
  BY DEF RollbackInv
<1>2. attempt > 0 => attempt \in RollbackAttempt /\ AttemptSound(attempt)
  BY <1>1 DEF RollbackInv, RollbackTypeOK, RollbackAttempt
<1>3. attempt > 0 /\ undo.from = "backup" /\ undo.operation \in {"update", "delete"} /\ ~LeftTorn => "old" \in {file, backup}
  BY <1>1 DEF RollbackInv, FilesSound, Alongside, LeftTorn, Restores
<1>4. outcome = "success" /\ ~LeftTorn => file = IF undo.operation = "create" THEN "absent" ELSE "old"
  BY <1>1, <1>2 DEF RollbackInv, FilesSound, AttemptSound, Alongside, LeftTorn, Restores
<1> QED
  BY <1>1, <1>3, <1>4 DEF NothingLost

\* No file is being rolled back at the start.
LEMMA RollbackInitInv == ASSUME RollbackAssumption, RollbackInit PROVE RollbackInv
<1>1. late \in BOOLEAN /\ broken \in BOOLEAN
  BY Zenon DEF RollbackInit
<1>2. RollbackTypeOK
  BY <1>1 DEF RollbackAssumption, RollbackInit, RollbackTypeOK, NoUndo, Operation, Source, Content, RollbackStep
<1> QED
  BY <1>2 DEF RollbackInit, RollbackInv, FilesSound, AttemptSound, NoUndo, Restores

\* The first attempt.
LEMMA BeginKeeps ==
  ASSUME RollbackAssumption, RollbackInv, NEW operation \in Operation, NEW from \in Source, BeginRollback(operation, from)
  PROVE  RollbackInv'
<1> USE DEF RollbackAssumption
<1>1. RollbackTypeOK /\ 1 \in RollbackAttempt /\ attempt = 0 /\ outcome # "success"
  BY DEF RollbackInv, RollbackAttempt, BeginRollback, FilesSound
<1>2. \A a \in RollbackAttempt : step[a] = "none" /\ step'[a] = IF a = 1 THEN "begin" ELSE "none"
  BY <1>1 DEF RollbackInv, RollbackTypeOK, AttemptSound, BeginRollback, RollbackAttempt
<1>3. RollbackTypeOK'
  BY <1>1 DEF BeginRollback, RollbackTypeOK, Content, RollbackStep
<1> QED
  BY <1>1, <1>2, <1>3 DEF BeginRollback, RollbackInv, FilesSound, AttemptSound, Alongside, Restores

\* What an attempt does to the files, and where it is afterwards, keeps them sound if the
\* attempt itself does.
LEMMA AttemptKeeps ==
  ASSUME RollbackAssumption, RollbackInv, NEW a \in RollbackAttempt, NEW ok \in BOOLEAN,
         DeleteCreated(a, ok) \/ ReadContent(a, ok) \/ Truncate(a, ok) \/ Fill(a, ok) \/ RemoveBackup(a, ok) \/ WorkerLost(a)
  PROVE  RollbackInv'
<1> USE DEF RollbackAssumption
<1>1. RollbackTypeOK /\ FilesSound /\ AttemptSound(a) /\ UNCHANGED <<undo, attempt, outcome>>
  BY DEF RollbackInv, DeleteCreated, ReadContent, Truncate, Fill, RemoveBackup, WorkerLost
<1>2. /\ step' = [step EXCEPT ![a] = step'[a]] /\ step'[a] \in RollbackStep /\ step[a] # "none" /\ step[a] # "success"
      /\ \A b \in RollbackAttempt \ {a} : step'[b] = step[b]
  BY <1>1 DEF RollbackTypeOK, RollbackStep, Goes, AfterWrite, DeleteCreated, ReadContent, Truncate, Fill, RemoveBackup, WorkerLost
<1>3. attempt \in RollbackAttempt
  BY <1>1, <1>2 DEF AttemptSound, RollbackTypeOK, RollbackAttempt
<1>4. RollbackTypeOK'
  BY <1>1, <1>2 DEF RollbackTypeOK, Content, Touches, Awaited, DeleteCreated, ReadContent, Truncate, Fill, RemoveBackup, WorkerLost
<1>5. AttemptSound(a)'
  BY <1>1, <1>2 DEF RollbackTypeOK, AttemptSound, FilesSound, Restores, Operation, Goes, AfterWrite, DeleteCreated, ReadContent, Truncate, Fill, RemoveBackup, WorkerLost
<1>6. ASSUME NEW b \in RollbackAttempt, b # a PROVE AttemptSound(b)'
  <2>1. AttemptSound(b)
    BY DEF RollbackInv
  <2> QED
    BY <1>1, <1>2, <1>6, <2>1 DEF AttemptSound, Restores, DeleteCreated, ReadContent, Truncate, Fill, RemoveBackup, WorkerLost
<1>7. FilesSound'
  <2>1. file' = "torn" => broken' \/ step'[a] = "fill" \/ (file = "torn" /\ ~broken /\ step[a] # "fill")
    BY <1>1, <1>2 DEF RollbackTypeOK, Goes, AfterWrite, DeleteCreated, ReadContent, Truncate, Fill, RemoveBackup, WorkerLost
  <2>2. Restores' /\ file' = "torn" /\ attempt > 0 => broken' \/ \E b \in RollbackAttempt : step'[b] = "fill"
    BY <1>1, <1>2, <2>1 DEF FilesSound, Restores
  <2>3. Restores' = Restores
    BY <1>1 DEF Restores
  <2>4. outcome = "success" => step'[attempt] = "success"
    BY <1>1, <1>2, <1>3 DEF FilesSound
  <2> QED
    BY <1>1, <1>2, <1>3, <2>2, <2>3, <2>4 DEF RollbackTypeOK, FilesSound, AttemptSound, Restores, Goes, AfterWrite, DeleteCreated, ReadContent, Truncate, Fill, RemoveBackup, WorkerLost
<1>8. ASSUME ~late', attempt > 0 PROVE Alongside'
  <2>0. late => late'
    <3>1. UNCHANGED late \/ Touches(a)
      BY Zenon DEF DeleteCreated, ReadContent, Truncate, Fill, RemoveBackup, WorkerLost
    <3> QED
      BY <3>1, Zenon DEF Touches
  <2>1. ~late /\ Alongside
    <3>1. ~late
      BY <1>8, <2>0, Zenon
    <3> QED
      BY <1>8, <3>1 DEF RollbackInv
  <2>2. CASE UNCHANGED <<file, backup>>
    <3>1. Restores' = Restores
      BY <1>1 DEF Restores
    <3>2. a = attempt /\ outcome = "none" =>
             /\ step'[a] \in {"truncate", "fill", "remove"} => step[a] \in {"truncate", "fill", "remove"} \/ (undo.from = "backup" => backup = "old")
             /\ step'[a] \in {"remove", "success"} => step[a] = "remove" \/ file = "old" \/ ~Restores
      BY <1>1, <1>2, <2>2 DEF RollbackTypeOK, Goes, AfterWrite, DeleteCreated, ReadContent, Truncate, Fill, RemoveBackup, WorkerLost, Restores
    <3> QED
      BY <1>1, <1>2, <1>3, <2>1, <2>2, <3>1, <3>2 DEF Alongside
  <2>3. CASE ~UNCHANGED <<file, backup>>
    <3>1. Awaited(a)
      BY <1>1, <1>8, <2>3 DEF Touches, DeleteCreated, ReadContent, Truncate, Fill, RemoveBackup, WorkerLost
    <3> QED
      BY <1>1, <1>2, <1>3, <2>1, <2>3, <3>1 DEF RollbackTypeOK, Alongside, AttemptSound, Restores, Awaited, Goes, AfterWrite, DeleteCreated, ReadContent, Truncate, Fill, RemoveBackup, WorkerLost
  <2> QED
    BY <2>2, <2>3
<1> QED
  BY <1>1, <1>4, <1>5, <1>6, <1>7, <1>8 DEF RollbackInv

\* The server takes an answer, or begins the next attempt beside the one before.
LEMMA ServerKeeps ==
  ASSUME RollbackAssumption, RollbackInv, AttemptTimesOut \/ \E a \in RollbackAttempt : AnswerRollback(a)
  PROVE  RollbackInv'
<1> USE DEF RollbackAssumption
<1>1. /\ RollbackTypeOK /\ FilesSound /\ UNCHANGED <<undo, file, backup, late, broken>> /\ attempt > 0 /\ outcome = "none"
      /\ attempt \in RollbackAttempt
  BY DEF RollbackInv, RollbackTypeOK, AttemptTimesOut, AnswerRollback, Awaited, RollbackAttempt
<1>2. Restores' = Restores
  BY <1>1 DEF Restores
<1>3. ASSUME TryAgain PROVE RollbackInv'
  <2>1. CASE attempt < MaxRollbackAttempts
    <3>1. attempt + 1 \in RollbackAttempt /\ attempt' = attempt + 1 /\ outcome' = outcome /\ attempt + 1 > 0
      BY <1>1, <1>3, <2>1 DEF TryAgain, RollbackTypeOK, RollbackAttempt
    <3>2. /\ step' \in [RollbackAttempt -> RollbackStep] /\ step'[attempt + 1] = "begin"
          /\ \A b \in RollbackAttempt \ {attempt + 1} : step'[b] = step[b]
      BY <1>1, <1>3, <2>1, <3>1 DEF TryAgain, RollbackTypeOK, RollbackStep
    <3>3. RollbackTypeOK'
      BY <1>1, <3>1, <3>2 DEF RollbackTypeOK, RollbackAttempt
    <3>4. \A a \in RollbackAttempt : AttemptSound(a)'
      <4>1. \A a \in RollbackAttempt : a <= attempt => a <= attempt + 1
        BY <1>1 DEF RollbackTypeOK, RollbackAttempt
      <4>2. attempt + 1 <= attempt'
        BY <1>1, <3>1 DEF RollbackTypeOK
      <4> QED
        BY <1>1, <1>2, <3>1, <3>2, <4>1, <4>2 DEF RollbackInv, AttemptSound
    <3>5. FilesSound'
      <4>1. step[attempt + 1] = "none"
        BY <1>1, <3>1 DEF RollbackInv, RollbackTypeOK, AttemptSound
      <4> QED
        BY <1>1, <1>2, <3>1, <3>2, <4>1 DEF FilesSound
    <3> QED
      BY <1>1, <1>2, <3>1, <3>2, <3>3, <3>4, <3>5 DEF RollbackInv, Alongside
  <2>2. CASE attempt >= MaxRollbackAttempts
    BY <1>1, <1>2, <1>3, <2>2 DEF TryAgain, RollbackInv, RollbackTypeOK, FilesSound, AttemptSound, Alongside
  <2> QED
    BY <1>1, <2>1, <2>2 DEF RollbackTypeOK
<1>4. CASE ~TryAgain
  BY <1>1, <1>2, <1>4 DEF AttemptTimesOut, AnswerRollback, Awaited, RollbackInv, RollbackTypeOK, FilesSound, AttemptSound, Alongside
<1> QED
  BY <1>3, <1>4

\* Attempts may fail anywhere, and go on beside those that repeat them.
LEMMA RollbackNextInv == ASSUME RollbackAssumption, RollbackInv, [RollbackNext]_rollbackVars PROVE RollbackInv'
<1>1. ASSUME UNCHANGED rollbackVars PROVE RollbackInv'
  BY <1>1 DEF rollbackVars, RollbackInv, RollbackTypeOK, FilesSound, AttemptSound, Alongside, Restores
<1>2. ASSUME NEW a \in RollbackAttempt, WorkerLost(a) PROVE RollbackInv'
  BY <1>2, AttemptKeeps
<1> QED
  BY <1>1, <1>2, BeginKeeps, AttemptKeeps, ServerKeeps DEF RollbackNext

\* However often a rollback breaks off and is repeated, and although an attempt that timed out
\* goes on, it loses nothing unless such an attempt touched the files and a write is unfinished.
THEOREM RollbackIsSafe == ASSUME RollbackAssumption PROVE RollbackSpec => []NothingLost
<1>1. RollbackInit => RollbackInv
  BY RollbackInitInv
<1>2. RollbackInv /\ [RollbackNext]_rollbackVars => RollbackInv'
  BY RollbackNextInv
<1>3. RollbackInv => NothingLost
  BY RollbackInvStrong
<1> QED
  BY <1>1, <1>2, <1>3, PTL DEF RollbackSpec

-----------------------------------------------------------------------------
(* The collection of compensation records *)

HeldRecord == [what : {"nothing", "record", "completed", "failed"}, id : RecordID, doc : Doc \cup {Empty}]

\* A record runs since its start, and is over since its end.
TimesSound(d) ==
    /\ d.status = "running" => d.started
    /\ d.status \in {"completed", "failed"} => d.ended

\* A record that its maker still has is a whole one, and under its ID.
Whole(d, id) == d \in Doc /\ d.by \in DOMAIN made /\ made[d.by].id = id /\ TimesSound(d)
HeldAreWhole == \A u \in User : held[u].what = "record" => Whole(held[u].doc, held[u].id)

RecordInv == SavedAreKept /\ HeldAreWhole

\* No document of the collection looks like the lack of one.
LEMMA EmptyIsNoDoc == Empty \notin Doc /\ \A d \in Doc \cup {Empty} : d # Empty => d \in Doc
  BY DEF Empty, FreshRecord, Doc, RecordStatus

\* The records made are a sequence.
LEMMA MadeTyped ==
  ASSUME RecordTypeOK
  PROVE  /\ Len(made) \in Nat /\ DOMAIN made = 1..Len(made)
         /\ \A r \in DOMAIN made : made[r] \in [id : RecordID, flow : Flow]
         /\ held \in [User -> HeldRecord]
<1>1. held \in [User -> HeldRecord]
  BY Zenon DEF RecordTypeOK, HeldRecord
<1>2. made \in Seq(MadeRecord)
  BY DEF RecordTypeOK
<1>3. Len(made) \in Nat /\ DOMAIN made = 1..Len(made) /\ \A r \in DOMAIN made : made[r] \in MadeRecord
  BY <1>2
<1> QED
  BY <1>1, <1>3 DEF MadeRecord

\* A document is one of the records that are kept.
LEMMA DocsAreWhole ==
  ASSUME SavedAreKept, NEW id \in RecordID, docs[id] # Empty
  PROVE  Whole(docs[id], id) /\ docs[id].by \in saved
<1>1. docs[id] \in Doc /\ docs[id].by \in saved /\ made[docs[id].by].id = id /\ saved \subseteq DOMAIN made
  BY EmptyIsNoDoc DEF SavedAreKept, RecordTypeOK
<1>2. TimesSound(docs[id])
  BY DEF SavedAreKept, TimesSound
<1> QED
  BY <1>1, <1>2 DEF Whole

\* Marking changes a record in place.
LEMMA MarkedIsWhole ==
  ASSUME NEW d, NEW id, Whole(d, id), NEW label \in RecordStatus
  PROVE  Whole(WithStatus(d, label), id) /\ WithStatus(d, label).by = d.by
<1> DEFINE w == WithStatus(d, label)
<1>1. d.started \in BOOLEAN /\ d.ended \in BOOLEAN /\ d \in Doc
  BY DEF Whole, Doc
<1>2. (d.started \/ label = "running") \in BOOLEAN /\ (d.ended \/ label \in {"completed", "failed"}) \in BOOLEAN
  BY <1>1
<1>3. w \in Doc /\ w.by = d.by
  BY <1>1, <1>2 DEF WithStatus, Doc
<1>4. w.status = label /\ w.started = (d.started \/ label = "running") /\ w.ended = (d.ended \/ label \in {"completed", "failed"})
  BY <1>1 DEF WithStatus, Doc
<1> QED
  BY <1>3, <1>4 DEF Whole, TimesSound

\* So does saving a record over a document.
LEMMA SetIsWhole ==
  ASSUME NEW d, NEW id, Whole(d, id), NEW old \in Doc \cup {Empty}
  PROVE  Whole(FieldsSet(old, d), id) /\ FieldsSet(old, d).by = d.by
<1> DEFINE w == FieldsSet(old, d)
<1>1. d.started \in BOOLEAN /\ d.ended \in BOOLEAN /\ d \in Doc /\ old.started \in BOOLEAN /\ old.ended \in BOOLEAN
  <2>1. d.started \in BOOLEAN /\ d.ended \in BOOLEAN /\ d \in Doc
    BY DEF Whole, Doc
  <2>2. CASE old = Empty
    BY <2>1, <2>2 DEF Empty, FreshRecord
  <2>3. CASE old \in Doc
    BY <2>1, <2>3 DEF Doc
  <2> QED
    BY <2>2, <2>3
<1>2. (d.started \/ old.started) \in BOOLEAN /\ (d.ended \/ old.ended) \in BOOLEAN
  BY <1>1
<1>3. w \in Doc /\ w.by = d.by
  BY <1>1, <1>2 DEF FieldsSet, Doc
<1>4. w.status = d.status /\ w.started = (d.started \/ old.started) /\ w.ended = (d.ended \/ old.ended)
  BY <1>1 DEF FieldsSet, Doc
<1> QED
  BY <1>3, <1>4 DEF Whole, TimesSound

\* A whole record takes its place in the collection.
LEMMA RecordPut ==
  ASSUME SavedAreKept, NEW id \in RecordID, NEW d, Whole(d, id), docs' = [docs EXCEPT ![id] = d],
         saved' = saved \cup {d.by}, UNCHANGED <<second, made>>, held' \in [User -> HeldRecord]
  PROVE  SavedAreKept'
<1>1. RecordTypeOK'
  BY DEF SavedAreKept, RecordTypeOK, Whole, HeldRecord
<1>2. ASSUME NEW i \in RecordID, docs'[i] # Empty
      PROVE  docs'[i].by \in saved' /\ made[docs'[i].by].id = i /\ TimesSound(docs'[i])
  <2>1. CASE i = id
    BY <2>1 DEF Whole, SavedAreKept, RecordTypeOK
  <2>2. CASE i # id
    <3>1. docs'[i] = docs[i]
      BY <2>2 DEF SavedAreKept, RecordTypeOK
    <3> QED
      BY <1>2, <3>1, DocsAreWhole DEF Whole
  <2> QED
    BY <2>1, <2>2
<1>3. ASSUME NEW r \in saved', Alone(r)' PROVE docs'[made[r].id].by = r
  <2>1. r \in DOMAIN made /\ d.by \in DOMAIN made /\ made[d.by].id = id /\ Alone(r)
    BY <1>1, <1>3 DEF RecordTypeOK, Whole, Alone
  <2>2. CASE made[r].id = id
    BY <2>1, <2>2 DEF Alone, SavedAreKept, RecordTypeOK
  <2>3. CASE made[r].id # id
    <3>1. r \in saved /\ docs'[made[r].id] = docs[made[r].id]
      BY <2>1, <2>3, MadeTyped DEF SavedAreKept, RecordTypeOK
    <3> QED
      BY <2>1, <3>1 DEF SavedAreKept
  <2> QED
    BY <2>2, <2>3
<1> QED
  BY <1>1, <1>2, <1>3 DEF SavedAreKept, TimesSound, Alone

\* The collection starts empty.
LEMMA RecordInitInv == ASSUME RecordAssumption, RecordInit PROVE RecordInv
<1>1. RecordTypeOK
  BY DEF RecordAssumption, RecordInit, RecordTypeOK, RecordID, NothingHeld
<1> QED
  BY <1>1 DEF RecordInit, RecordInv, SavedAreKept, HeldAreWhole, NothingHeld

\* What changes nothing in the collection keeps it, if the record it makes or marks is whole.
LEMMA HeldKeeps ==
  ASSUME SavedAreKept, HeldAreWhole, NEW u \in User, NEW h \in HeldRecord, held' = [held EXCEPT ![u] = h],
         h.what = "record" => Whole(h.doc, h.id), UNCHANGED <<second, made, docs, saved>>
  PROVE  RecordInv'
<1>1. held' \in [User -> HeldRecord] /\ held'[u] = h /\ \A v \in User \ {u} : held'[v] = held[v]
  BY MadeTyped DEF SavedAreKept
<1>2. RecordTypeOK'
  BY <1>1 DEF SavedAreKept, RecordTypeOK, HeldRecord
<1>3. SavedAreKept'
  BY <1>2 DEF SavedAreKept, Alone
<1>4. HeldAreWhole'
  BY <1>1 DEF HeldAreWhole, Whole
<1> QED
  BY <1>3, <1>4 DEF RecordInv

\* A record is made: nothing of it is in the collection, and who shared the second still does.
LEMMA NewKeeps ==
  ASSUME RecordAssumption, RecordInv, NEW u \in User, NEW f \in Flow, NewCompensationRecord(u, f)
  PROVE  RecordInv'
<1> USE DEF RecordAssumption
<1> DEFINE n == Len(made) + 1
<1>0. PICK h : h = [what |-> "record", id |-> second, doc |-> FreshRecord(n, "pending")]
  OBVIOUS
<1>1. /\ SavedAreKept /\ HeldAreWhole /\ RecordTypeOK /\ Len(made) < MaxRecords /\ held' = [held EXCEPT ![u] = h]
      /\ made' = Append(made, [id |-> second, flow |-> f]) /\ UNCHANGED <<second, docs, saved>>
  BY <1>0 DEF RecordInv, SavedAreKept, NewCompensationRecord
<1>2. /\ Len(made) \in Nat /\ DOMAIN made = 1..Len(made) /\ n \in 1..MaxRecords /\ n \notin DOMAIN made
      /\ DOMAIN made' = 1..n /\ made'[n] = [id |-> second, flow |-> f]
      /\ \A r \in DOMAIN made : r \in DOMAIN made' /\ made'[r] = made[r]
  BY <1>1 DEF RecordTypeOK
<1>3. /\ h.what = "record" /\ h.id = second /\ second \in RecordID /\ h.doc \in Doc /\ h.doc.by = n
      /\ TimesSound(h.doc)
  <2>1. 0 \in 0..MaxIncrements /\ FreshRecord(n, "pending") \in Doc
    BY <1>2 DEF FreshRecord, Doc, RecordStatus
  <2> QED
    BY <1>0, <1>1, <2>1 DEF FreshRecord, TimesSound, RecordTypeOK
<1>4. h \in HeldRecord /\ Whole(h.doc, h.id)'
  <2>1. h \in HeldRecord
    BY <1>0, <1>3 DEF HeldRecord
  <2>2. Whole(h.doc, h.id)'
    BY <1>1, <1>2, <1>3 DEF Whole, TimesSound
  <2> QED
    BY <2>1, <2>2
<1>5. held' \in [User -> HeldRecord] /\ held'[u] = h /\ \A v \in User \ {u} : held'[v] = held[v]
  BY <1>1, <1>4, MadeTyped
<1>6. RecordTypeOK'
  <2>1. [id |-> second, flow |-> f] \in MadeRecord /\ made \in Seq(MadeRecord)
    BY <1>1 DEF RecordTypeOK, MadeRecord
  <2>2. made' \in Seq(MadeRecord) /\ Len(made') <= MaxRecords
    BY <1>1, <1>2, <2>1
  <2> QED
    BY <1>1, <1>2, <1>5, <2>2 DEF RecordTypeOK, HeldRecord
<1>7. \A r \in saved : r \in DOMAIN made /\ (Alone(r)' => Alone(r))
  BY <1>1, <1>2 DEF RecordTypeOK, Alone
<1>8. SavedAreKept'
  BY <1>1, <1>2, <1>6, <1>7 DEF SavedAreKept
<1>9. HeldAreWhole'
  <2>1. ASSUME NEW v \in User, v # u, held'[v].what = "record" PROVE Whole(held[v].doc, held[v].id)'
    <3>1. Whole(held[v].doc, held[v].id) /\ held'[v] = held[v]
      BY <1>1, <1>5, <2>1 DEF HeldAreWhole
    <3> QED
      BY <1>2, <3>1 DEF Whole, TimesSound
  <2> QED
    BY <1>4, <1>5, <2>1 DEF HeldAreWhole
<1> QED
  BY <1>8, <1>9 DEF RecordInv

\* Records are taken out of the collection.
LEMMA TakenOutKeeps ==
  ASSUME RecordInv, (\E f \in Flow : DeleteCompensationHistory(f)) \/ \E id \in RecordID : Expire(id)
  PROVE  RecordInv'
<1>1. SavedAreKept /\ HeldAreWhole /\ RecordTypeOK
  BY DEF RecordInv, SavedAreKept
<1>2. ASSUME NEW f \in Flow, DeleteCompensationHistory(f) PROVE SavedAreKept'
  <2>1. \A r \in saved' : docs[made[r].id] # Empty /\ docs[made[r].id].by = r => docs'[made[r].id] = docs[made[r].id]
    BY <1>1, <1>2, MadeTyped DEF DeleteCompensationHistory, RecordTypeOK
  <2>2. Empty.by = 0 /\ \A r \in DOMAIN made : r # 0
    BY <1>1, MadeTyped DEF Empty, FreshRecord
  <2>3. \A r \in saved' : Alone(r) => docs'[made[r].id].by = r
    BY <1>1, <1>2, <2>1, <2>2 DEF DeleteCompensationHistory, SavedAreKept, RecordTypeOK
  <2>4. RecordTypeOK'
    BY <1>1, <1>2 DEF DeleteCompensationHistory, RecordTypeOK
  <2> QED
    BY <1>1, <1>2, <2>3, <2>4 DEF DeleteCompensationHistory, SavedAreKept, RecordTypeOK, Alone
<1>3. ASSUME NEW id \in RecordID, Expire(id) PROVE SavedAreKept'
  <2>1. RecordTypeOK'
    BY <1>1, <1>3 DEF Expire, RecordTypeOK
  <2>2. \A r \in saved' : Alone(r) => docs'[made[r].id].by = r
    BY <1>1, <1>3, MadeTyped DEF Expire, SavedAreKept, RecordTypeOK
  <2>3. ASSUME NEW i \in RecordID, docs'[i] # Empty PROVE i # id /\ docs'[i] = docs[i] /\ docs[i].by \in saved'
    <3>1. i # id /\ docs'[i] = docs[i]
      BY <1>1, <1>3, <2>3 DEF Expire, RecordTypeOK
    <3> QED
      BY <1>1, <1>3, <2>3, <3>1, DocsAreWhole DEF Expire, Whole
  <2> QED
    BY <1>1, <1>3, <2>1, <2>2, <2>3 DEF Expire, SavedAreKept, Alone
<1>4. HeldAreWhole'
  BY <1>1 DEF DeleteCompensationHistory, Expire, HeldAreWhole, Whole
<1> QED
  BY <1>2, <1>3, <1>4 DEF RecordInv

\* Documents are marked where they are.
LEMMA MarkKeeps ==
  ASSUME RecordAssumption, RecordInv, NEW id \in RecordID, MarkCompensationStarted(id) \/ IncrementRetryCount(id)
  PROVE  RecordInv'
<1>1. /\ SavedAreKept /\ HeldAreWhole /\ docs[id] # Empty /\ UNCHANGED <<second, made, held, saved>>
      /\ Whole(docs[id], id) /\ docs[id].by \in saved /\ held \in [User -> HeldRecord]
  BY DocsAreWhole, MadeTyped DEF RecordInv, SavedAreKept, MarkCompensationStarted, IncrementRetryCount
<1>2. PICK d : docs' = [docs EXCEPT ![id] = d] /\ Whole(d, id) /\ d.by = docs[id].by
  <2>1. CASE MarkCompensationStarted(id)
    BY <1>1, <2>1, MarkedIsWhole DEF MarkCompensationStarted, RecordStatus
  <2>2. CASE IncrementRetryCount(id)
    <3> DEFINE d == [docs[id] EXCEPT !.retries = @ + 1]
    <3>1. docs[id] \in Doc /\ docs[id].retries + 1 \in 0..MaxIncrements
      BY <1>1, <2>2 DEF IncrementRetryCount, Whole, Doc, RecordAssumption
    <3>2. /\ d \in Doc /\ d.by = docs[id].by /\ d.status = docs[id].status
          /\ d.started = docs[id].started /\ d.ended = docs[id].ended
      BY <3>1 DEF Doc
    <3>3. docs' = [docs EXCEPT ![id] = d]
      BY <2>2 DEF IncrementRetryCount
    <3> HIDE DEF d
    <3>4. Whole(d, id)
      BY <1>1, <3>2 DEF Whole, TimesSound
    <3> QED
      BY <3>2, <3>3, <3>4
  <2> QED
    BY <2>1, <2>2
<1>3. saved' = saved \cup {d.by} /\ held' \in [User -> HeldRecord]
  BY <1>1, <1>2
<1>4. SavedAreKept'
  BY <1>1, <1>2, <1>3, RecordPut
<1>5. HeldAreWhole'
  BY <1>1 DEF HeldAreWhole, Whole
<1> QED
  BY <1>4, <1>5 DEF RecordInv

\* A record is saved, with what its caller has of it.
LEMMA SaveRecordKeeps ==
  ASSUME RecordAssumption, RecordInv, NEW u \in User, NEW again \in BOOLEAN, SaveCompensationRecord(u, again)
  PROVE  RecordInv'
<1> DEFINE id == held[u].id
           d == FieldsSet(docs[id], held[u].doc)
<1>1. /\ SavedAreKept /\ HeldAreWhole /\ RecordTypeOK /\ held \in [User -> HeldRecord] /\ Whole(held[u].doc, id)
      /\ docs' = [docs EXCEPT ![id] = d] /\ saved' = saved \cup {held[u].doc.by} /\ UNCHANGED <<second, made>>
  BY MadeTyped DEF RecordInv, SavedAreKept, HeldAreWhole, SaveCompensationRecord
<1>2. id \in RecordID /\ docs[id] \in Doc \cup {Empty}
  BY <1>1 DEF HeldRecord, RecordTypeOK
<1>3. Whole(d, id) /\ d.by = held[u].doc.by
  BY <1>1, <1>2, SetIsWhole
<1>4. NothingHeld \in HeldRecord /\ NothingHeld.what = "nothing"
  BY DEF NothingHeld, HeldRecord, RecordID, RecordAssumption
<1>5. /\ held' \in [User -> HeldRecord]
      /\ \A v \in User : held'[v] = held[v] \/ held'[v] = NothingHeld
  BY <1>1, <1>4 DEF SaveCompensationRecord
<1> HIDE DEF d, id
<1>6. SavedAreKept'
  BY <1>1, <1>2, <1>3, <1>5, RecordPut
<1>7. HeldAreWhole'
  BY <1>1, <1>4, <1>5 DEF HeldAreWhole, Whole
<1> QED
  BY <1>6, <1>7 DEF RecordInv

\* The update of a mark: a document that is gone stays gone.
LEMMA MarkEndedKeeps ==
  ASSUME RecordAssumption, RecordInv, NEW u \in User, MarkEnded(u)
  PROVE  RecordInv'
<1> DEFINE id == held[u].id
<1>1. /\ SavedAreKept /\ HeldAreWhole /\ RecordTypeOK /\ held \in [User -> HeldRecord]
      /\ docs' = [docs EXCEPT ![id] = Marked(u)] /\ held' = [held EXCEPT ![u] = NothingHeld]
      /\ held[u].what \in {"completed", "failed"} /\ UNCHANGED <<second, made, saved>>
  BY MadeTyped DEF RecordInv, SavedAreKept, MarkEnded
<1>2. id \in RecordID /\ held[u].what \in RecordStatus
  BY <1>1 DEF HeldRecord, RecordStatus
<1>3. NothingHeld \in HeldRecord /\ NothingHeld.what = "nothing"
  BY DEF NothingHeld, HeldRecord, RecordID, RecordAssumption
<1>4. CASE docs[id] = Empty
  <2>1. docs' = docs
    BY <1>1, <1>2, <1>4 DEF Marked, RecordTypeOK
  <2> QED
    BY <1>1, <1>3, <2>1, HeldKeeps
<1>5. CASE docs[id] # Empty
  <2>1. Whole(docs[id], id) /\ docs[id].by \in saved
    BY <1>1, <1>2, <1>5, DocsAreWhole
  <2>2. Marked(u) = WithStatus(docs[id], held[u].what)
    BY <1>5 DEF Marked
  <2>3. Whole(Marked(u), id) /\ Marked(u).by = docs[id].by
    BY <1>2, <2>1, <2>2, MarkedIsWhole
  <2>4. held' \in [User -> HeldRecord] /\ \A v \in User : held'[v] = held[v] \/ held'[v] = NothingHeld
    BY <1>1, <1>3
  <2>5. saved' = saved \cup {Marked(u).by}
    BY <1>1, <2>1, <2>3
  <2> HIDE DEF id
  <2>6. SavedAreKept'
    BY <1>1, <1>2, <2>3, <2>4, <2>5, RecordPut
  <2>7. HeldAreWhole'
    BY <1>1, <1>3, <2>4 DEF HeldAreWhole, Whole
  <2> QED
    BY <2>6, <2>7 DEF RecordInv
<1> QED
  BY <1>4, <1>5

\* A caller marks the record it made, or reads one to mark it.
LEMMA HoldKeeps ==
  ASSUME RecordAssumption, RecordInv, NEW u \in User,
         \/ \E label \in RecordStatus \ {"pending"} : MarkHeld(u, label)
         \/ \E id \in RecordID, how \in {"completed", "failed"} : ReadRecord(u, id, how)
  PROVE  RecordInv'
<1>1. SavedAreKept /\ HeldAreWhole /\ RecordTypeOK /\ held \in [User -> HeldRecord]
  BY MadeTyped DEF RecordInv, SavedAreKept
<1>2. ASSUME NEW label \in RecordStatus, MarkHeld(u, label) PROVE RecordInv'
  <2> DEFINE h == [held[u] EXCEPT !.doc = WithStatus(held[u].doc, label)]
  <2>1. Whole(WithStatus(held[u].doc, label), held[u].id)
    BY <1>1, <1>2, MarkedIsWhole DEF MarkHeld, HeldAreWhole
  <2>2. h \in HeldRecord /\ Whole(h.doc, h.id)
    BY <1>1, <2>1 DEF HeldRecord, Whole
  <2>3. held' = [held EXCEPT ![u] = h] /\ UNCHANGED <<second, made, docs, saved>>
    BY <1>2 DEF MarkHeld
  <2> HIDE DEF h
  <2> QED
    BY <1>1, <2>2, <2>3, HeldKeeps
<1>3. ASSUME NEW id \in RecordID, NEW how \in {"completed", "failed"}, ReadRecord(u, id, how) PROVE RecordInv'
  <2> DEFINE d == FreshRecord(docs[id].by, how)
             h == [what |-> how, id |-> id, doc |-> d]
  <2>1. docs[id].by \in 1..MaxRecords
    BY <1>1, <1>3, DocsAreWhole DEF ReadRecord, Whole, Doc
  <2>2. d \in Doc
    <3>1. 0 \in 0..MaxIncrements
      BY DEF RecordAssumption
    <3> QED
      BY <2>1, <3>1 DEF FreshRecord, Doc, RecordStatus
  <2>3. h \in HeldRecord /\ h.what # "record"
    BY <2>2 DEF HeldRecord
  <2>4. held' = [held EXCEPT ![u] = h] /\ UNCHANGED <<second, made, docs, saved>>
    BY <1>3 DEF ReadRecord
  <2> HIDE DEF h
  <2> QED
    BY <1>1, <2>3, <2>4, HeldKeeps
<1> QED
  BY <1>2, <1>3

\* Callers make, save and mark records while others delete them.
LEMMA RecordNextInv == ASSUME RecordAssumption, RecordInv, [RecordNext]_recordVars PROVE RecordInv'
<1>1. ASSUME Tick \/ UNCHANGED recordVars PROVE RecordInv'
  <2>1. RecordTypeOK' /\ UNCHANGED <<made, docs, held, saved>>
    BY <1>1 DEF Tick, recordVars, RecordInv, SavedAreKept, RecordTypeOK, RecordID, RecordAssumption
  <2>2. SavedAreKept'
    BY <2>1 DEF RecordInv, SavedAreKept, Alone
  <2>3. HeldAreWhole'
    BY <2>1 DEF RecordInv, HeldAreWhole, Whole
  <2> QED
    BY <2>2, <2>3 DEF RecordInv
<1> QED
  BY <1>1, NewKeeps, TakenOutKeeps, MarkKeeps, SaveRecordKeeps, MarkEndedKeeps, HoldKeeps DEF RecordNext

\* Every document is a record that was saved and not deleted since, and every such record that
\* was the only one of its second is in the collection.
THEOREM RecordsAreKept == ASSUME RecordAssumption PROVE RecordSpec => []SavedAreKept
<1>1. RecordInit => RecordInv
  BY RecordInitInv
<1>2. RecordInv /\ [RecordNext]_recordVars => RecordInv'
  BY RecordNextInv
<1>3. RecordInv => SavedAreKept
  BY DEF RecordInv
<1> QED
  BY <1>1, <1>2, <1>3, PTL DEF RecordSpec

\* What undoes the work of a workflow is safe: of its records, but those that share a second,
\* none is lost, and no file that is rolled back is, unless an attempt went on beside its
\* repetition (internal/workflow/compensation).
THEOREM UndoingSafe == ASSUME RecordAssumption, RollbackAssumption PROVE RecordSpec /\ RollbackSpec => []UndoingIsSafe
<1>1. SavedAreKept /\ NothingLost => UndoingIsSafe
  BY DEF UndoingIsSafe
<1> QED
  BY <1>1, RecordsAreKept, RollbackIsSafe, PTL

-----------------------------------------------------------------------------
(* Migrations *)

\* What a process is about to do was decided on what it read: a process that runs
\* up is at the first version of its binary that was missing, and what comes before
\* it is applied, unless somebody rolled back.
UpInOrder ==
    \A p \in Migrator : migrator[p].command = "up" /\ migrator[p].at = "run" =>
        /\ migrator[p].next \in Embedded[p] \ migrator[p].applied
        /\ ~rolledBack => /\ migrator[p].applied \subseteq versions
                          /\ \A w \in Embedded[p] : w < migrator[p].next => w \in versions

MigrateInv == MigrateTypeOK /\ VersionsInStep /\ UpInOrder

\* A binary that is not fully applied has a first version to apply.
LEMMA FirstExists ==
  ASSUME NEW S \in SUBSET Nat, S # {}
  PROVE  FirstVersion(S) \in S /\ \A w \in S : FirstVersion(S) <= w
  BY LeastExists DEF FirstVersion

\* Versions are positive numbers, and those of a binary come without a gap.
LEMMA VersionsAreNumbers ==
  ASSUME EmbeddedAssumption
  PROVE  \A p \in Migrator : /\ Embedded[p] \subseteq Version /\ Embedded[p] \subseteq Nat \ {0}
                             /\ \A v \in Embedded[p] : 1..v \subseteq Embedded[p]
<1> SUFFICES ASSUME NEW p \in Migrator
             PROVE  /\ Embedded[p] \subseteq Version /\ Embedded[p] \subseteq Nat \ {0}
                    /\ \A v \in Embedded[p] : 1..v \subseteq Embedded[p]
  OBVIOUS
<1>1. PICK n \in Nat : Embedded[p] = 1..n
  BY DEF EmbeddedAssumption
<1> QED
  BY <1>1 DEF Version

\* A fresh database has no tables and no rows.
LEMMA MigrateInitInv == ASSUME EmbeddedAssumption, MigrateInit PROVE MigrateInv
<1>1. MigrateTypeOK
  <2>1. commands \in 0..MaxCommands
    BY DEF EmbeddedAssumption, MigrateInit
  <2>2. [command |-> "none", at |-> "idle", applied |-> {}, next |-> 0] \in
          [command : {"none", "up", "down", "reset"}, at : {"idle", "read", "run", "ok", "error"},
           applied : SUBSET Version, next : Version \cup {0}]
    OBVIOUS
  <2> QED
    BY <2>1, <2>2 DEF MigrateInit, MigrateTypeOK
<1> QED
  BY <1>1 DEF MigrateInit, MigrateInv, VersionsInStep, UpInOrder

\* The step of one process leaves the others in order as long as versions only come.
LEMMA OthersInOrder ==
  ASSUME MigrateInv, NEW p \in Migrator, NEW s, migrator' = [migrator EXCEPT ![p] = s],
         rolledBack' \/ (rolledBack' = rolledBack /\ versions \subseteq versions')
  PROVE  \A q \in Migrator \ {p} :
            /\ migrator'[q].command = "up" /\ migrator'[q].at = "run" =>
                  /\ migrator'[q].next \in Embedded[q] \ migrator'[q].applied
                  /\ ~rolledBack' => /\ migrator'[q].applied \subseteq versions'
                                     /\ \A w \in Embedded[q] : w < migrator'[q].next => w \in versions'
            /\ ~rolledBack' /\ migrator'[q].command = "up" /\ migrator'[q].at = "ok" => Embedded[q] \subseteq versions'
<1>1. \A q \in Migrator \ {p} : migrator'[q] = migrator[q]
  BY DEF MigrateInv, MigrateTypeOK
<1> QED
  BY <1>1 DEF MigrateInv, UpInOrder, VersionsInStep

\* A process whose record is s now is in order, as the inductive invariant has it of all.
InOrder(p, s) ==
    /\ s.command = "up" /\ s.at = "run" =>
          /\ s.next \in Embedded[p] \ s.applied
          /\ ~rolledBack => /\ s.applied \subseteq versions
                            /\ \A w \in Embedded[p] : w < s.next => w \in versions
    /\ ~rolledBack /\ s.command = "up" /\ s.at = "ok" => Embedded[p] \subseteq versions

MigratorRecord ==
    [command : {"none", "up", "down", "reset"}, at : {"idle", "read", "run", "ok", "error"},
     applied : SUBSET Version, next : Version \cup {0}]

\* What is to be shown of a step of one process.
LEMMA StepKeeps ==
  ASSUME EmbeddedAssumption, MigrateInv, NEW p \in Migrator, NEW s \in MigratorRecord,
         migrator' = [migrator EXCEPT ![p] = s],
         schema' = versions', versions' \subseteq Version, commands' \in 0..MaxCommands, rolledBack' \in BOOLEAN,
         rolledBack' \/ (rolledBack' = rolledBack /\ versions \subseteq versions'),
         ~rolledBack' => \A v \in versions' : 1..v \subseteq versions',
         InOrder(p, migrator[p])'
  PROVE  MigrateInv'
<1>1. migrator \in [Migrator -> MigratorRecord]
  BY DEF MigrateInv, MigrateTypeOK, MigratorRecord
<1>2. MigrateTypeOK'
  BY <1>1 DEF MigrateTypeOK, MigratorRecord
<1>3. \A q \in Migrator : InOrder(q, migrator[q])'
  BY OthersInOrder DEF InOrder
<1> QED
  BY <1>2, <1>3 DEF MigrateInv, VersionsInStep, UpInOrder, InOrder

\* A process reads what is applied and decides where to begin.
LEMMA GetAppliedKeeps ==
  ASSUME EmbeddedAssumption, MigrateInv, NEW p \in Migrator, GetAppliedMigrations(p)
  PROVE  MigrateInv'
<1> DEFINE s == migrator[p]
           missing == Embedded[p] \ versions
<1>1. s \in MigratorRecord /\ versions \subseteq Version
  BY DEF MigrateInv, MigrateTypeOK, MigratorRecord
<1>2. UNCHANGED <<schema, versions, commands, rolledBack>> /\ s.at = "read"
  BY DEF GetAppliedMigrations
<1>3. PICK t : /\ migrator' = [migrator EXCEPT ![p] = t]
               /\ \/ t = [command |-> "up", applied |-> versions, at |-> IF missing = {} THEN "ok" ELSE "run",
                          next |-> IF missing = {} THEN 0 ELSE FirstVersion(missing)]
                  \/ t = [s EXCEPT !.at = "ok"] /\ s.command # "up"
                  \/ /\ LastVersion(versions) \in Embedded[p] /\ s.command # "up"
                     /\ t = [s EXCEPT !.at = "run", !.applied = versions, !.next = LastVersion(versions)]
                  \/ t = [s EXCEPT !.at = "error", !.applied = versions]
  BY DEF GetAppliedMigrations
<1>4. missing # {} => FirstVersion(missing) \in missing /\ \A w \in missing : FirstVersion(missing) <= w
  BY FirstExists, VersionsAreNumbers
<1>5. t \in MigratorRecord
  <2>1. Embedded[p] \subseteq Version
    BY VersionsAreNumbers
  <2>2. (IF missing = {} THEN 0 ELSE FirstVersion(missing)) \in Version \cup {0}
    BY <1>4, <2>1
  <2>3. LastVersion(versions) \in Embedded[p] => LastVersion(versions) \in Version \cup {0}
    BY <2>1
  <2>4. ASSUME NEW next \in Version \cup {0}, NEW at \in {"ok", "run"}
        PROVE  [command |-> "up", applied |-> versions, at |-> at, next |-> next] \in MigratorRecord
    BY <1>1 DEF MigratorRecord
  <2>5. /\ [s EXCEPT !.at = "ok"] \in MigratorRecord
        /\ [s EXCEPT !.at = "error", !.applied = versions] \in MigratorRecord
        /\ \A next \in Version \cup {0} :
              [s EXCEPT !.at = "run", !.applied = versions, !.next = next] \in MigratorRecord
    BY <1>1 DEF MigratorRecord
  <2>6. (IF missing = {} THEN "ok" ELSE "run") \in {"ok", "run"}
    OBVIOUS
  <2> HIDE DEF missing, s
  <2> QED
    BY <1>3, <2>2, <2>3, <2>4, <2>5, <2>6
<1>6. migrator'[p] = t
  BY <1>3 DEF MigrateInv, MigrateTypeOK
<1>7. InOrder(p, migrator[p])'
  <2>1. t.command = "up" => t.at = "error" \/ t = [command |-> "up", applied |-> versions, at |-> IF missing = {} THEN "ok" ELSE "run",
                                  next |-> IF missing = {} THEN 0 ELSE FirstVersion(missing)]
    BY <1>1, <1>3 DEF MigratorRecord
  <2>2. ASSUME t.command = "up", t.at = "run"
        PROVE  /\ missing # {} /\ t.next = FirstVersion(missing) /\ t.applied = versions
    BY <2>1, <2>2
  <2>3. ASSUME t.command = "up", t.at = "run", NEW w \in Embedded[p], w < t.next PROVE w \in versions
    <3>1. FirstVersion(missing) \in Nat /\ w \in Nat
      BY <1>4, <2>2, <2>3, VersionsAreNumbers
    <3>2. w \notin missing
      BY <1>4, <2>2, <2>3, <3>1
    <3> QED
      BY <2>3, <3>2
  <2>4. ASSUME t.command = "up", t.at = "ok" PROVE Embedded[p] \subseteq versions
    BY <2>1, <2>4
  <2> QED
    BY <1>2, <1>4, <1>6, <2>2, <2>3, <2>4 DEF InOrder
<1> QED
  BY <1>2, <1>3, <1>5, <1>7, StepKeeps DEF MigrateInv, MigrateTypeOK, VersionsInStep

\* A version is applied, or its transaction fails.
LEMMA RunUpKeeps ==
  ASSUME EmbeddedAssumption, MigrateInv, NEW p \in Migrator, NEW committed \in BOOLEAN, RunUp(p, committed)
  PROVE  MigrateInv'
<1> DEFINE s == migrator[p]
           v == s.next
           later == {w \in Embedded[p] \ s.applied : w > v}
<1>1. s \in MigratorRecord /\ versions \subseteq Version /\ schema = versions
  BY DEF MigrateInv, MigrateTypeOK, MigratorRecord, VersionsInStep
<1>2. /\ s.at = "run" /\ s.command = "up" /\ v \in Embedded[p] \ s.applied /\ UNCHANGED <<commands, rolledBack>>
      /\ ~rolledBack => s.applied \subseteq versions /\ \A w \in Embedded[p] : w < v => w \in versions
  BY DEF RunUp, MigrateInv, UpInOrder
<1>3. Embedded[p] \subseteq Version /\ Embedded[p] \subseteq Nat \ {0} /\ 1..v \subseteq Embedded[p]
  BY <1>2, VersionsAreNumbers
<1>4. CASE committed /\ CanInsert(v)
  <2>1. schema' = versions' /\ versions' = versions \cup {v} /\ migrator' = [migrator EXCEPT ![p] = Continue(p, v)]
    BY <1>1, <1>4 DEF RunUp
  <2>2. Continue(p, v) = IF later = {} THEN [s EXCEPT !.at = "ok", !.next = 0]
                                       ELSE [s EXCEPT !.next = FirstVersion(later)]
    BY <1>2 DEF Continue
  <2>3. later # {} => FirstVersion(later) \in later /\ \A w \in later : FirstVersion(later) <= w
    BY <1>3, FirstExists
  <2>4. Continue(p, v) \in MigratorRecord
    BY <1>1, <1>3, <2>2, <2>3 DEF MigratorRecord
  <2>5. migrator'[p] = Continue(p, v)
    BY <2>1 DEF MigrateInv, MigrateTypeOK
  <2>6. ASSUME ~rolledBack, NEW u \in versions' PROVE 1..u \subseteq versions'
    <3>1. CASE u = v
      BY <1>2, <1>3, <2>1, <2>6, <3>1
    <3>2. CASE u \in versions
      BY <2>1, <2>6, <3>2 DEF MigrateInv, VersionsInStep
    <3> QED
      BY <2>1, <2>6, <3>1, <3>2
  <2>7. InOrder(p, migrator[p])'
    <3>1. CASE later = {}
      <4>1. Continue(p, v).at = "ok"
        BY <1>1, <2>2, <3>1 DEF MigratorRecord
      <4>2. ASSUME ~rolledBack, NEW w \in Embedded[p] PROVE w \in versions'
        BY <1>2, <1>3, <2>1, <3>1, <4>2
      <4> QED
        BY <1>2, <2>5, <4>1, <4>2 DEF InOrder
    <3>2. CASE later # {}
      <4> DEFINE next == FirstVersion(later)
      <4>1. /\ Continue(p, v).at = "run" /\ Continue(p, v).next = next
            /\ Continue(p, v).applied = s.applied
        BY <1>1, <1>2, <2>2, <3>2 DEF MigratorRecord
      <4>2. ASSUME ~rolledBack, NEW w \in Embedded[p], w < next PROVE w \in versions'
        <5>1. next \in Nat /\ w \in Nat
          BY <1>3, <2>3, <3>2
        <5>2. w \notin later
          BY <2>3, <3>2, <4>2, <5>1
        <5> QED
          BY <1>2, <1>3, <2>1, <4>2, <5>1, <5>2
      <4>3. next \in Embedded[p] \ s.applied
        BY <2>3, <3>2
      <4> HIDE DEF next
      <4> QED
        BY <1>2, <2>1, <2>5, <4>1, <4>2, <4>3 DEF InOrder
    <3> QED
      BY <3>1, <3>2
  <2>8. versions' \subseteq Version
    BY <1>1, <1>2, <1>3, <2>1
  <2> QED
    BY <1>2, <2>1, <2>4, <2>6, <2>7, <2>8, StepKeeps DEF MigrateInv, MigrateTypeOK
<1>5. CASE ~(committed /\ CanInsert(v))
  <2>1. migrator' = [migrator EXCEPT ![p] = [s EXCEPT !.at = "error"]] /\ UNCHANGED <<schema, versions>>
    BY <1>5 DEF RunUp, AfterRollback
  <2>2. [s EXCEPT !.at = "error"] \in MigratorRecord
    BY <1>1 DEF MigratorRecord
  <2>3. InOrder(p, migrator[p])'
    BY <1>1, <2>1 DEF MigrateInv, MigrateTypeOK, MigratorRecord, InOrder
  <2> QED
    BY <1>2, <2>1, <2>2, <2>3, StepKeeps DEF MigrateInv, MigrateTypeOK, VersionsInStep
<1> QED
  BY <1>4, <1>5

\* A version is rolled back, or its transaction fails.
LEMMA RunDownKeeps ==
  ASSUME EmbeddedAssumption, MigrateInv, NEW p \in Migrator, NEW committed \in BOOLEAN, RunDown(p, committed)
  PROVE  MigrateInv'
<1> DEFINE s == migrator[p]
<1>1. s \in MigratorRecord /\ versions \subseteq Version /\ schema = versions /\ s.command \in {"down", "reset"}
  BY DEF RunDown, MigrateInv, MigrateTypeOK, MigratorRecord, VersionsInStep
<1>2. PICK t \in {[s EXCEPT !.at = "read", !.next = 0], [s EXCEPT !.at = "ok", !.next = 0], [s EXCEPT !.at = "error"]} :
        migrator' = [migrator EXCEPT ![p] = t]
  BY <1>1 DEF RunDown, Continue
<1>3. t \in MigratorRecord /\ t.command = s.command
  BY <1>1, <1>2 DEF MigratorRecord
<1>4. InOrder(p, migrator[p])'
  BY <1>1, <1>2, <1>3 DEF MigrateInv, MigrateTypeOK, InOrder
<1>5. /\ schema' = versions' /\ versions' \subseteq Version /\ UNCHANGED commands
      /\ rolledBack' = TRUE \/ UNCHANGED <<versions, rolledBack>>
  BY <1>1 DEF RunDown
<1> QED
  <2>1. ~rolledBack' => \A v \in versions' : 1..v \subseteq versions'
    BY <1>5 DEF MigrateInv, VersionsInStep
  <2>2. commands' \in 0..MaxCommands /\ rolledBack' \in BOOLEAN
    BY <1>5 DEF MigrateInv, MigrateTypeOK
  <2> HIDE DEF s
  <2> QED
    BY <1>2, <1>3, <1>4, <1>5, <2>1, <2>2, StepKeeps

\* Every process keeps the schema in order.
LEMMA MigrateNextInv == ASSUME EmbeddedAssumption, MigrateInv, [MigrateNext]_migrateVars PROVE MigrateInv'
<1>1. ASSUME NEW p \in Migrator, NEW command \in {"up", "down", "reset"}, Begin(p, command) PROVE MigrateInv'
  <2> DEFINE t == [command |-> command, at |-> "read", applied |-> {}, next |-> 0]
  <2>1. t \in MigratorRecord /\ t.at = "read"
    BY DEF MigratorRecord
  <2>2. migrator' = [migrator EXCEPT ![p] = t] /\ UNCHANGED <<schema, versions, rolledBack>>
    BY <1>1 DEF Begin
  <2>3. commands' \in 0..MaxCommands
    BY <1>1 DEF Begin, MigrateInv, MigrateTypeOK, EmbeddedAssumption
  <2>4. InOrder(p, migrator[p])'
    BY <2>1, <2>2 DEF MigrateInv, MigrateTypeOK, InOrder
  <2> QED
    BY <2>1, <2>2, <2>3, <2>4, StepKeeps DEF MigrateInv, MigrateTypeOK, VersionsInStep
<1>2. ASSUME UNCHANGED migrateVars PROVE MigrateInv'
  BY <1>2 DEF migrateVars, MigrateInv, MigrateTypeOK, VersionsInStep, UpInOrder
<1> QED
  BY <1>1, <1>2, GetAppliedKeeps, RunUpKeeps, RunDownKeeps DEF MigrateNext

\* Processes that migrate one database together leave its tables and its versions in step.
THEOREM MigrationsConsistent == ASSUME EmbeddedAssumption PROVE MigrateSpec => []SchemaConsistent
<1>1. MigrateInit => MigrateInv
  BY MigrateInitInv
<1>2. MigrateInv /\ [MigrateNext]_migrateVars => MigrateInv'
  BY MigrateNextInv
<1>3. MigrateInv => SchemaConsistent
  BY DEF MigrateInv, SchemaConsistent
<1> QED
  BY <1>1, <1>2, <1>3, PTL DEF MigrateSpec

-----------------------------------------------------------------------------
(* Workflow runs and their rows *)

\* The row that a cancel finds is one of the workflow's.
LEMMA NewestIsThere ==
  ASSUME RunTypeOK, NEW w, NewestRow(w) # 0
  PROVE  NewestRow(w) \in DOMAIN rows /\ rows[NewestRow(w)].workflow = w
<1> DEFINE mine == {i \in 1..Len(rows) : rows[i].workflow = w}
<1>1. NewestRow(w) = IF mine # {} THEN Max(mine) ELSE 0
  BY DEF NewestRow, SelectLastInSeq
<1>2. Len(rows) \in Nat /\ DOMAIN rows = 1..Len(rows)
  BY DEF RunTypeOK
<1>3. mine # {} => Max(mine) \in mine
  BY <1>2, GreatestExists
<1> QED
  BY <1>1, <1>2, <1>3

Starting == {"execute", "execute_call", "running", "failed"}

Request == [stage : Stage, row : 0..Len(rows), client : 0..engines]

\* What a handler x has done is in its row: the start it made, the cancel it made,
\* and nothing before it has.
InStep(x) ==
    /\ x.stage # "idle" => x.row \in DOMAIN rows
    /\ x.stage \in Starting => rows[x.row].status \in {"pending", "canceled"}
    /\ x.stage \in {"execute", "execute_call"} => x.row \notin begun /\ <<"start", x.row>> \notin astray
    /\ x.stage = "failed" /\ x.row \in begun => <<"start", x.row>> \in astray
    /\ x.stage = "running" => x.row \in begun
    /\ x.stage = "canceled" => x.row \in revoked

HandlersInStep == \A h \in Handler : InStep(handler[h])

\* A row is started by the handler that made it alone.
OneStarter ==
    \A g, h \in Handler : g # h /\ handler[g].stage \in Starting /\ handler[h].stage \in Starting =>
        handler[g].row # handler[h].row

AboutToWrite(r, label) == \E h \in Handler : handler[h].row = r /\ handler[h].stage = label

\* A row in the table against what Temporal was asked.
RowTrue(r) ==
    /\ rows[r].status = "running" => r \in begun
    /\ rows[r].status = "canceled" => r \in revoked
    /\ rows[r].status = "failed" /\ r \in begun => <<"start", r>> \in astray
    /\ rows[r].status \in {"failed", "canceled"} => rows[r].finished
    /\ rows[r].finished => rows[r].status = "failed" \/ r \in revoked
    /\ rows[r].status = "pending" /\ r \in begun =>
          r \in unwritten \/ AboutToWrite(r, "running") \/ AboutToWrite(r, "failed")
    /\ rows[r].status = "pending" /\ <<"start", r>> \in astray => r \in unwritten \/ AboutToWrite(r, "failed")
    /\ rows[r].status = "pending" /\ r \in revoked =>
          r \in unwritten \/ AboutToWrite(r, "canceled") \/ <<"cancel", r>> \in astray

RunInv == RunTypeOK /\ HandlersInStep /\ OneStarter /\ \A r \in DOMAIN rows : RowTrue(r)

\* The rows are a sequence of rows.
LEMMA RowsTyped ==
  ASSUME RunTypeOK
  PROVE  /\ Len(rows) \in Nat /\ DOMAIN rows = 1..Len(rows)
         /\ \A r \in DOMAIN rows : rows[r] \in Row
         /\ engines \in Nat /\ handler \in [Handler -> Request]
  BY DEF RunTypeOK, Request

\* The invariant says of the rows what is wanted.
LEMMA RunInvStrong == RunInv => RowsTruthful
<1> SUFFICES ASSUME RunInv PROVE RowsTruthful
  OBVIOUS
<1>1. ASSUME NEW r \in DOMAIN rows, rows[r].status = "pending", ~Serving(r), r \notin unwritten
      PROVE  r \notin begun /\ (r \in revoked => <<"cancel", r>> \in astray)
  BY <1>1 DEF RunInv, RowTrue, AboutToWrite, Serving
<1> QED
  BY <1>1 DEF RunInv, RowTrue, RowsTruthful

\* A handler that has nothing to write goes on; the table stays as it is.
LEMMA HandlerMoves ==
  ASSUME RunInv, NEW h \in Handler, NEW x \in Request, handler' = [handler EXCEPT ![h] = x],
         UNCHANGED <<engine, engines, rows, begun, revoked, astray, unwritten>>, open' \subseteq WorkflowID,
         handler[h].stage \notin {"running", "canceled", "failed"}, InStep(x),
         x.stage \in Starting => handler[h].stage \in Starting /\ x.row = handler[h].row
  PROVE  RunInv'
<1>0. handler \in [Handler -> Request] /\ handler'[h] = x /\ \A g \in Handler \ {h} : handler'[g] = handler[g]
  BY RowsTyped DEF RunInv
<1>1. RunTypeOK'
  BY DEF RunInv, RunTypeOK, Request
<1>2. HandlersInStep'
  BY <1>0 DEF RunInv, HandlersInStep, InStep
<1>3. OneStarter'
  BY <1>0 DEF RunInv, OneStarter
<1>4. ASSUME NEW r \in DOMAIN rows PROVE RowTrue(r)'
  BY <1>0 DEF RunInv, RowTrue, AboutToWrite
<1> QED
  BY <1>1, <1>2, <1>3, <1>4 DEF RunInv

\* The engine starts and stops, and runs end, without the table being told.
LEMMA EngineKeeps ==
  ASSUME RunAssumption, RunInv, StartEngine \/ StopEngine \/ (\E w \in WorkflowID : RunEnds(w)) \/ UNCHANGED runVars
  PROVE  RunInv'
<1>1. UNCHANGED <<rows, begun, revoked, astray, unwritten, handler>>
  BY DEF StartEngine, StopEngine, RunEnds, runVars
<1>2. /\ engines' \in 0..MaxEngines /\ engines' >= engines /\ engine' \in 0..engines' /\ open' \subseteq WorkflowID
  BY DEF StartEngine, StopEngine, RunEnds, runVars, RunInv, RunTypeOK, RunAssumption
<1>3. RunTypeOK'
  <2>1. engines \in Nat /\ engines' \in Nat
    BY <1>2, RowsTyped DEF RunInv, RunAssumption
  <2>2. 0..engines \subseteq 0..engines'
    BY <1>2, <2>1
  <2> HIDE DEF RunInv
  <2>3. \A h \in Handler : handler[h] \in [stage : Stage, row : 0..Len(rows), client : 0..engines']
    BY <2>2, RowsTyped DEF RunInv, Request
  <2>4. handler \in [Handler -> [stage : Stage, row : 0..Len(rows), client : 0..engines']]
    BY <2>3, RowsTyped DEF RunInv
  <2> QED
    BY <1>1, <1>2, <2>4 DEF RunInv, RunTypeOK
<1> QED
  BY <1>1, <1>3 DEF RunInv, HandlersInStep, InStep, OneStarter, RowTrue, AboutToWrite

\* A call takes the engine's client, if there is one.
LEMMA TakeClientKeeps ==
  ASSUME RunInv, NEW h \in Handler,
         TakeClient(h, "execute", "execute_call", "failed") \/ TakeClient(h, "cancel", "cancel_call", "idle")
  PROVE  RunInv'
<1> DEFINE x == [handler[h] EXCEPT !.client = engine, !.stage =
                   IF handler[h].stage = "execute" THEN IF engine = 0 THEN "failed" ELSE "execute_call"
                   ELSE IF engine = 0 THEN "idle" ELSE "cancel_call"]
<1>1. handler[h] \in Request /\ engine \in 0..engines
  BY RowsTyped DEF RunInv, RunTypeOK
<1>2. /\ handler' = [handler EXCEPT ![h] = x] /\ UNCHANGED <<engine, engines, rows, open, begun, revoked, astray, unwritten>>
      /\ handler[h].stage \in {"execute", "cancel"}
  BY DEF TakeClient
<1>3. /\ x \in Request /\ x.row = handler[h].row
      /\ x.stage = IF handler[h].stage = "execute" THEN IF engine = 0 THEN "failed" ELSE "execute_call"
                   ELSE IF engine = 0 THEN "idle" ELSE "cancel_call"
  BY <1>1 DEF Request, Stage
<1> HIDE DEF x
<1>4. InStep(x)
  BY <1>2, <1>3 DEF RunInv, HandlersInStep, InStep, Starting
<1> QED
  BY <1>2, <1>3, <1>4, HandlerMoves DEF Starting, RunInv, RunTypeOK

\* A handler gives up, or begins to cancel the newest row of a workflow.
LEMMA LookUpKeeps ==
  ASSUME RunInv, NEW h \in Handler, RejectInput(h) \/ \E w \in WorkflowID : LookUp(h, w)
  PROVE  RunInv'
<1>1. ASSUME RejectInput(h) PROVE RunInv'
  <2>1. IdleHandler \in Request /\ InStep(IdleHandler)
    BY RowsTyped DEF RunInv, IdleHandler, Request, Stage, InStep, Starting
  <2>2. /\ handler' = [handler EXCEPT ![h] = IdleHandler] /\ handler[h].stage = "execute"
        /\ UNCHANGED <<engine, engines, rows, open, begun, revoked, astray, unwritten>>
    BY <1>1 DEF RejectInput, Back
  <2>3. IdleHandler.stage \notin Starting
    BY DEF IdleHandler, Starting
  <2> QED
    BY <2>1, <2>2, <2>3, HandlerMoves DEF RunInv, RunTypeOK
<1>2. ASSUME NEW w \in WorkflowID, LookUp(h, w) PROVE RunInv'
  <2> DEFINE x == [stage |-> "cancel", row |-> NewestRow(w), client |-> 0]
  <2>1. /\ handler' = [handler EXCEPT ![h] = x] /\ handler[h].stage = "idle" /\ NewestRow(w) # 0
        /\ UNCHANGED <<engine, engines, rows, open, begun, revoked, astray, unwritten>>
    BY <1>2 DEF LookUp
  <2>2. NewestRow(w) \in DOMAIN rows
    BY <2>1, NewestIsThere DEF RunInv
  <2>3. x \in Request /\ InStep(x) /\ x.stage = "cancel"
    BY <2>2, RowsTyped DEF RunInv, Request, Stage, InStep, Starting
  <2> HIDE DEF x
  <2> QED
    BY <2>1, <2>3, HandlerMoves DEF Starting, RunInv, RunTypeOK
<1> QED
  BY <1>1, <1>2

\* A new row at the end of the table, and the handler that starts it.
LEMMA SaveKeeps ==
  ASSUME RunAssumption, RunInv, NEW h \in Handler, NEW w \in WorkflowID, SaveExecution(h, w)
  PROVE  RunInv'
<1> DEFINE n == Len(rows) + 1
           row == [workflow |-> w, status |-> "pending", finished |-> FALSE]
           x == [stage |-> "execute", row |-> n, client |-> 0]
<1>1. /\ handler[h].stage = "idle" /\ Len(rows) < MaxStarts /\ rows' = Append(rows, row)
      /\ handler' = [handler EXCEPT ![h] = x]
      /\ UNCHANGED <<engine, engines, open, begun, revoked, astray, unwritten>>
  BY DEF SaveExecution
<1>2. /\ Len(rows) \in Nat /\ DOMAIN rows = 1..Len(rows) /\ engines \in Nat /\ handler \in [Handler -> Request]
      /\ begun \subseteq DOMAIN rows /\ revoked \subseteq DOMAIN rows /\ unwritten \subseteq DOMAIN rows
      /\ rows \in Seq(Row) /\ MaxStarts \in Nat
      /\ \A r : <<"start", r>> \in astray \/ <<"cancel", r>> \in astray => r \in DOMAIN rows
  BY RowsTyped DEF RunInv, RunTypeOK, RunAssumption
<1>3. row \in Row /\ row.status = "pending" /\ row.finished = FALSE
  BY DEF Row
<1> HIDE DEF row
<1>4. /\ rows' \in Seq(Row) /\ Len(rows') = n /\ DOMAIN rows' = 1..n /\ rows'[n] = row
      /\ \A r \in DOMAIN rows : rows'[r] = rows[r]
  BY <1>1, <1>2, <1>3
<1>5. n \in Nat /\ n \notin DOMAIN rows /\ n <= MaxStarts /\ 1..n = 1..Len(rows) \cup {n} /\ 0..Len(rows) \subseteq 0..n
  BY <1>1, <1>2
<1>6. x.stage = "execute" /\ x.row = n /\ handler'[h] = x /\ \A g \in Handler \ {h} : handler'[g] = handler[g]
  BY <1>1, <1>2
<1>7. x \in [stage : Stage, row : 0..n, client : 0..engines]
  BY <1>2 DEF Stage
<1> HIDE DEF n, x
<1>8. \A g \in Handler : handler'[g] \in [stage : Stage, row : 0..n, client : 0..engines]
  <2> SUFFICES ASSUME NEW g \in Handler, g # h PROVE handler[g] \in [stage : Stage, row : 0..n, client : 0..engines]
    BY <1>6, <1>7
  <2> QED
    BY <1>2, <1>5 DEF Request
<1>9. RunTypeOK'
  <2>1. handler' \in [Handler -> [stage : Stage, row : 0..Len(rows'), client : 0..engines']]
    BY <1>1, <1>2, <1>4, <1>8
  <2>2. astray \subseteq {"start", "cancel"} \X DOMAIN rows'
    BY <1>2, <1>4, <1>5 DEF RunInv, RunTypeOK
  <2> QED
    BY <1>1, <1>2, <1>4, <1>5, <2>1, <2>2 DEF RunInv, RunTypeOK
<1>10. HandlersInStep'
  <2>1. InStep(handler[h])'
    BY <1>1, <1>2, <1>3, <1>4, <1>5, <1>6 DEF InStep, Starting
  <2>2. ASSUME NEW g \in Handler, g # h PROVE InStep(handler[g])'
    <3>1. InStep(handler[g])
      BY DEF RunInv, HandlersInStep
    <3> QED
      BY <1>1, <1>2, <1>4, <1>5, <1>6, <2>2, <3>1 DEF InStep, Starting
  <2> QED
    BY <2>1, <2>2 DEF HandlersInStep
<1>11. OneStarter'
  <2>1. \A g \in Handler : handler[g].stage \in Starting => handler[g].row # n
    BY <1>5 DEF RunInv, HandlersInStep, InStep, Starting
  <2> QED
    BY <1>6, <2>1 DEF RunInv, OneStarter
<1>12. ASSUME NEW r \in DOMAIN rows' PROVE RowTrue(r)'
  <2>1. CASE r = n
    BY <1>1, <1>2, <1>3, <1>4, <1>5, <2>1 DEF RowTrue
  <2>2. CASE r \in DOMAIN rows
    <3>1. \A label \in {"running", "canceled", "failed"} : AboutToWrite(r, label) => AboutToWrite(r, label)'
      BY <1>1, <1>6 DEF AboutToWrite
    <3> QED
      BY <1>1, <1>4, <2>2, <3>1 DEF RunInv, RowTrue
  <2> QED
    BY <1>2, <1>4, <1>5, <1>12, <2>1, <2>2
<1> QED
  BY <1>9, <1>10, <1>11, <1>12 DEF RunInv

\* A start reaches Temporal, or does not.
LEMMA ExecuteKeeps == ASSUME RunInv, NEW h \in Handler, NEW ok \in BOOLEAN, ExecuteWorkflow(h, ok) PROVE RunInv'
<1> DEFINE r == handler[h].row
           x == [handler[h] EXCEPT !.stage = IF ok THEN "running" ELSE "failed"]
<1>1. /\ handler[h].stage = "execute_call" /\ handler' = [handler EXCEPT ![h] = x]
      /\ begun' = IF ok THEN begun \cup {r} ELSE begun
      /\ UNCHANGED <<engine, engines, rows, revoked, unwritten>>
      /\ astray' = IF ok THEN astray ELSE astray \cup {<<"start", r>>}
      /\ open' = IF ok THEN open \cup {rows[r].workflow} ELSE open
  BY DEF ExecuteWorkflow, To
<1>2. handler \in [Handler -> Request] /\ handler[h] \in Request /\ InStep(handler[h]) /\ r \in DOMAIN rows /\ rows[r] \in Row
  BY <1>1, RowsTyped DEF RunInv, HandlersInStep, InStep
<1>3. x \in Request /\ x.row = r /\ x.stage = IF ok THEN "running" ELSE "failed"
  BY <1>2 DEF Request, Stage
<1> HIDE DEF x
<1>4. handler'[h] = x /\ \A g \in Handler \ {h} : handler'[g] = handler[g]
  BY <1>1, <1>2
<1>5. \A g \in Handler \ {h} : handler[g].stage \in Starting => handler[g].row # r
  BY <1>1 DEF RunInv, OneStarter, Starting
<1> HIDE DEF r
<1>6. RunTypeOK'
  <2>1. handler' \in [Handler -> Request]
    BY <1>1, <1>2, <1>3
  <2> QED
    BY <1>1, <1>2, <2>1 DEF RunInv, RunTypeOK, Request, Row
<1>7. HandlersInStep'
  <2>1. InStep(handler[h])'
    BY <1>1, <1>2, <1>3, <1>4 DEF InStep, Starting, r
  <2>2. ASSUME NEW g \in Handler, g # h PROVE InStep(handler[g])'
    <3>1. InStep(handler[g])
      BY DEF RunInv, HandlersInStep
    <3> QED
      BY <1>1, <1>4, <1>5, <2>2, <3>1 DEF InStep, Starting
  <2> QED
    BY <2>1, <2>2 DEF HandlersInStep
<1>8. OneStarter'
  BY <1>3, <1>4, <1>5 DEF RunInv, OneStarter
<1>9. ASSUME NEW s \in DOMAIN rows PROVE RowTrue(s)'
  <2>0. RowTrue(s)
    BY DEF RunInv
  <2>1. \A label \in {"running", "canceled", "failed"} : AboutToWrite(s, label) => AboutToWrite(s, label)'
    BY <1>1, <1>4 DEF AboutToWrite
  <2>2. CASE s = r
    <3>1. IF ok THEN AboutToWrite(s, "running")' ELSE AboutToWrite(s, "failed")'
      BY <1>3, <1>4, <2>2 DEF AboutToWrite
    <3>2. rows[s].status \in {"pending", "canceled"} /\ <<"start", s>> \notin astray
      BY <1>1, <1>2, <2>2 DEF InStep, Starting, r
    <3> QED
      BY <1>1, <2>0, <2>1, <2>2, <3>1, <3>2 DEF RowTrue
  <2>3. CASE s # r
    BY <1>1, <2>0, <2>1, <2>3 DEF RowTrue
  <2> QED
    BY <2>2, <2>3
<1> QED
  BY <1>1, <1>6, <1>7, <1>8, <1>9 DEF RunInv

\* A cancel reaches Temporal, or does not.
LEMMA CancelKeeps == ASSUME RunInv, NEW h \in Handler, NEW ok \in BOOLEAN, CancelWorkflow(h, ok) PROVE RunInv'
<1> DEFINE r == handler[h].row
           x == IF ok THEN [handler[h] EXCEPT !.stage = "canceled"] ELSE IdleHandler
<1>1. /\ handler[h].stage = "cancel_call" /\ handler' = [handler EXCEPT ![h] = x]
      /\ revoked' = IF ok THEN revoked \cup {r} ELSE revoked
      /\ UNCHANGED <<engine, engines, rows, open, begun, unwritten>>
      /\ astray' = IF ok THEN astray ELSE astray \cup {<<"cancel", r>>}
  BY DEF CancelWorkflow, To, Back
<1>2. handler \in [Handler -> Request] /\ handler[h] \in Request /\ InStep(handler[h]) /\ r \in DOMAIN rows
  BY <1>1, RowsTyped DEF RunInv, HandlersInStep, InStep
<1>3. /\ x \in Request
      /\ ok => x.row = r /\ x.stage = "canceled"
      /\ ~ok => x.stage = "idle"
  BY <1>2, RowsTyped DEF RunInv, Request, Stage, IdleHandler
<1> HIDE DEF x
<1>4. handler'[h] = x /\ \A g \in Handler \ {h} : handler'[g] = handler[g]
  BY <1>1, <1>2
<1> HIDE DEF r
<1>6. RunTypeOK'
  <2>1. handler' \in [Handler -> Request]
    BY <1>1, <1>2, <1>3
  <2> QED
    BY <1>1, <1>2, <2>1 DEF RunInv, RunTypeOK, Request
<1>7. HandlersInStep'
  <2>1. InStep(handler[h])'
    BY <1>1, <1>2, <1>3, <1>4 DEF InStep, Starting
  <2>2. ASSUME NEW g \in Handler, g # h PROVE InStep(handler[g])'
    <3>1. InStep(handler[g])
      BY DEF RunInv, HandlersInStep
    <3> QED
      BY <1>1, <1>4, <2>2, <3>1 DEF InStep, Starting
  <2> QED
    BY <2>1, <2>2 DEF HandlersInStep
<1>8. OneStarter'
  BY <1>3, <1>4 DEF RunInv, OneStarter, Starting
<1>9. ASSUME NEW s \in DOMAIN rows PROVE RowTrue(s)'
  <2>0. RowTrue(s)
    BY DEF RunInv
  <2>1. \A label \in {"running", "canceled", "failed"} : AboutToWrite(s, label) => AboutToWrite(s, label)'
    BY <1>1, <1>4 DEF AboutToWrite
  <2>2. ok /\ s = r => AboutToWrite(s, "canceled")'
    BY <1>3, <1>4 DEF AboutToWrite
  <2> QED
    BY <1>1, <2>0, <2>1, <2>2 DEF RowTrue
<1> QED
  BY <1>1, <1>6, <1>7, <1>8, <1>9 DEF RunInv

\* The handler writes what it did into its row, or the write is lost.
LEMMA UpdateKeeps == ASSUME RunInv, NEW h \in Handler, NEW ok \in BOOLEAN, UpdateStatus(h, ok) PROVE RunInv'
<1> DEFINE r == handler[h].row
           target == handler[h].stage
           row == [rows[r] EXCEPT !.status = target, !.finished = @ \/ Finished(target)]
<1>1. /\ target \in {"running", "failed", "canceled"} /\ handler' = [handler EXCEPT ![h] = IdleHandler]
      /\ unwritten' = IF ok THEN unwritten ELSE unwritten \cup {r}
      /\ UNCHANGED <<engine, engines, open, begun, revoked, astray>>
      /\ rows' = IF ok THEN [rows EXCEPT ![r] = row] ELSE rows
  BY DEF UpdateStatus, Back
<1>2. handler \in [Handler -> Request] /\ InStep(handler[h]) /\ r \in DOMAIN rows /\ rows[r] \in Row /\ RowTrue(r)
  BY <1>1, RowsTyped DEF RunInv, HandlersInStep, InStep
<1>3. /\ row \in Row /\ row.status = target
      /\ row.finished = (rows[r].finished \/ target \in {"failed", "canceled"})
  BY <1>1, <1>2 DEF Row, Finished
<1> HIDE DEF row
<1>4. IdleHandler.stage = "idle" /\ handler'[h] = IdleHandler /\ \A g \in Handler \ {h} : handler'[g] = handler[g]
  BY <1>1, <1>2 DEF IdleHandler
<1>5. rows \in Seq(Row) /\ Len(rows) \in Nat /\ DOMAIN rows = 1..Len(rows)
  BY RowsTyped DEF RunInv, RunTypeOK
<1>6. /\ rows' \in Seq(Row) /\ Len(rows') = Len(rows) /\ DOMAIN rows' = DOMAIN rows
      /\ \A s \in DOMAIN rows : rows'[s] = IF ok /\ s = r THEN row ELSE rows[s]
  <2>1. CASE ok
    <3>1. /\ [rows EXCEPT ![r] = row] \in Seq(Row) /\ Len([rows EXCEPT ![r] = row]) = Len(rows)
          /\ \A s \in 1..Len(rows) : [rows EXCEPT ![r] = row][s] = IF s = r THEN row ELSE rows[s]
      BY <1>2, <1>3, <1>5, ExceptSeq
    <3> QED
      BY <1>1, <1>5, <2>1, <3>1
  <2>2. CASE ~ok
    BY <1>1, <1>5, <2>2
  <2> QED
    BY <2>1, <2>2
<1>7. RunTypeOK'
  <2>1. IdleHandler \in Request
    BY RowsTyped DEF RunInv, IdleHandler, Request, Stage
  <2>2. handler' \in [Handler -> Request]
    BY <1>1, <1>2, <2>1
  <2> QED
    BY <1>1, <1>2, <1>6, <2>2 DEF RunInv, RunTypeOK, Request
<1>8. HandlersInStep'
  <2>1. InStep(handler[h])'
    BY <1>4 DEF InStep, Starting
  <2>2. ASSUME NEW g \in Handler, g # h PROVE InStep(handler[g])'
    <3>1. InStep(handler[g])
      BY DEF RunInv, HandlersInStep
    <3>2. target \in Starting /\ handler[g].stage \in Starting => handler[g].row # r
      BY <2>2 DEF RunInv, OneStarter
    <3>3. target \notin Starting => target = "canceled"
      BY <1>1 DEF Starting
    <3>4. handler[g].stage \in Starting => handler[g].row \in DOMAIN rows /\ rows'[handler[g].row].status \in {"pending", "canceled"}
      BY <1>3, <1>6, <3>1, <3>2, <3>3 DEF InStep, Starting
    <3> QED
      BY <1>1, <1>4, <1>6, <2>2, <3>1, <3>4 DEF InStep
  <2> QED
    BY <2>1, <2>2 DEF HandlersInStep
<1>9. OneStarter'
  BY <1>4 DEF RunInv, OneStarter, Starting
<1>10. ASSUME NEW s \in DOMAIN rows' PROVE RowTrue(s)'
  <2>0. s \in DOMAIN rows /\ RowTrue(s)
    BY <1>6, <1>10 DEF RunInv
  <2>1. CASE s = r /\ ok
    <3>1. rows'[s] = row
      BY <1>6, <2>0, <2>1
    <3>2. target = "running" => r \in begun
      BY <1>2 DEF InStep
    <3>3. target = "canceled" => r \in revoked
      BY <1>2 DEF InStep
    <3>4. target = "failed" /\ r \in begun => <<"start", r>> \in astray
      BY <1>2 DEF InStep
    <3>5. target = "running" => rows[r].status \in {"pending", "canceled"}
      BY <1>2 DEF InStep, Starting
    <3>6. row.finished => target = "failed" \/ r \in revoked
      BY <1>1, <1>2, <1>3, <3>3, <3>5 DEF RowTrue
    <3> HIDE DEF r, target
    <3> QED
      BY <1>1, <1>3, <2>1, <3>1, <3>2, <3>3, <3>4, <3>6 DEF RowTrue
  <2>2. CASE s = r /\ ~ok
    BY <1>1, <1>6, <2>0, <2>2 DEF RowTrue
  <2>3. CASE s # r
    <3>1. \A label \in {"running", "canceled", "failed"} : AboutToWrite(s, label) => AboutToWrite(s, label)'
      BY <1>4, <2>3 DEF AboutToWrite
    <3> QED
      BY <1>1, <1>6, <2>0, <2>3, <3>1 DEF RowTrue
  <2> QED
    BY <2>1, <2>2, <2>3
<1> QED
  BY <1>7, <1>8, <1>9, <1>10 DEF RunInv

\* Nothing is started at the beginning.
LEMMA RunInitInv == ASSUME RunAssumption, RunInit PROVE RunInv
<1>1. RunTypeOK
  BY DEF RunAssumption, RunInit, RunTypeOK, IdleHandler, Stage
<1> QED
  BY <1>1 DEF RunInit, RunInv, HandlersInStep, InStep, OneStarter, IdleHandler, Starting

\* A call that its caller gave up reaches Temporal.
LEMMA ArrivalKeeps ==
  ASSUME RunInv, NEW r \in DOMAIN rows, StartArrives(r) \/ CancelArrives(r)
  PROVE  RunInv'
<1>1. RunTypeOK' /\ UNCHANGED <<rows, astray, unwritten, handler>>
  BY RowsTyped DEF RunInv, RunTypeOK, Row, StartArrives, CancelArrives
<1>2. ASSUME NEW h \in Handler PROVE InStep(handler[h])'
  <2>1. InStep(handler[h])
    BY DEF RunInv, HandlersInStep
  <2> QED
    BY <1>1, <2>1 DEF InStep, StartArrives, CancelArrives
<1>3. ASSUME NEW s \in DOMAIN rows PROVE RowTrue(s)'
  <2>1. RowTrue(s) /\ \A label \in {"running", "canceled", "failed"} : AboutToWrite(s, label)' = AboutToWrite(s, label)
    BY <1>1 DEF RunInv, AboutToWrite
  <2> QED
    BY <1>1, <2>1 DEF RowTrue, StartArrives, CancelArrives
<1> QED
  BY <1>1, <1>2, <1>3 DEF RunInv, HandlersInStep, OneStarter

\* Every request, and the engine, keeps the table true.
LEMMA RunNextInv == ASSUME RunAssumption, RunInv, [RunNext]_runVars PROVE RunInv'
  BY EngineKeeps, TakeClientKeeps, LookUpKeeps, SaveKeeps, ArrivalKeeps, ExecuteKeeps, CancelKeeps, UpdateKeeps DEF RunNext

\* What the table says of a workflow run is true of Temporal, calls that got lost with an error
\* and went through excepted (workflow_handler.go, engine.go).
THEOREM RowsAreTruthful == ASSUME RunAssumption PROVE RunSpec => []RowsTruthful
<1>1. RunInit => RunInv
  BY RunInitInv
<1>2. RunInv /\ [RunNext]_runVars => RunInv'
  BY RunNextInv
<1> QED
  BY <1>1, <1>2, RunInvStrong, PTL DEF RunSpec

-----------------------------------------------------------------------------
(* Webhook deliveries *)

\* Three attempts are the default; fewer and a cancelled context uses them up.
DeliveryAssumption == MaxAttempts >= 3 /\ Worker # {} /\ IsFiniteSet(Item)

Elements(s) == {s[k] : k \in 1..Len(s)}
Once(s) == \A j, k \in 1..Len(s) : s[j] = s[k] => j = k
InQueue == Elements(queue)
Holding == {"acquire", "attempt", "backoff", "save", "settle"}
Fresh(i) == record[i] = "none" /\ sends[i] = 0

\* TypeOK without its bounds on failures and requests.
QueueTyped ==
    /\ started \in BOOLEAN /\ stopped \in BOOLEAN /\ cancelled \in BOOLEAN
    /\ queueClosed \in BOOLEAN /\ panicked \in BOOLEAN
    /\ queue \in Seq(Item) /\ Len(queue) <= QueueSize
    /\ producer \in [Producer -> {"idle", "checked"}]
    /\ offer \in [Producer -> Item \cup {NoItem}]
    /\ stopper \in [Stopper -> {"idle", "cancel", "close", "wait", "returned"}]
    /\ pc \in [Worker -> Holding \cup {"off", "receive", "exited"}]
    /\ item \in [Worker -> Item \cup {NoItem}]
    /\ result \in [Worker -> Result]
    /\ record \in [Item -> {"none", "success", "failed", "retry"}]
    /\ failureCount \in Nat
    /\ offered \subseteq Item /\ accepted \subseteq offered
    /\ sends \in [Item -> Nat]

\* An offer is made by one producer, and not in the queue before.
OffersSound ==
    /\ \A p \in Producer : producer[p] = "checked" => offer[p] \in offered \ accepted
    /\ \A p, q \in Producer : producer[p] = "checked" /\ producer[q] = "checked" /\ offer[p] = offer[q] => p = q

\* An item is queued once, before anything happens to it.
QueueSound ==
    /\ Once(queue)
    /\ \A i \in InQueue : i \in accepted /\ Fresh(i)

\* An item has one worker.
Exclusive == \A w, v \in Worker : item[w] # NoItem /\ item[w] = item[v] => w = v

\* How far a worker is with its item, and how many requests it has made.  A context that is
\* cancelled before the first request makes Send report two attempts at most.
Progress(w) ==
    /\ pc[w] \in {"acquire", "attempt", "backoff", "save"} => record[item[w]] = "none"
    /\ pc[w] = "acquire" => sends[item[w]] = 0 /\ result[w].attempts = 0
    /\ pc[w] \in {"attempt", "backoff"} => sends[item[w]] + 1 = result[w].attempts
    /\ pc[w] = "backoff" => result[w].attempts > 1
    /\ pc[w] \in {"save", "settle"} => sends[item[w]] > 0 \/ result[w].attempts <= 2
    /\ pc[w] = "settle" => record[item[w]] # "none" /\ (result[w].success => record[item[w]] = "success")
WorkerSound(w) ==
    /\ pc[w] \in Holding <=> item[w] # NoItem
    /\ item[w] # NoItem => item[w] \in accepted /\ item[w] \notin InQueue
    /\ pc[w] = "exited" => queueClosed /\ queue = <<>>
    /\ ~started => pc[w] = "off"
    /\ Progress(w)

\* An accepted item waits, is a worker's, or has its record.
ItemSound(i) ==
    /\ sends[i] <= MaxAttempts
    /\ i \notin accepted => Fresh(i)
    /\ i \in accepted => i \in InQueue \/ record[i] # "none" \/ \E w \in Worker : item[w] = i
    /\ record[i] = "failed" /\ (\A w \in Worker : item[w] # i) => sends[i] > 0

\* Each item adds to the failure count once, when its worker lets it go.
SettledItems == {i \in Item : record[i] # "none" /\ \A w \in Worker : item[w] # i}

DeliveryInv ==
    /\ QueueTyped /\ OffersSound /\ QueueSound /\ Exclusive
    /\ \A w \in Worker : WorkerSound(w)
    /\ \A i \in Item : ItemSound(i)
    /\ failureCount <= Cardinality(SettledItems)

\* What is in a sequence with one element more.
LEMMA AppendOnce ==
  ASSUME NEW S, NEW s \in Seq(S), NEW x \in S, Once(s), x \notin Elements(s)
  PROVE  /\ Append(s, x) \in Seq(S) /\ Len(Append(s, x)) = Len(s) + 1
         /\ Elements(Append(s, x)) = Elements(s) \cup {x} /\ Once(Append(s, x))
<1>1. Append(s, x) \in Seq(S) /\ Len(Append(s, x)) = Len(s) + 1 /\ Len(s) \in Nat
  OBVIOUS
<1>2. Append(s, x)[Len(s) + 1] = x /\ \A k \in 1..Len(s) : Append(s, x)[k] = s[k]
  OBVIOUS
<1>3. 1..(Len(s) + 1) = (1..Len(s)) \cup {Len(s) + 1} /\ Len(s) + 1 \notin 1..Len(s)
  BY <1>1
<1>4. Elements(Append(s, x)) = Elements(s) \cup {x}
  BY <1>1, <1>2, <1>3, Zenon DEF Elements
<1>5. Once(Append(s, x))
  <2> SUFFICES ASSUME NEW j \in 1..(Len(s) + 1), NEW k \in 1..(Len(s) + 1), Append(s, x)[j] = Append(s, x)[k] PROVE j = k
    BY <1>1 DEF Once
  <2>1. CASE j \in 1..Len(s) /\ k \in 1..Len(s)
    BY <1>2, <2>1 DEF Once
  <2>2. CASE j = Len(s) + 1 /\ k \in 1..Len(s)
    BY <1>2, <2>2 DEF Elements
  <2>3. CASE j \in 1..Len(s) /\ k = Len(s) + 1
    BY <1>2, <2>3 DEF Elements
  <2> QED
    BY <1>3, <2>1, <2>2, <2>3
<1> QED
  BY <1>1, <1>4, <1>5

\* What is in the rest of a sequence.
LEMMA TailOnce ==
  ASSUME NEW S, NEW s \in Seq(S), s # <<>>, Once(s)
  PROVE  /\ Head(s) \in S /\ Head(s) \in Elements(s) /\ Tail(s) \in Seq(S) /\ Len(Tail(s)) < Len(s)
         /\ Elements(Tail(s)) = Elements(s) \ {Head(s)} /\ Once(Tail(s))
<1>1. Len(s) \in Nat \ {0} /\ Tail(s) \in Seq(S) /\ Len(Tail(s)) = Len(s) - 1 /\ Head(s) = s[1] /\ Head(s) \in S
  OBVIOUS
<1>2. \A k \in 1..(Len(s) - 1) : Tail(s)[k] = s[k + 1] /\ k + 1 \in 1..Len(s) /\ k + 1 # 1
  BY <1>1
<1>3. \A k \in 1..Len(s) : k = 1 \/ (k - 1 \in 1..(Len(s) - 1) /\ Tail(s)[k - 1] = s[k])
  BY <1>1, <1>2
<1>4. 1 \in 1..Len(s)
  BY <1>1
<1>5. ASSUME NEW x \in Elements(Tail(s)) PROVE x \in Elements(s) \ {Head(s)}
  <2>1. PICK k \in 1..(Len(s) - 1) : x = Tail(s)[k]
    BY <1>1 DEF Elements
  <2> QED
    BY <1>1, <1>2, <1>4, <2>1 DEF Elements, Once
<1>6. ASSUME NEW x \in Elements(s) \ {Head(s)} PROVE x \in Elements(Tail(s))
  <2>1. PICK k \in 1..Len(s) : x = s[k]
    BY DEF Elements
  <2> QED
    BY <1>1, <1>3, <2>1 DEF Elements
<1>7. Once(Tail(s))
  <2> SUFFICES ASSUME NEW j \in 1..(Len(s) - 1), NEW k \in 1..(Len(s) - 1), Tail(s)[j] = Tail(s)[k] PROVE j = k
    BY <1>1 DEF Once
  <2>1. j + 1 = k + 1
    BY <1>2 DEF Once
  <2> QED
    BY <2>1
<1>8. Head(s) \in Elements(s)
  BY <1>1, <1>4 DEF Elements
<1> QED
  BY <1>1, <1>5, <1>6, <1>7, <1>8

\* What the property says follows.
LEMMA DeliveryFollows == ASSUME DeliveryAssumption, DeliveryInv PROVE NoItemLost
<1>1. TypeOK
  <2>1. SettledItems \subseteq Item
    BY DEF SettledItems
  <2>2. Cardinality(SettledItems) <= Cardinality(Item) /\ Cardinality(Item) \in Nat /\ Cardinality(SettledItems) \in Nat
    BY <2>1, FS_Subset, FS_CardinalityType DEF DeliveryAssumption
  <2>3. failureCount \in 0..Cardinality(Item)
    BY <2>2 DEF DeliveryInv, QueueTyped
  <2>4. sends \in [Item -> 0..MaxAttempts]
    BY QueueAssumption DEF DeliveryInv, QueueTyped, ItemSound
  <2>5. Holding \cup {"off", "receive", "exited"} = {"off", "receive", "acquire", "attempt", "backoff", "save", "settle", "exited"}
    BY DEF Holding
  <2> QED
    BY <2>3, <2>4, <2>5 DEF DeliveryInv, QueueTyped, TypeOK
<1>2. StopLeavesNoItem
  <2> SUFFICES ASSUME \A w \in Worker : pc[w] = "exited"
               PROVE  queue = <<>> /\ \A i \in accepted : record[i] # "none"
    BY DEF StopLeavesNoItem
  <2>1. queue = <<>> /\ \A w \in Worker : item[w] = NoItem
    BY DEF DeliveryAssumption, DeliveryInv, WorkerSound, Holding
  <2>2. InQueue = {}
    BY <2>1 DEF InQueue, Elements
  <2> QED
    BY <2>1, <2>2, QueueAssumption DEF DeliveryInv, QueueTyped, ItemSound
<1>3. GivenUpWasTried
  BY DEF GivenUpWasTried, DeliveryInv, ItemSound
<1> QED
  BY <1>1, <1>2, <1>3 DEF NoItemLost

\* Nothing has been offered.
LEMMA DeliveryInit == ASSUME DeliveryAssumption, Init PROVE DeliveryInv
<1>1. queue = <<>> /\ queue \in Seq(Item) /\ Len(queue) = 0 /\ InQueue = {}
  BY DEF Init, InQueue, Elements
<1>2. NoResult \in Result
  BY QueueAssumption DEF NoResult, Result
<1>3. QueueTyped
  <2>1. pc \in [Worker -> Holding \cup {"off", "receive", "exited"}] /\ item \in [Worker -> Item \cup {NoItem}]
    BY DEF Init
  <2>2. result \in [Worker -> Result]
    BY <1>2 DEF Init
  <2>3. /\ producer \in [Producer -> {"idle", "checked"}] /\ offer \in [Producer -> Item \cup {NoItem}]
        /\ stopper \in [Stopper -> {"idle", "cancel", "close", "wait", "returned"}]
        /\ record \in [Item -> {"none", "success", "failed", "retry"}] /\ sends \in [Item -> Nat]
    BY DEF Init
  <2>4. Len(queue) <= QueueSize
    BY <1>1, QueueAssumption
  <2> QED
    BY <1>1, <2>1, <2>2, <2>3, <2>4 DEF Init, QueueTyped
<1>4. SettledItems = {}
  BY DEF Init, SettledItems
<1>5. failureCount <= Cardinality(SettledItems)
  BY <1>4, FS_EmptySet DEF Init
<1>6. \A w \in Worker : WorkerSound(w)
  BY <1>1 DEF Init, WorkerSound, Progress, Holding
<1>7. \A i \in Item : ItemSound(i)
  BY QueueAssumption DEF Init, ItemSound, Fresh
<1>8. OffersSound /\ QueueSound /\ Exclusive
  BY <1>1 DEF Init, OffersSound, QueueSound, Exclusive, Once
<1> QED
  BY <1>3, <1>5, <1>6, <1>7, <1>8 DEF DeliveryInv

\* Where no item, worker or offer changes, flags may be set.
LEMMA FlagsKeep ==
  ASSUME DeliveryInv, UNCHANGED <<queue, producer, offer, pc, item, result, record, failureCount, history>>,
         started' = started, stopped' \in BOOLEAN, cancelled' \in BOOLEAN, queueClosed' \in BOOLEAN,
         queueClosed => queueClosed', panicked' = panicked,
         stopper' \in [Stopper -> {"idle", "cancel", "close", "wait", "returned"}]
  PROVE  DeliveryInv'
<1>1. QueueTyped' /\ OffersSound' /\ QueueSound' /\ Exclusive'
  BY DEF DeliveryInv, QueueTyped, OffersSound, QueueSound, Exclusive, history, Result, InQueue, Elements, Once, Fresh
<1>2. InQueue' = InQueue /\ SettledItems' = SettledItems
  BY DEF InQueue, Elements, SettledItems
<1>3. \A w \in Worker : WorkerSound(w)'
  BY <1>2 DEF DeliveryInv, WorkerSound, Progress, history
<1>4. \A i \in Item : ItemSound(i)'
  BY <1>2 DEF DeliveryInv, ItemSound, Fresh, history
<1> QED
  BY <1>1, <1>2, <1>3, <1>4 DEF DeliveryInv

\* Stop marks, cancels, closes and waits.
LEMMA StopKeeps == ASSUME DeliveryInv, NEW s \in Stopper, StopMark(s) \/ StopStep(s) PROVE DeliveryInv'
<1>1. /\ UNCHANGED <<queue, producer, offer, pc, item, result, record, failureCount, history, started, panicked>>
      /\ stopped' \in BOOLEAN /\ cancelled' \in BOOLEAN /\ queueClosed' \in BOOLEAN /\ (queueClosed => queueClosed')
      /\ stopper' \in [Stopper -> {"idle", "cancel", "close", "wait", "returned"}]
  BY DEF StopMark, StopStep, StopCancel, StopClose, StopReturns, DeliveryInv, QueueTyped
<1> QED
  BY <1>1, FlagsKeep

\* The workers begin with no item.
LEMMA StartKeeps == ASSUME DeliveryInv, Start PROVE DeliveryInv'
<1>1. /\ UNCHANGED <<queue, producer, offer, item, result, record, failureCount, panicked, stopper, cancelled, queueClosed, history>>
      /\ started' = TRUE /\ stopped' = FALSE /\ pc' = [w \in Worker |-> "receive"]
  BY DEF Start
<1>2. \A w \in Worker : item[w] = NoItem
  BY DEF Start, DeliveryInv, WorkerSound, Holding
<1>3. QueueTyped' /\ OffersSound' /\ QueueSound' /\ Exclusive'
  <2>1. pc' \in [Worker -> Holding \cup {"off", "receive", "exited"}]
    BY <1>1
  <2>2. QueueTyped'
    BY <1>1, <2>1 DEF DeliveryInv, QueueTyped, history, Result
  <2> QED
    BY <1>1, <2>2 DEF DeliveryInv, OffersSound, QueueSound, Exclusive, history, InQueue, Elements, Once, Fresh
<1>4. InQueue' = InQueue /\ SettledItems' = SettledItems
  BY <1>1 DEF InQueue, Elements, SettledItems
<1>5. \A w \in Worker : WorkerSound(w)'
  BY <1>1, <1>2 DEF WorkerSound, Progress, Holding
<1>6. \A i \in Item : ItemSound(i)'
  BY <1>1, <1>4 DEF DeliveryInv, ItemSound, Fresh, history
<1> QED
  BY <1>1, <1>3, <1>4, <1>5, <1>6 DEF DeliveryInv

\* A new item is offered, or refused because the queue has stopped.
LEMMA CheckKeeps == ASSUME DeliveryInv, NEW p \in Producer, NEW i \in Item, EnqueueCheck(p, i) PROVE DeliveryInv'
<1>1. /\ UNCHANGED <<queueVars, queue, pc, item, result, record, failureCount, panicked, accepted, sends>>
      /\ offered' = offered \cup {i} /\ i \notin offered
      /\ \/ UNCHANGED <<producer, offer>>
         \/ producer' = [producer EXCEPT ![p] = "checked"] /\ offer' = [offer EXCEPT ![p] = i]
  BY DEF EnqueueCheck
<1>2. QueueTyped'
  <2>1. producer' \in [Producer -> {"idle", "checked"}] /\ offer' \in [Producer -> Item \cup {NoItem}]
    BY <1>1 DEF DeliveryInv, QueueTyped
  <2>2. /\ queue' = queue /\ pc' = pc /\ item' = item /\ result' = result /\ record' = record /\ failureCount' = failureCount
        /\ panicked' = panicked /\ sends' = sends /\ UNCHANGED <<started, stopped, cancelled, queueClosed, stopper>>
        /\ offered' \subseteq Item /\ accepted' \subseteq offered'
    BY <1>1 DEF DeliveryInv, QueueTyped, queueVars
  <2> QED
    BY <2>1, <2>2 DEF DeliveryInv, QueueTyped, Result
<1>3. OffersSound'
  <2>1. i \notin accepted /\ \A q \in Producer : producer[q] = "checked" => offer[q] # i
    BY <1>1 DEF DeliveryInv, QueueTyped, OffersSound
  <2>2. CASE UNCHANGED <<producer, offer>>
    BY <1>1, <2>2 DEF DeliveryInv, OffersSound
  <2>3. CASE producer' = [producer EXCEPT ![p] = "checked"] /\ offer' = [offer EXCEPT ![p] = i]
    <3>1. producer'[p] = "checked" /\ offer'[p] = i /\ \A q \in Producer \ {p} : producer'[q] = producer[q] /\ offer'[q] = offer[q]
      BY <2>3 DEF DeliveryInv, QueueTyped
    <3> QED
      BY <1>1, <2>1, <3>1 DEF DeliveryInv, OffersSound
  <2> QED
    BY <1>1, <2>2, <2>3
<1>4. QueueSound' /\ Exclusive'
  BY <1>1 DEF DeliveryInv, QueueSound, Exclusive, InQueue, Elements, Once, Fresh
<1>5. InQueue' = InQueue /\ SettledItems' = SettledItems
  BY <1>1 DEF InQueue, Elements, SettledItems
<1>6. \A w \in Worker : WorkerSound(w)'
  BY <1>1, <1>5 DEF DeliveryInv, WorkerSound, Progress, queueVars
<1>7. \A j \in Item : ItemSound(j)'
  BY <1>1, <1>5 DEF DeliveryInv, ItemSound, Fresh
<1> QED
  BY <1>1, <1>2, <1>3, <1>4, <1>5, <1>6, <1>7 DEF DeliveryInv

\* An offer is accepted, or dropped because the queue is full or closed.
LEMMA SendKeeps == ASSUME DeliveryInv, NEW p \in Producer, EnqueueSend(p) PROVE DeliveryInv'
<1>0. PICK i : i = offer[p]
  OBVIOUS
<1>1. /\ UNCHANGED <<queueVars, pc, item, result, record, failureCount, offered, sends>>
      /\ producer' = [producer EXCEPT ![p] = "idle"] /\ offer' = [offer EXCEPT ![p] = NoItem]
      /\ producer[p] = "checked"
  BY DEF EnqueueSend
<1>2. i \in Item /\ i \in offered /\ i \notin accepted
  BY <1>0, <1>1 DEF DeliveryInv, OffersSound, QueueTyped
<1>3. producer'[p] = "idle" /\ \A q \in Producer \ {p} : producer'[q] = producer[q] /\ offer'[q] = offer[q]
  BY <1>1 DEF DeliveryInv, QueueTyped
<1>4. producer' \in [Producer -> {"idle", "checked"}] /\ offer' \in [Producer -> Item \cup {NoItem}]
  BY <1>1 DEF DeliveryInv, QueueTyped
<1>5. SettledItems' = SettledItems
  BY <1>1 DEF SettledItems
<1>6. CASE UNCHANGED <<queue, accepted>> /\ panicked' \in BOOLEAN
  <2>1. QueueTyped'
    BY <1>1, <1>4, <1>6 DEF DeliveryInv, QueueTyped, queueVars, Result
  <2>2. OffersSound'
    BY <1>1, <1>3, <1>6 DEF DeliveryInv, OffersSound
  <2>3. QueueSound' /\ Exclusive' /\ InQueue' = InQueue
    BY <1>1, <1>6 DEF DeliveryInv, QueueSound, Exclusive, InQueue, Elements, Once, Fresh
  <2>4. \A w \in Worker : WorkerSound(w)'
    BY <1>1, <1>6, <2>3 DEF DeliveryInv, WorkerSound, Progress, queueVars
  <2>5. \A j \in Item : ItemSound(j)'
    BY <1>1, <1>6, <2>3 DEF DeliveryInv, ItemSound, Fresh
  <2> QED
    BY <1>1, <1>5, <2>1, <2>2, <2>3, <2>4, <2>5 DEF DeliveryInv
<1>7. CASE ~queueClosed /\ Room /\ queue' = Append(queue, i) /\ accepted' = accepted \cup {i} /\ panicked' = panicked
  <2>1. i \notin InQueue
    BY <1>2 DEF DeliveryInv, QueueSound
  <2>2. queue \in Seq(Item) /\ Once(queue)
    BY DEF DeliveryInv, QueueTyped, QueueSound
  <2>3. /\ queue' \in Seq(Item) /\ Len(queue') = Len(queue) + 1
        /\ InQueue' = InQueue \cup {i} /\ Once(queue')
    BY <1>2, <1>7, <2>1, <2>2, AppendOnce DEF InQueue
  <2>4. Len(queue') <= QueueSize
    BY <1>7, <2>2, <2>3, QueueAssumption DEF Room
  <2>5. QueueTyped'
    BY <1>1, <1>2, <1>4, <1>7, <2>3, <2>4 DEF DeliveryInv, QueueTyped, queueVars, Result
  <2>6. OffersSound'
    <3>1. \A q \in Producer : producer'[q] = "checked" => q # p /\ producer[q] = "checked" /\ offer'[q] = offer[q] /\ offer[q] # i
      BY <1>0, <1>1, <1>3 DEF DeliveryInv, OffersSound
    <3> QED
      BY <1>1, <1>7, <3>1 DEF DeliveryInv, OffersSound
  <2>7. Fresh(i)
    BY <1>2 DEF DeliveryInv, ItemSound
  <2>8. QueueSound'
    <3>1. i \in accepted' /\ record'[i] = "none" /\ sends'[i] = 0
      BY <1>1, <1>7, <2>7 DEF Fresh
    <3>2. \A j \in InQueue' : j \in accepted' /\ record'[j] = "none" /\ sends'[j] = 0
      BY <2>3, <1>1, <1>7, <3>1 DEF DeliveryInv, QueueSound, Fresh
    <3> QED
      BY <2>3, <3>2 DEF QueueSound, Fresh
  <2>9. Exclusive'
    BY <1>1 DEF DeliveryInv, Exclusive
  <2>10. \A w \in Worker : WorkerSound(w)'
    <3> SUFFICES ASSUME NEW w \in Worker PROVE WorkerSound(w)'
      OBVIOUS
    <3>1. item[w] # NoItem => item[w] # i /\ item[w] \in accepted /\ item[w] \notin InQueue
      BY <1>2 DEF DeliveryInv, WorkerSound
    <3>2. pc[w] # "exited"
      BY <1>7 DEF DeliveryInv, WorkerSound
    <3> QED
      BY <1>1, <1>7, <2>3, <3>1, <3>2 DEF DeliveryInv, WorkerSound, Progress, queueVars
  <2>11. \A j \in Item : ItemSound(j)'
    <3> SUFFICES ASSUME NEW j \in Item PROVE ItemSound(j)'
      OBVIOUS
    <3>1. ItemSound(j)
      BY DEF DeliveryInv
    <3> QED
      BY <1>1, <1>7, <2>3, <3>1 DEF ItemSound, Fresh
  <2> QED
    BY <1>1, <1>5, <2>5, <2>6, <2>8, <2>9, <2>10, <2>11 DEF DeliveryInv
<1>8. \/ UNCHANGED <<queue, accepted>> /\ panicked' \in BOOLEAN
      \/ ~queueClosed /\ Room /\ queue' = Append(queue, i) /\ accepted' = accepted \cup {i} /\ panicked' = panicked
  BY <1>0 DEF EnqueueSend, DeliveryInv, QueueTyped
<1> QED
  BY <1>6, <1>7, <1>8

\* A worker goes on with its item and touches no other.
LEMMA WorkerKeeps ==
  ASSUME DeliveryInv, NEW w \in Worker, NEW l \in Holding, pc[w] \in Holding, WorkerStep(w, l),
         UNCHANGED <<queue, item, failureCount>>,
         result' \in [Worker -> Result], \A v \in Worker \ {w} : result'[v] = result[v],
         record' \in [Item -> {"none", "success", "failed", "retry"}], sends' \in [Item -> Nat],
         \A i \in Item \ {item[w]} : record'[i] = record[i] /\ sends'[i] = sends[i],
         sends'[item[w]] <= MaxAttempts, Progress(w)'
  PROVE  DeliveryInv'
<1>1. /\ UNCHANGED <<queueVars, producer, offer, panicked, offered, accepted>>
      /\ pc' = [pc EXCEPT ![w] = l]
  BY DEF WorkerStep
<1>2. pc' \in [Worker -> Holding \cup {"off", "receive", "exited"}] /\ pc'[w] = l /\ \A v \in Worker \ {w} : pc'[v] = pc[v]
  BY <1>1 DEF DeliveryInv, QueueTyped
<1>3. item[w] \in Item /\ item[w] \in accepted /\ item[w] \notin InQueue
  BY DEF DeliveryInv, WorkerSound, QueueTyped
<1>4. \A v \in Worker \ {w} : item[v] # NoItem => item[v] \in Item /\ item[v] # item[w]
  BY <1>3 DEF DeliveryInv, QueueTyped, Exclusive
<1>5. QueueTyped'
  BY <1>1, <1>2 DEF DeliveryInv, QueueTyped, queueVars
<1>6. OffersSound' /\ Exclusive' /\ InQueue' = InQueue
  BY <1>1 DEF DeliveryInv, OffersSound, Exclusive, InQueue, Elements
<1>7. QueueSound'
  <2>1. \A i \in InQueue : i \in Item /\ i # item[w]
    BY <1>3 DEF DeliveryInv, QueueSound, QueueTyped
  <2> QED
    BY <1>1, <1>6, <2>1 DEF DeliveryInv, QueueSound, Fresh, Once
<1>8. ASSUME NEW v \in Worker PROVE WorkerSound(v)'
  <2>1. CASE v = w
    <3>1. l # "exited" /\ l # "off" /\ pc[w] # "off"
      BY DEF Holding
    <3>2. started'
      BY <1>1, <3>1 DEF DeliveryInv, WorkerSound, queueVars
    <3> QED
      BY <1>1, <1>2, <1>3, <1>6, <2>1, <3>1, <3>2, QueueAssumption DEF WorkerSound
  <2>2. CASE v # w
    <3>1. WorkerSound(v) /\ pc'[v] = pc[v] /\ result'[v] = result[v] /\ item'[v] = item[v]
      BY <1>2, <2>2 DEF DeliveryInv
    <3>2. pc[v] \in Holding => record'[item[v]] = record[item[v]] /\ sends'[item[v]] = sends[item[v]]
      BY <1>4, <2>2, <3>1 DEF WorkerSound
    <3>3. Progress(v)'
      BY <3>1, <3>2 DEF WorkerSound, Progress, Holding
    <3> QED
      BY <1>1, <1>6, <3>1, <3>3 DEF WorkerSound, queueVars
  <2> QED
    BY <2>1, <2>2
<1>9. ASSUME NEW i \in Item PROVE ItemSound(i)'
  <2>1. ItemSound(i)
    BY DEF DeliveryInv
  <2>2. CASE i = item[w]
    BY <1>1, <1>3, <2>2 DEF ItemSound
  <2>3. CASE i # item[w]
    BY <1>1, <1>6, <2>1, <2>3 DEF ItemSound, Fresh
  <2> QED
    BY <2>2, <2>3
<1>10. SettledItems' = SettledItems
  BY <1>3 DEF SettledItems
<1> QED
  BY <1>5, <1>6, <1>7, <1>8, <1>9, <1>10 DEF DeliveryInv

\* The semaphore, the request, the wait and the record.
LEMMA SendingKeeps ==
  ASSUME DeliveryAssumption, DeliveryInv, NEW w \in Worker,
         Acquire(w) \/ AcquireCancelled(w) \/ Backoff(w) \/ Save(w) \/ \E answer \in {"ok", "retryable", "clientError"} : Attempt(w, answer)
  PROVE  DeliveryInv'
<1> DEFINE i == item[w]
<1>1. pc[w] \in {"acquire", "attempt", "backoff", "save"} /\ pc[w] \in Holding
  BY DEF Acquire, AcquireCancelled, Backoff, Save, Attempt, Holding
<1>2. /\ i \in Item /\ record[i] = "none" /\ sends[i] \in Nat /\ Progress(w) /\ sends[i] <= MaxAttempts
      /\ result[w] \in Result /\ result \in [Worker -> Result]
      /\ record \in [Item -> {"none", "success", "failed", "retry"}] /\ sends \in [Item -> Nat]
  BY <1>1 DEF DeliveryInv, QueueTyped, WorkerSound, ItemSound, Progress
<1>3. pc \in [Worker -> Holding \cup {"off", "receive", "exited"}]
  BY DEF DeliveryInv, QueueTyped
<1>4. result[w].attempts \in 0..MaxAttempts /\ result[w].success \in BOOLEAN /\ MaxAttempts \in Nat /\ MaxAttempts >= 3
  BY <1>2, QueueAssumption DEF Result, DeliveryAssumption
<1>5. CASE Acquire(w)
  <2>1. [result[w] EXCEPT !.attempts = 1] \in Result
    BY <1>2, <1>4 DEF Result
  <2>2. /\ result' = [result EXCEPT ![w] = [result[w] EXCEPT !.attempts = 1]]
        /\ WorkerStep(w, "attempt") /\ UNCHANGED <<queue, item, failureCount, record, sends>> /\ pc[w] = "acquire"
    BY <1>5 DEF Acquire
  <2>3. /\ result' \in [Worker -> Result] /\ result'[w].attempts = 1
        /\ \A v \in Worker \ {w} : result'[v] = result[v]
    BY <1>2, <2>1, <2>2 DEF Result
  <2>4. pc'[w] = "attempt"
    BY <1>3, <2>2 DEF WorkerStep
  <2>5. Progress(w)'
    BY <1>2, <2>1, <2>2, <2>3, <2>4 DEF Progress
  <2>6. "attempt" \in Holding
    BY DEF Holding
  <2> QED
    BY <1>1, <1>2, <2>2, <2>3, <2>5, <2>6, WorkerKeeps
<1>6. CASE AcquireCancelled(w)
  <2>1. WorkerStep(w, "save") /\ UNCHANGED <<queue, item, failureCount, record, sends, result>> /\ pc[w] = "acquire"
    BY <1>6 DEF AcquireCancelled
  <2>2. pc'[w] = "save" /\ "save" \in Holding
    BY <1>3, <2>1 DEF WorkerStep, Holding
  <2>3. Progress(w)'
    BY <1>2, <2>1, <2>2 DEF Progress
  <2> QED
    BY <1>1, <1>2, <2>1, <2>2, <2>3, WorkerKeeps
<1>7. CASE Backoff(w)
  <2>1. PICK l \in {"attempt", "save"} : WorkerStep(w, l)
    BY <1>7 DEF Backoff
  <2>2. UNCHANGED <<queue, item, failureCount, record, sends, result>> /\ pc[w] = "backoff"
    BY <1>7 DEF Backoff
  <2>3. pc'[w] = l /\ l \in Holding
    BY <1>3, <2>1 DEF WorkerStep, Holding
  <2>4. Progress(w)'
    BY <1>2, <1>4, <2>2, <2>3 DEF Progress
  <2> QED
    BY <1>1, <1>2, <2>1, <2>2, <2>3, <2>4, WorkerKeeps
<1>8. CASE Save(w)
  <2>1. PICK r \in {"success", "failed"} : record' = [record EXCEPT ![i] = r] /\ (result[w].success => r = "success")
    BY <1>8 DEF Save
  <2>2. WorkerStep(w, "settle") /\ UNCHANGED <<queue, item, failureCount, sends, result>> /\ pc[w] = "save"
    BY <1>8 DEF Save
  <2>3. pc'[w] = "settle" /\ "settle" \in Holding
    BY <1>3, <2>2 DEF WorkerStep, Holding
  <2>4. /\ record' \in [Item -> {"none", "success", "failed", "retry"}] /\ record'[i] = r
        /\ \A j \in Item \ {i} : record'[j] = record[j]
    BY <1>2, <2>1
  <2>5. Progress(w)'
    BY <1>2, <2>1, <2>2, <2>3, <2>4 DEF Progress
  <2> QED
    BY <1>1, <1>2, <2>2, <2>3, <2>4, <2>5, WorkerKeeps
<1>9. ASSUME NEW answer \in {"ok", "retryable", "clientError"}, Attempt(w, answer) PROVE DeliveryInv'
  <2>1. /\ pc[w] = "attempt" /\ UNCHANGED <<queue, item, failureCount, record>>
        /\ sends' = IF cancelled THEN sends ELSE [sends EXCEPT ![i] = @ + 1]
        /\ cancelled => answer = "retryable"
    BY <1>9 DEF Attempt
  <2>2. sends[i] + 1 = result[w].attempts
    BY <1>2, <2>1 DEF Progress
  <2>3. /\ sends' \in [Item -> Nat] /\ sends'[i] = IF cancelled THEN sends[i] ELSE sends[i] + 1
        /\ \A j \in Item \ {i} : sends'[j] = sends[j]
    BY <1>2, <2>1
  <2>4. sends'[i] <= MaxAttempts
    BY <1>2, <1>4, <2>2, <2>3
  <2>5. CASE answer = "retryable" /\ result[w].attempts < MaxAttempts
    <3>1. PICK l \in {"save", "backoff"} : WorkerStep(w, l) /\ l = IF cancelled THEN "save" ELSE "backoff"
      BY <1>9, <2>5 DEF Attempt
    <3>2. result' = [result EXCEPT ![w] = [result[w] EXCEPT !.attempts = result[w].attempts + 1]]
      BY <1>9, <2>5 DEF Attempt
    <3>3. [result[w] EXCEPT !.attempts = result[w].attempts + 1] \in Result
      BY <1>2, <1>4, <2>5 DEF Result
    <3>4. /\ result' \in [Worker -> Result] /\ result'[w].attempts = result[w].attempts + 1
          /\ \A v \in Worker \ {w} : result'[v] = result[v]
      BY <1>2, <3>2, <3>3 DEF Result
    <3>5. pc'[w] = l /\ l \in Holding
      BY <1>3, <3>1 DEF WorkerStep, Holding
    <3>6. Progress(w)'
      BY <1>2, <1>4, <2>1, <2>2, <2>3, <3>1, <3>4, <3>5 DEF Progress
    <3> QED
      BY <1>1, <1>2, <2>1, <2>3, <2>4, <3>1, <3>4, <3>5, <3>6, WorkerKeeps
  <2>6. CASE ~(answer = "retryable" /\ result[w].attempts < MaxAttempts)
    <3>1. WorkerStep(w, "save")
      BY <1>9, <2>6 DEF Attempt
    <3>2. result' = [result EXCEPT ![w] = [result[w] EXCEPT !.success = (answer = "ok")]]
      BY <1>9, <2>6 DEF Attempt
    <3>3. [result[w] EXCEPT !.success = (answer = "ok")] \in Result
      BY <1>2, <1>4 DEF Result
    <3>4. /\ result' \in [Worker -> Result] /\ result'[w].attempts = result[w].attempts
          /\ \A v \in Worker \ {w} : result'[v] = result[v]
      BY <1>2, <3>2, <3>3 DEF Result
    <3>5. pc'[w] = "save" /\ "save" \in Holding
      BY <1>3, <3>1 DEF WorkerStep, Holding
    <3>6. sends'[i] > 0
      BY <1>2, <1>4, <2>1, <2>2, <2>3, <2>6
    <3>7. Progress(w)'
      BY <1>2, <2>1, <2>3, <3>4, <3>5, <3>6 DEF Progress
    <3> QED
      BY <1>1, <1>2, <2>1, <2>3, <2>4, <3>1, <3>4, <3>5, <3>7, WorkerKeeps
  <2> QED
    BY <2>5, <2>6
<1> QED
  BY <1>5, <1>6, <1>7, <1>8, <1>9

\* A worker takes the first item, or leaves when the channel is closed and empty.
LEMMA ReceiveKeeps == ASSUME DeliveryInv, NEW w \in Worker, Receive(w) PROVE DeliveryInv'
<1>1. /\ pc[w] = "receive" /\ UNCHANGED <<record, failureCount, sends>>
      /\ UNCHANGED <<queueVars, producer, offer, panicked, offered, accepted>>
  BY DEF Receive, WorkerStep
<1>2. item[w] = NoItem /\ started
  BY <1>1 DEF DeliveryInv, WorkerSound, Holding
<1>3. CASE RangeEnds /\ WorkerStep(w, AfterLast) /\ UNCHANGED <<queue, item, result>>
  <2>1. pc' = [pc EXCEPT ![w] = "exited"]
    BY <1>3 DEF WorkerStep, AfterLast
  <2>2. /\ pc' \in [Worker -> Holding \cup {"off", "receive", "exited"}] /\ pc'[w] = "exited"
        /\ \A v \in Worker \ {w} : pc'[v] = pc[v]
    BY <2>1 DEF DeliveryInv, QueueTyped
  <2>3. QueueTyped'
    BY <1>1, <1>3, <2>2 DEF DeliveryInv, QueueTyped, queueVars, Result
  <2>4. InQueue' = InQueue /\ SettledItems' = SettledItems /\ OffersSound' /\ QueueSound' /\ Exclusive'
    BY <1>1, <1>3 DEF DeliveryInv, OffersSound, QueueSound, Exclusive, InQueue, Elements, Once, Fresh, SettledItems
  <2>5. ASSUME NEW v \in Worker PROVE WorkerSound(v)'
    <3>1. CASE v = w
      BY <1>1, <1>2, <1>3, <2>2, <3>1 DEF WorkerSound, Progress, Holding, RangeEnds, queueVars
    <3>2. CASE v # w
      BY <1>1, <1>3, <2>2, <2>4, <3>2 DEF DeliveryInv, WorkerSound, Progress, queueVars
    <3> QED
      BY <3>1, <3>2
  <2>6. \A i \in Item : ItemSound(i)'
    BY <1>1, <1>3, <2>4 DEF DeliveryInv, ItemSound, Fresh
  <2> QED
    BY <1>1, <2>3, <2>4, <2>5, <2>6 DEF DeliveryInv
<1>4. CASE /\ queue # <<>> /\ queue' = Tail(queue) /\ item' = [item EXCEPT ![w] = Head(queue)]
           /\ result' = [result EXCEPT ![w] = NoResult] /\ WorkerStep(w, "acquire")
  <2> DEFINE i == Head(queue)
  <2>1. queue \in Seq(Item) /\ Once(queue)
    BY DEF DeliveryInv, QueueTyped, QueueSound
  <2>2. /\ i \in Item /\ i \in InQueue /\ queue' \in Seq(Item) /\ Len(queue') < Len(queue)
        /\ InQueue' = InQueue \ {i} /\ Once(queue')
    BY <1>4, <2>1, TailOnce DEF InQueue
  <2>3. i \in accepted /\ Fresh(i) /\ i # NoItem
    BY <2>2, QueueAssumption DEF DeliveryInv, QueueSound
  <2>4. pc' = [pc EXCEPT ![w] = "acquire"]
    BY <1>4 DEF WorkerStep
  <2>5. "acquire" \in Holding
    BY DEF Holding
  <2>6. /\ pc' \in [Worker -> Holding \cup {"off", "receive", "exited"}] /\ pc'[w] = "acquire"
        /\ \A v \in Worker \ {w} : pc'[v] = pc[v]
    BY <2>4, <2>5 DEF DeliveryInv, QueueTyped
  <2>7. /\ item' \in [Worker -> Item \cup {NoItem}] /\ item'[w] = i
        /\ \A v \in Worker \ {w} : item'[v] = item[v]
    BY <1>4, <2>2 DEF DeliveryInv, QueueTyped
  <2>8. NoResult \in Result
    BY QueueAssumption DEF NoResult, Result
  <2>9. /\ result' \in [Worker -> Result] /\ result'[w] = NoResult
        /\ \A v \in Worker \ {w} : result'[v] = result[v]
    BY <1>4, <2>8 DEF DeliveryInv, QueueTyped
  <2>10. Len(queue') <= QueueSize
    BY <2>1, <2>2, QueueAssumption DEF DeliveryInv, QueueTyped
  <2>11. QueueTyped'
    BY <1>1, <2>2, <2>6, <2>7, <2>9, <2>10 DEF DeliveryInv, QueueTyped, queueVars
  <2>12. OffersSound' /\ QueueSound'
    BY <1>1, <2>2 DEF DeliveryInv, OffersSound, QueueSound, Fresh
  <2>13. \A v \in Worker \ {w} : item[v] # i
    BY <2>2, <2>3 DEF DeliveryInv, WorkerSound
  <2>14. Exclusive'
    BY <2>7, <2>13 DEF DeliveryInv, Exclusive
  <2>15. ASSUME NEW v \in Worker PROVE WorkerSound(v)'
    <3>1. CASE v = w
      BY <1>1, <1>2, <2>2, <2>3, <2>5, <2>6, <2>7, <2>9, <3>1 DEF WorkerSound, Progress, NoResult, Fresh, queueVars
    <3>2. CASE v # w
      <4>1. WorkerSound(v) /\ pc'[v] = pc[v] /\ item'[v] = item[v] /\ result'[v] = result[v]
        BY <2>6, <2>7, <2>9, <3>2 DEF DeliveryInv
      <4>2. pc[v] # "exited"
        BY <1>4, <4>1 DEF WorkerSound
      <4> QED
        BY <1>1, <2>2, <4>1, <4>2 DEF WorkerSound, Progress, queueVars
    <3> QED
      BY <3>1, <3>2
  <2>16. ASSUME NEW j \in Item PROVE ItemSound(j)'
    <3>1. ItemSound(j)
      BY DEF DeliveryInv
    <3>2. (\E v \in Worker : item[v] = j) => \E v \in Worker : item'[v] = j
      <4> SUFFICES ASSUME NEW v \in Worker, item[v] = j PROVE \E u \in Worker : item'[u] = j
        OBVIOUS
      <4>1. v # w
        BY <1>2, QueueAssumption
      <4> QED
        BY <2>7, <4>1
    <3>3. CASE j = i
      BY <1>1, <2>3, <2>7, <3>1, <3>3 DEF ItemSound, Fresh
    <3>4. CASE j # i
      BY <1>1, <1>2, <2>2, <2>7, <3>1, <3>2, <3>4 DEF ItemSound, Fresh
    <3> QED
      BY <3>3, <3>4
  <2>17. SettledItems' = SettledItems
    <3>1. \A j \in Item : record[j] # "none" => ((\A v \in Worker : item'[v] # j) <=> \A v \in Worker : item[v] # j)
      BY <1>2, <2>3, <2>7, QueueAssumption DEF Fresh
    <3> QED
      BY <1>1, <3>1 DEF SettledItems
  <2> QED
    BY <1>1, <2>11, <2>12, <2>14, <2>15, <2>16, <2>17 DEF DeliveryInv
<1> QED
  BY <1>3, <1>4 DEF Receive

\* A worker settles its item and lets it go.
LEMMA SettleKeeps == ASSUME DeliveryAssumption, DeliveryInv, NEW w \in Worker, Settle(w) PROVE DeliveryInv'
<1> DEFINE i == item[w]
<1>1. /\ pc[w] = "settle" /\ item' = [item EXCEPT ![w] = NoItem] /\ pc' = [pc EXCEPT ![w] = "receive"]
      /\ UNCHANGED <<queue, result, sends>> /\ UNCHANGED <<queueVars, producer, offer, panicked, offered, accepted>>
  BY DEF Settle, WorkerStep
<1>2. i \in Item /\ i \in accepted /\ i \notin InQueue /\ Progress(w) /\ i # NoItem /\ started
  BY <1>1 DEF DeliveryInv, WorkerSound, QueueTyped, Holding
<1>3. record[i] # "none" /\ (sends[i] > 0 \/ result[w].attempts <= 2)
  BY <1>1, <1>2 DEF Progress
<1>4. PICK r \in {"success", "failed", "retry"} : record' = [record EXCEPT ![i] = r] /\ (r = "failed" => sends[i] > 0)
  <2>1. result[w].attempts \in Nat /\ MaxAttempts \in Nat /\ MaxAttempts >= 3
    BY QueueAssumption DEF DeliveryInv, QueueTyped, Result, DeliveryAssumption
  <2>2. CASE result[w].success
    <3>1. record' = record /\ record \in [Item -> {"none", "success", "failed", "retry"}]
      BY <2>2 DEF Settle, DeliveryInv, QueueTyped
    <3>2. record' = [record EXCEPT ![i] = record[i]] /\ record[i] \in {"success", "failed", "retry"}
      BY <1>2, <1>3, <3>1
    <3>3. record[i] = "success"
      BY <1>1, <1>2, <2>2 DEF Progress
    <3> QED
      BY <3>2, <3>3
  <2>3. CASE ~result[w].success
    <3>1. record' = [record EXCEPT ![i] = IF RetryLeft(result[w].attempts) THEN "retry" ELSE "failed"]
      BY <2>3 DEF Settle
    <3>2. ~RetryLeft(result[w].attempts) => sends[i] > 0
      BY <1>3, <2>1 DEF RetryLeft
    <3> QED
      BY <3>1, <3>2
  <2> QED
    BY <2>2, <2>3
<1>5. /\ record' \in [Item -> {"none", "success", "failed", "retry"}] /\ record'[i] = r
      /\ \A j \in Item \ {i} : record'[j] = record[j]
  BY <1>2, <1>4 DEF DeliveryInv, QueueTyped
<1>6. /\ pc' \in [Worker -> Holding \cup {"off", "receive", "exited"}] /\ pc'[w] = "receive"
      /\ \A v \in Worker \ {w} : pc'[v] = pc[v]
  BY <1>1 DEF DeliveryInv, QueueTyped
<1>7. /\ item' \in [Worker -> Item \cup {NoItem}] /\ item'[w] = NoItem
      /\ \A v \in Worker \ {w} : item'[v] = item[v]
  BY <1>1 DEF DeliveryInv, QueueTyped
<1>8. \A v \in Worker \ {w} : item[v] # i
  BY <1>2 DEF DeliveryInv, Exclusive
<1>9. failureCount \in Nat /\ failureCount' \in Nat /\ failureCount' <= failureCount + 1
  BY DEF Settle, DeliveryInv, QueueTyped
<1>10. QueueTyped'
  BY <1>1, <1>5, <1>6, <1>7, <1>9 DEF DeliveryInv, QueueTyped, queueVars, Result
<1>11. OffersSound' /\ InQueue' = InQueue
  BY <1>1 DEF DeliveryInv, OffersSound, InQueue, Elements
<1>12. QueueSound'
  <2>1. \A j \in InQueue : j \in Item /\ j # i
    BY <1>2 DEF DeliveryInv, QueueSound, QueueTyped
  <2> QED
    BY <1>1, <1>5, <1>11, <2>1 DEF DeliveryInv, QueueSound, Fresh, Once
<1>13. Exclusive'
  BY <1>7 DEF DeliveryInv, Exclusive
<1>14. ASSUME NEW v \in Worker PROVE WorkerSound(v)'
  <2>1. CASE v = w
    BY <1>1, <1>2, <1>6, <1>7, <2>1 DEF WorkerSound, Progress, Holding, queueVars
  <2>2. CASE v # w
    <3>1. WorkerSound(v) /\ pc'[v] = pc[v] /\ item'[v] = item[v] /\ result'[v] = result[v]
      BY <1>1, <1>6, <1>7, <2>2 DEF DeliveryInv
    <3>2. pc[v] \in Holding => item[v] \in Item \ {i}
      BY <1>8, <2>2, <3>1 DEF DeliveryInv, QueueTyped, WorkerSound
    <3>3. pc[v] \in Holding => record'[item[v]] = record[item[v]]
      BY <1>5, <3>2
    <3>4. Progress(v)'
      BY <1>1, <3>1, <3>3 DEF WorkerSound, Progress, Holding
    <3> QED
      BY <1>1, <1>11, <3>1, <3>4 DEF WorkerSound, queueVars
  <2> QED
    BY <2>1, <2>2
<1>15. ASSUME NEW j \in Item PROVE ItemSound(j)'
  <2>1. ItemSound(j)
    BY DEF DeliveryInv
  <2>2. CASE j = i
    BY <1>1, <1>2, <1>4, <1>5, <2>1, <2>2 DEF ItemSound
  <2>3. CASE j # i
    <3>1. \A v \in Worker : item'[v] = j <=> item[v] = j
      BY <1>7, <2>3, QueueAssumption
    <3> QED
      BY <1>1, <1>5, <1>11, <2>1, <2>3, <3>1 DEF ItemSound, Fresh
  <2> QED
    BY <2>2, <2>3
<1>16. failureCount' <= Cardinality(SettledItems')
  <2>1. i \notin SettledItems /\ SettledItems' = SettledItems \cup {i}
    <3>1. i \notin SettledItems
      BY DEF SettledItems
    <3>2. record'[i] # "none" /\ \A v \in Worker : item'[v] # i
      BY <1>2, <1>5, <1>7, <1>8
    <3>3. \A j \in Item \ {i} : record'[j] = record[j] /\ ((\A v \in Worker : item'[v] # j) <=> \A v \in Worker : item[v] # j)
      BY <1>5, <1>7, QueueAssumption
    <3> QED
      BY <1>2, <3>1, <3>2, <3>3 DEF SettledItems
  <2>2. IsFiniteSet(SettledItems)
    BY FS_Subset DEF SettledItems, DeliveryAssumption
  <2>3. Cardinality(SettledItems') = Cardinality(SettledItems) + 1 /\ Cardinality(SettledItems) \in Nat
    BY <2>1, <2>2, FS_AddElement, FS_CardinalityType
  <2> QED
    BY <1>9, <2>3 DEF DeliveryInv
<1> QED
  BY <1>10, <1>11, <1>12, <1>13, <1>14, <1>15, <1>16 DEF DeliveryInv

\* Every step keeps the invariant.
LEMMA DeliveryStep == ASSUME DeliveryAssumption, DeliveryInv, [Next]_vars PROVE DeliveryInv'
<1>1. CASE UNCHANGED vars
  BY <1>1, FlagsKeep DEF vars, queueVars, DeliveryInv, QueueTyped
<1>2. ASSUME NEW p \in Producer, NEW i \in Item, EnqueueCheck(p, i) PROVE DeliveryInv'
  BY <1>2, CheckKeeps
<1>3. ASSUME NEW p \in Producer, EnqueueSend(p) PROVE DeliveryInv'
  BY <1>3, SendKeeps
<1>4. ASSUME NEW s \in Stopper, StopMark(s) \/ StopStep(s) PROVE DeliveryInv'
  BY <1>4, StopKeeps
<1>5. ASSUME NEW w \in Worker, Process(w) PROVE DeliveryInv'
  BY <1>5, ReceiveKeeps, SendingKeeps, SettleKeeps DEF Process
<1> QED
  BY <1>1, <1>2, <1>3, <1>4, <1>5, StartKeeps DEF Next, Terminating

\* Stop leaves every item Enqueue accepted with its delivery record, and no delivery is given up
\* without a request having been made.
THEOREM NoDeliveryLost == ASSUME DeliveryAssumption PROVE Spec => []NoItemLost
<1>1. Init => DeliveryInv
  BY DeliveryInit
<1>2. DeliveryInv /\ [Next]_vars => DeliveryInv'
  BY DeliveryStep
<1>3. DeliveryInv => NoItemLost
  BY DeliveryFollows
<1> QED
  BY <1>1, <1>2, <1>3, PTL DEF Spec

-----------------------------------------------------------------------------
(* Declared workflows *)

StepNames == STRING
Outcomes == {"completed", "failed"}
StepReports == [name : StepNames, status : Outcomes]
FlowReports == SUBSET StepReports
FlowPlaces == {"idle", "schedule", "await", "ended"}
FlowStatuses == {"running", "completed", "failed"}
FlowRecords == [pc : FlowPlaces, block : Nat, step : Nat, status : FlowStatuses, results : FlowReports]
ActivityStates == {"running", "ok", "failed"}
Activities == [state : ActivityStates, attempts : Nat]

FlowTyped ==
    /\ blocks \in Workflows \cup {<<>>} /\ blocks \in Seq(Seq(StepNames))
    /\ flow \in FlowRecords
    /\ activity \in Seq(Activities)
    /\ \A i \in 1..Len(activity) : activity[i].attempts \in 1..MaxActivityAttempts
    /\ performed \subseteq Steps

\* Where the workflow function is in its blocks.
FlowPlace ==
    /\ flow.block <= Len(blocks) + 1
    /\ flow.pc = "idle" => flow.block = 0 /\ performed = {} /\ flow.results = {}
    /\ flow.pc # "idle" => flow.block > 0
    /\ flow.pc = "await" => /\ flow.block <= Len(blocks) /\ Len(activity) = Len(blocks[flow.block])
                            /\ flow.step \in 1..Len(activity)
    /\ flow.status # "running" => flow.pc = "ended"
    /\ flow.status = "completed" => flow.block = Len(blocks) + 1

\* The blocks behind it are done, and the futures behind it have succeeded.
FlowDone ==
    /\ \A s \in performed : s[1] <= flow.block
    /\ \A s \in Steps : s[1] < flow.block => s \in performed
    /\ flow.pc = "await" =>
         \A i \in 1..Len(activity) :
            /\ i < flow.step => activity[i].state = "ok"
            /\ activity[i].state = "ok" => StepAt(flow.block, i) \in performed

FlowHonest ==
    /\ \A x \in flow.results : x.status = "completed" => \E s \in performed : StepName(s) = x.name
    /\ flow.status = "failed" => \E x \in flow.results : x.status = "failed"

FlowInv == FlowTyped /\ FlowPlace /\ FlowDone /\ FlowHonest

\* A step is a place in a block.
LEMMA StepsAre ==
  ASSUME FlowTyped
  PROVE  /\ \A s \in Steps : /\ s = <<s[1], s[2]>> /\ s[1] \in 1..Len(blocks) /\ s[2] \in 1..Len(blocks[s[1]])
         /\ \A b \in 1..Len(blocks) : \A i \in 1..Len(blocks[b]) : StepAt(b, i) \in Steps
<1>1. DOMAIN blocks = 1..Len(blocks) /\ \A b \in 1..Len(blocks) : blocks[b] \in Seq(StepNames) /\ DOMAIN blocks[b] = 1..Len(blocks[b])
  BY DEF FlowTyped
<1>2. ASSUME NEW s \in Steps PROVE s = <<s[1], s[2]>> /\ s[1] \in 1..Len(blocks) /\ s[2] \in 1..Len(blocks[s[1]])
  <2>1. PICK b \in DOMAIN blocks : s \in {StepAt(b, i) : i \in DOMAIN blocks[b]}
    BY Zenon DEF Steps
  <2>2. PICK i \in DOMAIN blocks[b] : s = <<b, i>>
    BY <2>1 DEF StepAt
  <2>3. s[1] = b /\ s[2] = i
    BY <2>2
  <2> QED
    BY <1>1, <2>1, <2>2, <2>3
<1>3. ASSUME NEW b \in 1..Len(blocks), NEW i \in 1..Len(blocks[b]) PROVE StepAt(b, i) \in Steps
  <2>1. b \in DOMAIN blocks /\ i \in DOMAIN blocks[b]
    BY <1>1
  <2>2. StepAt(b, i) \in {StepAt(b, j) : j \in DOMAIN blocks[b]}
    BY <2>1
  <2> QED
    BY <2>1, <2>2, Zenon DEF Steps
<1> QED
  BY <1>2, <1>3

\* The fields of the workflow's state.
LEMMA FlowFields ==
  ASSUME FlowTyped
  PROVE  /\ flow.pc \in FlowPlaces /\ flow.block \in Nat /\ flow.step \in Nat
         /\ flow.status \in FlowStatuses /\ flow.results \in FlowReports
         /\ Len(blocks) \in Nat /\ Len(activity) \in Nat
         /\ \A i \in 1..Len(activity) : activity[i] \in Activities
         /\ DOMAIN activity = 1..Len(activity)
  BY DEF FlowTyped, FlowRecords

\* What the workflow reports follows.
LEMMA FlowFollows == ASSUME FlowInv PROVE ReportMatchesSteps
<1> USE DEF FlowInv
<1>1. FlowTypeOK
  BY FlowFields DEF FlowTyped, FlowPlace, FlowTypeOK, Activities, FlowPlaces, FlowStatuses, ActivityStates
<1>2. flow.status = "completed" => performed = Steps
  <2> SUFFICES ASSUME flow.status = "completed", NEW s \in Steps PROVE s \in performed
    BY DEF FlowTyped
  <2>1. s[1] < flow.block
    BY StepsAre, FlowFields DEF FlowPlace
  <2> QED
    BY <2>1 DEF FlowDone
<1>3. ASSUME NEW s \in performed, NEW other \in Steps, other[1] < s[1] PROVE other \in performed
  <2>1. s \in Steps /\ s[1] <= flow.block
    BY DEF FlowTyped, FlowDone
  <2>2. other[1] < flow.block
    BY <1>3, <2>1, StepsAre, FlowFields
  <2> QED
    BY <2>2 DEF FlowDone
<1> QED
  BY <1>1, <1>2, <1>3 DEF ReportMatchesSteps, FlowHonest

\* Nothing runs at the beginning.
LEMMA FlowInitInv == ASSUME FlowInit PROVE FlowInv
<1>1. blocks \in Seq(Seq(StepNames)) /\ activity \in Seq(Activities) /\ Len(activity) = 0 /\ Len(blocks) = 0 /\ DOMAIN blocks = {}
  BY DEF FlowInit
<1>2. flow \in FlowRecords
  BY DEF FlowInit, FlowRecords, FlowPlaces, FlowStatuses, FlowReports
<1>3. Steps = {}
  BY <1>1 DEF Steps
<1>4. FlowTyped
  BY <1>1, <1>2, <1>3 DEF FlowInit, FlowTyped
<1> QED
  BY <1>1, <1>3, <1>4 DEF FlowInit, FlowInv, FlowPlace, FlowDone, FlowHonest

\* The workflow function goes to a block, with nothing under way that it awaits.
LEMMA StartFlowKeeps == ASSUME FlowAssumption, FlowInv, NEW w \in Workflows, StartFlow(w) PROVE FlowInv'
<1>1. /\ blocks' = w /\ w \in Seq(Seq(StepNames)) /\ activity' = activity /\ performed' = performed /\ flow.pc = "idle"
      /\ flow' = [flow EXCEPT !.pc = "schedule", !.block = 1]
  BY DEF StartFlow, FlowAssumption, StepNames
<1>2. /\ flow.block = 0 /\ performed = {} /\ flow.results = {} /\ flow.status = "running" /\ FlowTyped
  BY <1>1, FlowFields DEF FlowInv, FlowPlace
<1>3. /\ flow' \in FlowRecords /\ flow'.pc = "schedule" /\ flow'.block = 1 /\ flow'.results = {} /\ flow'.status = "running"
  BY <1>1, <1>2 DEF FlowTyped, FlowRecords, FlowPlaces, FlowStatuses
<1>4. FlowTyped'
  BY <1>1, <1>2, <1>3 DEF FlowTyped
<1>5. FlowPlace'
  BY <1>1, <1>2, <1>3 DEF FlowPlace
<1>6. FlowDone'
  <2>1. ASSUME NEW s \in Steps' PROVE s[1] \in 1..Len(w)
    <3>1. PICK b \in DOMAIN w : s \in {StepAt(b, i) : i \in DOMAIN w[b]}
      BY <1>1, Zenon DEF Steps
    <3>2. s[1] = b
      BY <3>1 DEF StepAt
    <3> QED
      BY <1>1, <3>1, <3>2
  <2>2. \A s \in Steps' : ~(s[1] < 1)
    BY <1>1, <2>1
  <2> QED
    BY <1>1, <1>2, <1>3, <2>2 DEF FlowDone
<1>7. FlowHonest'
  BY <1>3 DEF FlowHonest
<1> QED
  BY <1>4, <1>5, <1>6, <1>7 DEF FlowInv

\* The activities of a block begin.
LEMMA ScheduleKeeps == ASSUME FlowAssumption, FlowInv, Schedule PROVE FlowInv'
<1>1. /\ blocks' = blocks /\ performed' = performed /\ flow.pc = "schedule" /\ flow.block <= Len(blocks)
      /\ activity' = [i \in DOMAIN blocks[flow.block] |-> [state |-> "running", attempts |-> 1]]
  BY DEF Schedule
<1>2. FlowTyped /\ flow.block > 0 /\ flow.block \in 1..Len(blocks) /\ Steps' = Steps
  BY <1>1, FlowFields DEF FlowInv, FlowPlace, Steps
<1>3. PICK b : b = flow.block
  OBVIOUS
<1>4. b \in 1..Len(blocks) /\ blocks[b] \in Seq(StepNames) /\ DOMAIN blocks[b] = 1..Len(blocks[b]) /\ Len(blocks[b]) \in Nat
  BY <1>2, <1>3 DEF FlowTyped
<1>5. activity' \in Seq(Activities) /\ Len(activity') = Len(blocks[b]) /\ \A i \in 1..Len(blocks[b]) : activity'[i] = [state |-> "running", attempts |-> 1]
  <2>1. [state |-> "running", attempts |-> 1] \in Activities
    BY DEF Activities, ActivityStates
  <2>2. activity' \in [1..Len(blocks[b]) -> Activities]
    BY <1>1, <1>3, <1>4, <2>1
  <2> QED
    BY <1>1, <1>3, <1>4, <2>2
<1>6. CASE blocks[b] = <<>>
  <2>1. flow' = [flow EXCEPT !.block = flow.block + 1]
    BY <1>3, <1>6 DEF Schedule
  <2>2. /\ flow' \in FlowRecords /\ flow'.pc = "schedule" /\ flow'.block = b + 1 /\ flow'.results = flow.results
        /\ flow'.status = flow.status
    <3>1. b + 1 \in Nat /\ flow \in FlowRecords
      BY <1>2, <1>4 DEF FlowTyped
    <3> QED
      BY <1>1, <1>3, <2>1, <3>1 DEF FlowRecords
  <2>3. FlowTyped'
    <3>1. \A i \in 1..Len(activity') : activity'[i].attempts \in 1..MaxActivityAttempts
      BY <1>5 DEF FlowAssumption
    <3> QED
      BY <1>1, <1>2, <1>5, <2>2, <3>1 DEF FlowTyped
  <2>4. FlowPlace'
    BY <1>1, <1>2, <1>3, <1>4, <2>2, FlowFields DEF FlowInv, FlowPlace
  <2>5. FlowDone'
    <3>1. ASSUME NEW s \in Steps, s[1] < b + 1 PROVE s \in performed
      <4>1. s[1] # b
        BY <1>2, <1>6, StepsAre
      <4>2. s[1] < b
        BY <1>2, <1>4, <3>1, <4>1, StepsAre
      <4> QED
        BY <1>3, <4>2 DEF FlowInv, FlowDone
    <3>2. ASSUME NEW s \in performed PROVE s[1] <= b + 1
      <4>1. s[1] \in 1..Len(blocks) /\ s[1] <= b
        BY <1>2, <1>3, StepsAre DEF FlowInv, FlowDone, FlowTyped
      <4> QED
        BY <1>4, <4>1
    <3> QED
      BY <1>1, <1>2, <2>2, <3>1, <3>2 DEF FlowDone
  <2>6. FlowHonest'
    BY <1>1, <2>2 DEF FlowInv, FlowHonest, StepName
  <2> QED
    BY <2>3, <2>4, <2>5, <2>6 DEF FlowInv
<1>7. CASE blocks[b] # <<>>
  <2>1. flow' = [flow EXCEPT !.pc = "await", !.step = 1]
    BY <1>3, <1>7 DEF Schedule
  <2>2. /\ flow' \in FlowRecords /\ flow'.pc = "await" /\ flow'.block = b /\ flow'.results = flow.results
        /\ flow'.status = flow.status /\ flow'.step = 1
    BY <1>1, <1>2, <1>3, <1>4, <2>1 DEF FlowTyped, FlowRecords, FlowPlaces, FlowStatuses
  <2>3. FlowTyped'
    <3>1. \A i \in 1..Len(activity') : activity'[i].attempts \in 1..MaxActivityAttempts
      BY <1>5 DEF FlowAssumption
    <3> QED
      BY <1>1, <1>2, <1>5, <2>2, <3>1 DEF FlowTyped
  <2>4. FlowPlace'
    <3>1. Len(blocks[b]) > 0
      BY <1>4, <1>7
    <3> QED
      BY <1>1, <1>2, <1>3, <1>4, <1>5, <2>2, <3>1, FlowFields DEF FlowInv, FlowPlace
  <2>5. FlowDone'
    BY <1>1, <1>2, <1>3, <1>5, <2>2 DEF FlowInv, FlowDone
  <2>6. FlowHonest'
    BY <1>1, <2>2 DEF FlowInv, FlowHonest, StepName
  <2> QED
    BY <2>3, <2>4, <2>5, <2>6 DEF FlowInv
<1> QED
  BY <1>6, <1>7

\* An attempt ends: the activity has succeeded, is tried again, or has failed.
LEMMA ActivityKeeps ==
  ASSUME FlowAssumption, FlowInv, NEW k \in DOMAIN activity, ActivitySucceeds(k) \/ ActivityFails(k)
  PROVE  FlowInv'
<1>1. /\ blocks' = blocks /\ flow' = flow /\ flow.pc = "await" /\ activity[k].state = "running" /\ FlowTyped
      /\ Steps' = Steps /\ k \in 1..Len(activity) /\ activity[k] \in Activities
  BY FlowFields DEF FlowInv, ActivitySucceeds, ActivityFails, Steps
<1>2. PICK a \in Activities :
         /\ activity' = [activity EXCEPT ![k] = a] /\ a.attempts \in 1..MaxActivityAttempts
         /\ \/ a.state # "ok" /\ performed' = performed
            \/ performed' = performed \cup {StepAt(flow.block, k)}
  <2>1. CASE ActivitySucceeds(k)
    <3>1. [activity[k] EXCEPT !.state = "ok"] \in Activities /\ [activity[k] EXCEPT !.state = "ok"].attempts \in 1..MaxActivityAttempts
      BY <1>1 DEF Activities, ActivityStates, FlowTyped
    <3> QED
      BY <2>1, <3>1 DEF ActivitySucceeds
  <2>2. CASE ActivityFails(k) /\ activity[k].attempts < MaxActivityAttempts
    <3>1. activity' = [activity EXCEPT ![k] = [activity[k] EXCEPT !.attempts = activity[k].attempts + 1]] /\ performed' = performed
      BY <2>2 DEF ActivityFails
    <3>2. activity[k].attempts \in 1..MaxActivityAttempts
      BY <1>1 DEF FlowTyped
    <3>3. /\ [activity[k] EXCEPT !.attempts = activity[k].attempts + 1] \in Activities
          /\ [activity[k] EXCEPT !.attempts = activity[k].attempts + 1].attempts \in 1..MaxActivityAttempts
          /\ [activity[k] EXCEPT !.attempts = activity[k].attempts + 1].state = "running"
      BY <1>1, <2>2, <3>2 DEF Activities, ActivityStates, FlowAssumption
    <3> QED
      BY <3>1, <3>3
  <2>3. CASE ActivityFails(k) /\ ~(activity[k].attempts < MaxActivityAttempts)
    <3>1. activity' = [activity EXCEPT ![k] = [activity[k] EXCEPT !.state = "failed"]] /\ performed' = performed
      BY <2>3 DEF ActivityFails
    <3>2. /\ [activity[k] EXCEPT !.state = "failed"] \in Activities
          /\ [activity[k] EXCEPT !.state = "failed"].attempts \in 1..MaxActivityAttempts
          /\ [activity[k] EXCEPT !.state = "failed"].state = "failed"
      BY <1>1 DEF Activities, ActivityStates, FlowTyped
    <3> QED
      BY <3>1, <3>2
  <2> QED
    BY <2>1, <2>2, <2>3
<1>3. /\ activity' \in Seq(Activities) /\ Len(activity') = Len(activity)
      /\ activity'[k] = a /\ \A i \in 1..Len(activity) : i # k => activity'[i] = activity[i]
  BY <1>1, <1>2 DEF FlowTyped
<1>4. /\ flow.block \in 1..Len(blocks) /\ Len(activity) = Len(blocks[flow.block]) /\ performed \subseteq performed'
  BY <1>1, <1>2, FlowFields DEF FlowInv, FlowPlace
<1>5. StepAt(flow.block, k) \in Steps
  BY <1>1, <1>4, StepsAre
<1>6. FlowTyped'
  <2>1. \A i \in 1..Len(activity') : activity'[i].attempts \in 1..MaxActivityAttempts
    BY <1>1, <1>2, <1>3 DEF FlowTyped
  <2> QED
    BY <1>1, <1>2, <1>3, <1>5, <2>1 DEF FlowTyped
<1>7. FlowPlace'
  BY <1>1, <1>3 DEF FlowInv, FlowPlace
<1>8. FlowDone'
  <2>1. \A s \in performed' : s[1] <= flow.block
    BY <1>2, <1>4, FlowFields, <1>1 DEF FlowInv, FlowDone, StepAt
  <2>2. ASSUME NEW i \in 1..Len(activity)
        PROVE  (i < flow.step => activity'[i].state = "ok") /\ (activity'[i].state = "ok" => StepAt(flow.block, i) \in performed')
    <3>1. CASE i = k
      BY <1>1, <1>2, <1>3, <3>1 DEF FlowInv, FlowDone
    <3>2. CASE i # k
      BY <1>1, <1>3, <1>4, <3>2 DEF FlowInv, FlowDone
    <3> QED
      BY <3>1, <3>2
  <2> QED
    BY <1>1, <1>3, <1>4, <2>1, <2>2 DEF FlowInv, FlowDone
<1>9. FlowHonest'
  BY <1>1, <1>4 DEF FlowInv, FlowHonest, StepName
<1> QED
  BY <1>6, <1>7, <1>8, <1>9 DEF FlowInv

\* The workflow function has the answer of the future it awaits.
LEMMA AwaitKeeps == ASSUME FlowInv, AwaitFuture PROVE FlowInv'
<1>1. PICK b, i : b = flow.block /\ i = flow.step
  OBVIOUS
<1>2. /\ blocks' = blocks /\ activity' = activity /\ performed' = performed /\ flow.pc = "await" /\ Steps' = Steps /\ FlowTyped
      /\ activity[i].state \in {"ok", "failed"}
  BY <1>1 DEF AwaitFuture, Steps, FlowInv
<1>3. /\ b \in 1..Len(blocks) /\ i \in 1..Len(activity) /\ Len(activity) = Len(blocks[b]) /\ flow.status = "running"
      /\ Len(activity) \in Nat /\ Len(blocks) \in Nat
  BY <1>1, <1>2, FlowFields DEF FlowInv, FlowPlace
<1>4. blocks[b][i] \in StepNames
  BY <1>2, <1>3 DEF FlowTyped
<1>5. CASE activity[i].state = "failed"
  <2>1. flow' = [flow EXCEPT !.pc = "ended", !.status = "failed", !.results = Recorded(i, "failed")]
    BY <1>1, <1>5 DEF AwaitFuture, AfterFuture
  <2>2. Recorded(i, "failed") \in FlowReports
    BY <1>1, <1>2, <1>4, FlowFields DEF Recorded, StepResult, StepReports, FlowReports, Outcomes
  <2>3. /\ flow' \in FlowRecords /\ flow'.pc = "ended" /\ flow'.block = b /\ flow'.results = Recorded(i, "failed")
        /\ flow'.status = "failed" /\ flow'.step = i
    BY <1>1, <1>2, <2>1, <2>2 DEF FlowTyped, FlowRecords, FlowPlaces, FlowStatuses
  <2>4. FlowTyped'
    BY <1>2, <2>3 DEF FlowTyped
  <2>5. FlowPlace'
    BY <1>2, <1>3, <2>3 DEF FlowPlace
  <2>6. FlowDone'
    BY <1>1, <1>2, <2>3 DEF FlowInv, FlowDone
  <2>7. FlowHonest'
    <3>1. \E x \in Recorded(i, "failed") : x.status = "failed"
      <4>1. StepResult(i, "failed") \in Recorded(i, "failed")
        BY DEF Recorded
      <4>2. StepResult(i, "failed").status = "failed"
        BY DEF StepResult
      <4> QED
        BY <4>1, <4>2
    <3>2. \A x \in Recorded(i, "failed") : x.status = "completed" => x \in flow.results
      BY DEF Recorded, StepResult
    <3> QED
      BY <1>2, <2>3, <3>1, <3>2 DEF FlowInv, FlowHonest, StepName
  <2> QED
    BY <2>4, <2>5, <2>6, <2>7 DEF FlowInv
<1>6. CASE activity[i].state = "ok"
  <2>1. StepAt(b, i) \in performed /\ StepName(StepAt(b, i)) = blocks[b][i]
    BY <1>1, <1>2, <1>3, <1>6 DEF FlowInv, FlowDone, StepAt, StepName
  <2>2. Recorded(i, "completed") \in FlowReports
    BY <1>1, <1>2, <1>4, FlowFields DEF Recorded, StepResult, StepReports, FlowReports, Outcomes
  <2>3. \A x \in Recorded(i, "completed") : x.status = "completed" => \E s \in performed : StepName(s) = x.name
    BY <1>1, <2>1 DEF Recorded, StepResult, FlowInv, FlowHonest
  <2>4. CASE i < Len(activity)
    <3>1. flow' = [flow EXCEPT !.step = i + 1, !.results = Recorded(i, "completed")]
      BY <1>1, <1>6, <2>4 DEF AwaitFuture, AfterFuture
    <3>2. /\ flow' \in FlowRecords /\ flow'.pc = "await" /\ flow'.block = b /\ flow'.results = Recorded(i, "completed")
          /\ flow'.status = "running" /\ flow'.step = i + 1
      <4>1. b \in Nat /\ i \in Nat /\ b + 1 \in Nat /\ i + 1 \in Nat /\ flow \in FlowRecords /\ "schedule" \in FlowPlaces
        BY <1>2, <1>3 DEF FlowTyped, FlowPlaces
      <4> QED
        BY <1>1, <1>2, <1>3, <2>2, <3>1, <4>1 DEF FlowRecords
    <3>3. FlowTyped'
      BY <1>2, <3>2 DEF FlowTyped
    <3>4. FlowPlace'
      BY <1>2, <1>3, <2>4, <3>2 DEF FlowPlace
    <3>5. FlowDone'
      <4>1. ASSUME NEW j \in 1..Len(activity), j < i + 1 PROVE activity[j].state = "ok"
        <5>1. j = i \/ j < i
          BY <1>3, <4>1
        <5> QED
          BY <1>1, <1>2, <1>6, <5>1 DEF FlowInv, FlowDone
      <4> QED
        BY <1>1, <1>2, <3>2, <4>1 DEF FlowInv, FlowDone
    <3>6. FlowHonest'
      BY <1>2, <2>3, <3>2 DEF FlowHonest, StepName
    <3> QED
      BY <3>3, <3>4, <3>5, <3>6 DEF FlowInv
  <2>5. CASE ~(i < Len(activity))
    <3>1. flow' = [flow EXCEPT !.pc = "schedule", !.block = flow.block + 1, !.results = Recorded(i, "completed")]
      BY <1>1, <1>6, <2>5 DEF AwaitFuture, AfterFuture
    <3>2. /\ flow' \in FlowRecords /\ flow'.pc = "schedule" /\ flow'.block = b + 1 /\ flow'.results = Recorded(i, "completed")
          /\ flow'.status = "running" /\ flow'.step = i
      <4>1. b \in Nat /\ i \in Nat /\ b + 1 \in Nat /\ i + 1 \in Nat /\ flow \in FlowRecords /\ "schedule" \in FlowPlaces
        BY <1>2, <1>3 DEF FlowTyped, FlowPlaces
      <4> QED
        BY <1>1, <1>2, <1>3, <2>2, <3>1, <4>1 DEF FlowRecords
    <3>3. FlowTyped'
      BY <1>2, <3>2 DEF FlowTyped
    <3>4. FlowPlace'
      BY <1>2, <1>3, <3>2 DEF FlowPlace
    <3>5. FlowDone'
      <4>1. ASSUME NEW s \in Steps, s[1] < b + 1 PROVE s \in performed
        <5>1. s = <<s[1], s[2]>> /\ s[1] \in 1..Len(blocks) /\ s[2] \in 1..Len(blocks[s[1]])
          BY <1>2, StepsAre
        <5>2. CASE s[1] < b
          BY <1>1, <5>2 DEF FlowInv, FlowDone
        <5>3. CASE s[1] = b
          <6>1. s[2] \in 1..Len(activity) /\ (s[2] = i \/ s[2] < i)
            BY <1>3, <2>5, <5>1, <5>3
          <6>2. activity[s[2]].state = "ok"
            BY <1>1, <1>2, <1>6, <6>1 DEF FlowInv, FlowDone
          <6> QED
            BY <1>1, <1>2, <5>1, <5>3, <6>1, <6>2 DEF FlowInv, FlowDone, StepAt
        <5> QED
          BY <1>3, <4>1, <5>1, <5>2, <5>3
      <4>2. ASSUME NEW s \in performed PROVE s[1] <= b + 1
        <5>1. s[1] \in 1..Len(blocks) /\ s[1] <= b
          BY <1>1, <1>2, StepsAre DEF FlowInv, FlowDone, FlowTyped
        <5> QED
          BY <1>3, <5>1
      <4> QED
        BY <1>2, <3>2, <4>1, <4>2 DEF FlowDone
    <3>6. FlowHonest'
      BY <1>2, <2>3, <3>2 DEF FlowHonest, StepName
    <3> QED
      BY <3>3, <3>4, <3>5, <3>6 DEF FlowInv
  <2> QED
    BY <2>4, <2>5
<1> QED
  BY <1>2, <1>5, <1>6

\* All blocks are done.
LEMMA CompleteKeeps == ASSUME FlowInv, CompleteFlow PROVE FlowInv'
<1>1. /\ blocks' = blocks /\ activity' = activity /\ performed' = performed /\ flow.pc = "schedule" /\ Steps' = Steps /\ FlowTyped
      /\ flow.block > Len(blocks) /\ flow' = [flow EXCEPT !.pc = "ended", !.status = "completed"]
  BY DEF CompleteFlow, Steps, FlowInv
<1>2. /\ flow' \in FlowRecords /\ flow'.pc = "ended" /\ flow'.block = flow.block /\ flow'.results = flow.results
      /\ flow'.status = "completed"
  BY <1>1 DEF FlowTyped, FlowRecords, FlowPlaces, FlowStatuses
<1>3. FlowTyped'
  BY <1>1, <1>2 DEF FlowTyped
<1>4. FlowPlace'
  BY <1>1, <1>2, FlowFields DEF FlowInv, FlowPlace
<1>5. FlowDone' /\ FlowHonest'
  BY <1>1, <1>2 DEF FlowInv, FlowDone, FlowHonest, StepName
<1> QED
  BY <1>3, <1>4, <1>5 DEF FlowInv

\* Every step keeps the invariant.
LEMMA FlowStep == ASSUME FlowAssumption, FlowInv, [FlowNext]_flowVars PROVE FlowInv'
<1>1. CASE UNCHANGED flowVars
  <2>1. blocks' = blocks /\ flow' = flow /\ activity' = activity /\ performed' = performed /\ Steps' = Steps
    BY <1>1 DEF flowVars, Steps
  <2>2. FlowTyped' /\ FlowPlace'
    BY <2>1 DEF FlowInv, FlowTyped, FlowPlace
  <2>3. FlowDone' /\ FlowHonest'
    BY <2>1 DEF FlowInv, FlowDone, FlowHonest, StepName
  <2> QED
    BY <2>2, <2>3 DEF FlowInv
<1> QED
  BY <1>1, StartFlowKeeps, ScheduleKeeps, ActivityKeeps, AwaitKeeps, CompleteKeeps DEF FlowNext

\* What ExecuteDSLWorkflow reports is what happened.
THEOREM ReportsMatchSteps == ASSUME FlowAssumption PROVE FlowSpec => []ReportMatchesSteps
<1>1. FlowInit => FlowInv
  BY FlowInitInv
<1>2. FlowInv /\ [FlowNext]_flowVars => FlowInv'
  BY FlowStep
<1>3. FlowInv => ReportMatchesSteps
  BY FlowFollows
<1> QED
  BY <1>1, <1>2, <1>3, PTL DEF FlowSpec

-----------------------------------------------------------------------------
(* Workflows that are built in *)

Jobs == [kind : Kind, parallel : BOOLEAN, stop : BOOLEAN, names : Seq(UnitName)]
Stages == {"idle", "validate", "start", "units", "compensate", "settle", "store", "notify", "returned", "terminated"}
Futures == {"none", "pending", "ok", "err"}
Undoings == [unit : Units, ok : BOOLEAN]

JobTyped ==
    /\ job \in Jobs /\ Len(job.names) <= MaxUnits
    /\ stage \in Stages
    /\ future \in [Units -> Futures] /\ results \in [Units -> UnitStatus]
    /\ current \in Nat /\ 1 <= current /\ current <= MaxUnits + 1
    /\ executed \subseteq UnitName
    /\ toUndo \in Seq(Units) /\ undone \in Seq(Undoings)
    /\ status \in {"running", "completed", "failed"} /\ stored \subseteq {"completed", "failed"}
    /\ ctxCanceled \in BOOLEAN

\* Before any unit is started, or after the validation has failed.
Untouched == (\A u \in Units : results[u] = "none") /\ executed = {} /\ toUndo = <<>> /\ undone = <<>>

\* While units run: what has been collected is behind the current one.
Collecting ==
    /\ current <= Len(job.names) /\ toUndo = <<>> /\ undone = <<>>
    /\ stage = "start" /\ job.parallel => current = 1
    /\ \A u \in Units : u < current =>
          results[u] = "completed" \/ (results[u] = "failed" /\ (job.parallel \/ (job.kind = "suite" /\ ~job.stop)))
    /\ \A u \in Units : u >= current => results[u] \in {"none", "running"}
    /\ \A u \in Units : ~job.parallel /\ u > current => results[u] = "none"

\* When they have run: a sequence that stopped left the rest out.
LeftOut(u) == Failed /\ results[u] = IF job.kind = "suite" THEN "canceled" ELSE "none"
Collected == \A u \in Units : IF ~job.parallel /\ u > current THEN LeftOut(u) ELSE results[u] \in {"completed", "failed"}

\* The units whose compensation is registered.
RegisteredUnits == IF job.parallel THEN Len(job.names) ELSE current

\* What has been undone and what is still to be looked at.
Undoing ==
    /\ \A i \in 1..Len(toUndo) : toUndo[i] = Len(toUndo) + 1 - i
    /\ Len(toUndo) <= RegisteredUnits
    /\ UndoneUnits = IF job.kind = "compensated" /\ Failed
                     THEN {u \in Units : u > Len(toUndo) /\ u <= RegisteredUnits /\ job.names[u] \in executed} ELSE {}

Executed == {job.names[u] : u \in {v \in Units : results[v] = "completed"}}

UndoneInOrder == \A i, j \in 1..Len(undone) : i < j => undone[i].unit > undone[j].unit

\* The error of a failed pipeline is made when its compensations have been tried, and says how
\* they ended.
Reported ==
    /\ report \in {"none", "compensated", "compensation failed"}
    /\ stage \in {"idle", "validate", "start", "units", "compensate"} => report = "none"
    /\ stage \in {"settle", "store", "notify", "returned"} => (report # "none" <=> job.kind = "compensated" /\ Failed)
    /\ report = "compensated" => \A i \in 1..Len(undone) : undone[i].ok
    /\ report = "compensation failed" => \E i \in 1..Len(undone) : ~undone[i].ok

\* What is recorded of a unit against what became of its activity.
FutureSound(u) ==
    /\ results[u] = "completed" => future[u] = "ok"
    /\ results[u] = "failed" /\ ~ctxCanceled => future[u] = "err"
    /\ results[u] \in {"none", "canceled"} =>
          future[u] = "none" \/ (stage = "units" /\ u = current) \/ stage = "terminated"

PipelineInv ==
    /\ JobTyped
    /\ UndoneInOrder
    /\ stage # "terminated" => executed = Executed
    /\ stage = "idle" => job = NoJob /\ current = 1 /\ status = "running"
    /\ stage \in {"idle", "validate"} => Untouched /\ current = 1
    /\ stage \in {"start", "units"} => Collecting
    /\ stage \in {"compensate", "settle", "store", "notify"} => Collected /\ Undoing
    /\ stage = "compensate" => job.kind = "compensated" /\ Failed
    /\ stage \in {"settle", "store", "notify"} => toUndo = <<>>
    /\ stage \in {"store", "notify"} => status = SettledStatus
    /\ stage = "returned" => \/ Untouched /\ status = "failed"
                             \/ Collected /\ Undoing /\ toUndo = <<>> /\ status = SettledStatus
    /\ Reported
    /\ \A u \in Units : FutureSound(u)

\* The fields of the input, and the units.
LEMMA JobFields ==
  ASSUME JobTyped
  PROVE  /\ job.kind \in Kind /\ job.parallel \in BOOLEAN /\ job.stop \in BOOLEAN /\ job.names \in Seq(UnitName)
         /\ Len(job.names) \in Nat /\ Units = 1..Len(job.names) /\ DOMAIN job.names = Units
         /\ \A u \in Units : results[u] \in UnitStatus /\ job.names[u] \in UnitName
         /\ Len(toUndo) \in Nat /\ Len(undone) \in Nat /\ current \in Nat
<1>1. job.kind \in Kind /\ job.parallel \in BOOLEAN /\ job.stop \in BOOLEAN /\ job.names \in Seq(UnitName)
  BY DEF JobTyped, Jobs
<1>2. Len(job.names) \in Nat /\ Units = 1..Len(job.names) /\ DOMAIN job.names = Units
  BY <1>1 DEF Units
<1>3. \A u \in Units : job.names[u] \in UnitName
  BY <1>1, <1>2
<1>4. \A u \in Units : results[u] \in UnitStatus
  BY DEF JobTyped
<1> QED
  BY <1>1, <1>2, <1>3, <1>4 DEF JobTyped

\* What is accounted for follows.
LEMMA PipelineFollows == ASSUME PipelineAssumption, PipelineInv PROVE PipelinesAccounted
<1>0. JobTyped /\ UndoneInOrder
  BY DEF PipelineInv
<1>1. PipelineTypeOK
  <2>1. Len(job.names) \in 0..MaxUnits /\ current \in 1..(MaxUnits + 1)
    BY <1>0, JobFields DEF JobTyped, PipelineAssumption
  <2> QED
    BY <1>0, <2>1, JobFields DEF JobTyped, PipelineTypeOK, PipelineInv, Reported, Stages, Futures, Undoings
<1>2. ASSUME stage = "returned", job.kind = "compensated"
      PROVE  /\ Failed <=> report # "none"
             /\ report = "none" => undone = <<>>
             /\ report # "none" => CompletedUnits \subseteq UndoneUnits /\ (Distinct => UndoneUnits = CompletedUnits)
             /\ ctxCanceled \/ CompletedUnits = {u \in Units : future[u] = "ok"}
  <2>1. Failed <=> report # "none"
    BY <1>2 DEF PipelineInv, Reported
  <2>2. CASE Untouched /\ status = "failed"
    <3>1. ~Failed /\ undone = <<>> /\ CompletedUnits = {}
      BY <2>2 DEF Untouched, Failed, CompletedUnits
    <3>2. \A u \in Units : future[u] # "ok"
      BY <1>2, <2>2 DEF PipelineInv, FutureSound, Untouched
    <3> QED
      BY <2>1, <3>1, <3>2
  <2>3. CASE Collected /\ Undoing /\ toUndo = <<>> /\ status = SettledStatus
    <3>1. Len(toUndo) = 0
      BY <2>3
    <3>2. ASSUME ~Failed PROVE undone = <<>>
      <4>1. UndoneUnits = {}
        BY <2>3, <3>2 DEF Undoing
      <4>2. undone \in Seq(Undoings) /\ Len(undone) \in Nat /\ (1 \in 1..Len(undone) => undone[1].unit \in UndoneUnits)
        BY <1>0 DEF JobTyped, UndoneUnits
      <4> QED
        BY <4>1, <4>2
    <3>3. ASSUME Failed PROVE CompletedUnits \subseteq UndoneUnits /\ (Distinct => UndoneUnits = CompletedUnits)
      <4>1. UndoneUnits = {u \in Units : u > 0 /\ u <= RegisteredUnits /\ job.names[u] \in executed}
        BY <1>2, <2>3, <3>1, <3>3 DEF Undoing
      <4>2. ASSUME NEW u \in Units, results[u] = "completed" PROVE u > 0 /\ u <= RegisteredUnits /\ job.names[u] \in executed
        <5>1. job.parallel \/ ~(u > current)
          BY <2>3, <4>2 DEF Collected, LeftOut
        <5>2. job.names[u] \in executed
          BY <1>2, <4>2 DEF PipelineInv, Executed
        <5> QED
          BY <1>0, <5>1, <5>2, JobFields DEF RegisteredUnits
      <4>3. ASSUME Distinct, NEW u \in Units, job.names[u] \in executed PROVE results[u] = "completed"
        BY <1>2, <4>3 DEF PipelineInv, Executed, Distinct
      <4>4. CompletedUnits \subseteq UndoneUnits
        BY <4>1, <4>2 DEF CompletedUnits
      <4>5. Distinct => UndoneUnits \subseteq CompletedUnits
        BY <4>1, <4>3 DEF CompletedUnits
      <4> QED
        BY <4>4, <4>5
    <3>4. ASSUME ~ctxCanceled, NEW u \in Units PROVE results[u] = "completed" <=> future[u] = "ok"
      <4>1. FutureSound(u) /\ (results[u] \in {"completed", "failed", "none", "canceled"})
        BY <1>0, <2>3, JobFields DEF PipelineInv, Collected, LeftOut
      <4> QED
        BY <1>2, <3>4, <4>1 DEF FutureSound
    <3> QED
      BY <2>1, <3>2, <3>3, <3>4 DEF CompletedUnits
  <2> QED
    BY <1>2, <2>2, <2>3 DEF PipelineInv
<1>4. /\ report = "compensated" => \A i \in 1..Len(undone) : undone[i].ok
      /\ report = "compensation failed" => \E i \in 1..Len(undone) : ~undone[i].ok
  BY DEF PipelineInv, Reported
<1>3. ResultsAddUp
  <2> SUFFICES ASSUME stage \in {"store", "notify", "returned"}, \E u \in Units : results[u] # "none"
               PROVE  /\ job.kind = "suite" => \A u \in Units : results[u] \in {"completed", "failed", "canceled"}
                      /\ job.parallel => \A u \in Units : results[u] \in {"completed", "failed"}
                      /\ (status = "completed") = (\A u \in Units : results[u] = "completed")
    BY DEF ResultsAddUp
  <2>1. Collected /\ status = SettledStatus
    BY DEF PipelineInv, Untouched
  <2>2. job.kind = "suite" => \A u \in Units : results[u] \in {"completed", "failed", "canceled"}
    BY <2>1 DEF Collected, LeftOut
  <2>3. job.parallel => \A u \in Units : results[u] \in {"completed", "failed"}
    BY <2>1 DEF Collected, LeftOut
  <2>4. status = "completed" <=> \A u \in Units : results[u] = "completed"
    BY <2>1 DEF Collected, LeftOut, SettledStatus, Failed
  <2> QED
    BY <2>2, <2>3, <2>4
<1> QED
  BY <1>0, <1>1, <1>2, <1>3, <1>4 DEF PipelinesAccounted, RolledBackExactly, UndoneInOrder

\* No workflow runs.
LEMMA NoJobInv ==
  ASSUME PipelineAssumption, PipelineInit
  PROVE  PipelineInv
<1>1. job \in Jobs /\ job.names = <<>> /\ Len(job.names) = 0
  BY DEF PipelineInit, NoJob, Jobs, Kind
<1>2. Units = {}
  BY <1>1 DEF Units
<1>3. future \in [Units -> Futures] /\ results \in [Units -> UnitStatus]
  BY <1>2 DEF PipelineInit
<1>4. toUndo \in Seq(Units) /\ undone \in Seq(Undoings) /\ Len(undone) = 0
  BY DEF PipelineInit
<1>5. JobTyped
  <2>1. Len(job.names) <= MaxUnits /\ current \in Nat /\ 1 <= current /\ current <= MaxUnits + 1
    BY <1>1 DEF PipelineInit, PipelineAssumption
  <2>2. stage \in Stages /\ ctxCanceled \in BOOLEAN /\ executed = {} /\ status = "running" /\ stored = {}
    BY DEF PipelineInit, Stages
  <2> QED
    BY <1>1, <1>3, <1>4, <2>1, <2>2 DEF JobTyped
<1>6. Untouched /\ executed = Executed /\ UndoneInOrder
  BY <1>2, <1>4 DEF PipelineInit, Untouched, Executed, UndoneInOrder
<1>7. Reported /\ \A u \in Units : FutureSound(u)
  BY <1>2 DEF PipelineInit, Reported
<1> QED
  BY <1>5, <1>6, <1>7 DEF PipelineInit, PipelineInv

\* A step that leaves the units and what was undone alone leaves what is said of them alone.
LEMMA SameUnits ==
  ASSUME UNCHANGED <<job, results, current, executed, toUndo, undone>>
  PROVE  /\ Units' = Units /\ Executed' = Executed /\ (Failed' <=> Failed) /\ (Untouched' <=> Untouched)
         /\ (Collected' <=> Collected) /\ (Undoing' <=> Undoing) /\ (UndoneInOrder' <=> UndoneInOrder)
         /\ SettledStatus' = SettledStatus
<1>1. Units' = Units /\ RegisteredUnits' = RegisteredUnits /\ UndoneUnits' = UndoneUnits
  BY DEF Units, RegisteredUnits, UndoneUnits
<1>2. Executed' = Executed /\ (Failed' <=> Failed)
  BY <1>1 DEF Executed, Failed
<1>3. (Untouched' <=> Untouched) /\ (UndoneInOrder' <=> UndoneInOrder)
  BY <1>1 DEF Untouched, UndoneInOrder
<1>4. Collected' <=> Collected
  BY <1>1, <1>2 DEF Collected, LeftOut
<1>5. Undoing' <=> Undoing
  BY <1>1, <1>2 DEF Undoing
<1>6. SettledStatus' = SettledStatus
  BY <1>2 DEF SettledStatus
<1> QED
  BY <1>1, <1>2, <1>3, <1>4, <1>5, <1>6

\* Answers, cancellation and the steps that only move the workflow on.
LEMMA MovingKeeps ==
  ASSUME PipelineInv,
         \/ \E u \in 1..MaxUnits, ok \in BOOLEAN : UnitAnswers(u, ok)
         \/ CancelJob \/ Compensated \/ SettleStatus \/ SendNotification \/ ExecutionTimeout
         \/ \E ok \in BOOLEAN : ValidateInput(ok) \/ StoreResult(ok)
         \/ UNCHANGED pipelineVars
  PROVE  PipelineInv'
<1>1. UNCHANGED <<job, results, current, executed, toUndo, undone>>
  BY DEF UnitAnswers, CancelJob, Compensated, SettleStatus, SendNotification, ExecutionTimeout, ValidateInput, StoreResult, pipelineVars
<1>2. JobTyped
  BY DEF PipelineInv
<1>3. /\ Units' = Units /\ Executed' = Executed /\ (Failed' <=> Failed) /\ (Untouched' <=> Untouched)
      /\ (Collected' <=> Collected) /\ (Undoing' <=> Undoing) /\ (UndoneInOrder' <=> UndoneInOrder)
      /\ SettledStatus' = SettledStatus /\ SettledStatus \in {"completed", "failed"}
  BY <1>1, SameUnits DEF SettledStatus
<1>4. JobTyped'
  <2>1. future' \in [Units -> Futures]
    BY <1>2 DEF UnitAnswers, CancelJob, Compensated, SettleStatus, SendNotification, ExecutionTimeout, ValidateInput, StoreResult, pipelineVars, JobTyped, Futures
  <2>2. stage' \in Stages /\ ctxCanceled' \in BOOLEAN
    BY <1>2 DEF UnitAnswers, CancelJob, Compensated, SettleStatus, SendNotification, ExecutionTimeout, ValidateInput, StoreResult, pipelineVars, JobTyped, Stages
  <2>3. status' \in {"running", "completed", "failed"} /\ stored' \subseteq {"completed", "failed"}
    BY <1>2, <1>3 DEF UnitAnswers, CancelJob, Compensated, SettleStatus, SendNotification, ExecutionTimeout, ValidateInput, StoreResult, pipelineVars, JobTyped, FiledAs
  <2>4. results' \in [Units' -> UnitStatus'] /\ toUndo' \in Seq(Units') /\ undone' \in Seq(Undoings')
    BY <1>1, <1>2, <1>3 DEF JobTyped, Undoings, UnitStatus
  <2> QED
    BY <1>1, <1>2, <1>3, <2>1, <2>2, <2>3, <2>4 DEF JobTyped, Jobs, Kind, Stages, Futures
<1>12. \A u \in Units' : FutureSound(u)'
  <2> SUFFICES ASSUME NEW u \in Units PROVE FutureSound(u)'
    BY <1>3
  <2>1. FutureSound(u)
    BY DEF PipelineInv
  <2>2. stage = "units" => stage' \in {"units", "terminated"}
    BY DEF UnitAnswers, CancelJob, Compensated, SettleStatus, SendNotification, ExecutionTimeout, ValidateInput, StoreResult, pipelineVars
  <2>3. stage = "terminated" => stage' = "terminated"
    BY DEF UnitAnswers, CancelJob, Compensated, SettleStatus, SendNotification, ExecutionTimeout, ValidateInput, StoreResult, pipelineVars
  <2>4. future'[u] = future[u] \/ (future[u] = "pending" /\ stage # "terminated")
    BY <1>2 DEF UnitAnswers, CancelJob, Compensated, SettleStatus, SendNotification, ExecutionTimeout, ValidateInput, StoreResult, pipelineVars, JobTyped
  <2>5. ctxCanceled => ctxCanceled'
    BY DEF UnitAnswers, CancelJob, Compensated, SettleStatus, SendNotification, ExecutionTimeout, ValidateInput, StoreResult, pipelineVars
  <2>6. future'[u] # future[u] => stage' = stage /\ ctxCanceled' = ctxCanceled
    BY DEF UnitAnswers, CancelJob, Compensated, SettleStatus, SendNotification, ExecutionTimeout, ValidateInput, StoreResult, pipelineVars
  <2> QED
    BY <1>1, <2>1, <2>2, <2>3, <2>4, <2>5, <2>6 DEF FutureSound
<1>13. ASSUME ~Compensated PROVE Reported'
  <2>1. report' = report
    BY <1>13 DEF UnitAnswers, CancelJob, SettleStatus, SendNotification, ExecutionTimeout, ValidateInput, StoreResult, pipelineVars
  <2>2. stage' = stage \/ stage' = "terminated" \/ (stage = "validate" /\ (stage' = "start" \/ stage' = "returned"))
        \/ (stage \in {"settle", "store", "notify"} /\ stage' \in {"store", "notify", "returned"})
    BY <1>13 DEF UnitAnswers, CancelJob, SettleStatus, SendNotification, ExecutionTimeout, ValidateInput, StoreResult, pipelineVars
  <2>3. stage = "validate" => ~Failed
    BY DEF PipelineInv, Untouched, Failed
  <2> QED
    BY <1>1, <1>3, <2>1, <2>2, <2>3 DEF PipelineInv, Reported
<1>14. ASSUME Compensated PROVE Reported'
  <2>1. stage = "compensate" /\ stage' = "settle" /\ report' = CompensateReturns
    BY <1>14 DEF Compensated
  <2>2. job.kind = "compensated" /\ Failed
    BY <2>1 DEF PipelineInv
  <2> QED
    BY <1>1, <1>3, <2>1, <2>2 DEF Reported, CompensateReturns
<1>15. Reported' /\ \A u \in Units' : FutureSound(u)'
  BY <1>12, <1>13, <1>14
<1>5. CASE UNCHANGED <<stage, status>>
  <2>1. Collecting' <=> Collecting
    BY <1>1, <1>3, <1>5 DEF Collecting
  <2> QED
    BY <1>1, <1>3, <1>4, <1>5, <1>15, <2>1 DEF PipelineInv
<1>6. CASE Compensated
  BY <1>1, <1>3, <1>4, <1>6, <1>15 DEF PipelineInv, Compensated
<1>7. CASE SettleStatus
  BY <1>1, <1>3, <1>4, <1>7, <1>15 DEF PipelineInv, SettleStatus
<1>8. CASE SendNotification
  BY <1>1, <1>3, <1>4, <1>8, <1>15 DEF PipelineInv, SendNotification
<1>9. CASE ExecutionTimeout
  BY <1>1, <1>3, <1>4, <1>9, <1>15 DEF PipelineInv, ExecutionTimeout
<1>10. ASSUME NEW ok \in BOOLEAN, StoreResult(ok) PROVE PipelineInv'
  BY <1>1, <1>3, <1>4, <1>10, <1>15 DEF PipelineInv, StoreResult
<1>11. ASSUME NEW ok \in BOOLEAN, ValidateInput(ok) PROVE PipelineInv'
  <2>1. stage = "validate" /\ Untouched /\ current = 1 /\ executed = Executed /\ UndoneInOrder
    BY <1>11 DEF ValidateInput, PipelineInv
  <2>2. CASE stage' = "start" /\ ValidInput
    <3>1. current <= Len(job.names)
      BY <1>2, <2>1, <2>2, JobFields DEF ValidInput
    <3>2. Collecting'
      BY <1>1, <1>2, <1>3, <2>1, <3>1, JobFields DEF Collecting, Untouched
    <3> QED
      BY <1>1, <1>3, <1>4, <1>15, <2>1, <2>2, <3>2 DEF PipelineInv
  <2>3. CASE stage' = "returned" /\ status' = "failed"
    BY <1>1, <1>3, <1>4, <1>15, <2>1, <2>3 DEF PipelineInv
  <2> QED
    BY <1>11, <2>2, <2>3 DEF ValidateInput
<1> QED
  BY <1>5, <1>6, <1>7, <1>8, <1>9, <1>10, <1>11 DEF UnitAnswers, CancelJob, pipelineVars

\* Another workflow begins, or is given its input.
LEMMA StartJobKeeps ==
  ASSUME PipelineAssumption, PipelineInv, NEW kind \in Kind, NEW parallel \in BOOLEAN, NEW stop \in BOOLEAN,
         NEW names \in NameLists, StartJob(kind, parallel, stop, names)
  PROVE  PipelineInv'
<1>1. PICK n \in 0..MaxUnits : names \in [1..n -> UnitName]
  BY DEF NameLists
<1>2. names \in Seq(UnitName) /\ Len(names) = n /\ n \in Nat /\ n <= MaxUnits
  BY <1>1 DEF PipelineAssumption
<1>3. /\ stage = "idle" /\ stage' = "validate"
      /\ job' = [kind |-> kind, parallel |-> parallel, stop |-> stop, names |-> names]
      /\ future' = [u \in 1..Len(names) |-> "none"] /\ results' = [u \in 1..Len(names) |-> "none"]
      /\ UNCHANGED <<current, executed, toUndo, undone, status, stored, ctxCanceled>>
  BY DEF StartJob
<1>4. job' \in Jobs /\ job'.names = names
  BY <1>2, <1>3 DEF Jobs
<1>5. Units' = 1..Len(names)
  BY <1>4 DEF Units
<1>6. JobTyped /\ Untouched /\ current = 1 /\ undone = <<>> /\ toUndo = <<>> /\ executed = {}
  BY <1>3 DEF PipelineInv, Untouched
<1>7. JobTyped'
  <2>1. future' \in [Units' -> Futures] /\ results' \in [Units' -> UnitStatus']
    BY <1>3, <1>5 DEF Futures, UnitStatus
  <2>2. toUndo' \in Seq(Units') /\ undone' \in Seq(Undoings')
    BY <1>3, <1>6
  <2>3. stage' \in Stages
    BY <1>3 DEF Stages
  <2> QED
    BY <1>2, <1>3, <1>4, <1>6, <2>1, <2>2, <2>3 DEF JobTyped, Jobs, Kind, Futures, Stages
<1>8. Untouched' /\ Executed' = {} /\ UndoneInOrder'
  <2>1. \A u \in Units' : results'[u] = "none"
    BY <1>3, <1>5
  <2>2. Len(undone') = 0
    BY <1>3, <1>6
  <2>3. Executed' = {}
    BY <2>1 DEF Executed
  <2> QED
    BY <1>3, <1>6, <2>1, <2>2, <2>3 DEF Untouched, UndoneInOrder
<1>9. Reported' /\ \A u \in Units' : FutureSound(u)'
  <2>1. \A u \in Units' : results'[u] = "none" /\ future'[u] = "none"
    BY <1>3, <1>5
  <2>2. report = "none" /\ report' = "none"
    BY <1>3 DEF PipelineInv, Reported, StartJob
  <2> QED
    BY <1>3, <2>1, <2>2 DEF Reported, FutureSound
<1> QED
  BY <1>3, <1>6, <1>7, <1>8, <1>9 DEF PipelineInv

\* The activities of all units, or of the next one, are started.
LEMMA StartUnitsKeeps == ASSUME PipelineInv, StartUnits PROVE PipelineInv'
<1>1. /\ stage = "start" /\ stage' = "units" /\ UNCHANGED <<job, current, executed, toUndo, undone, status, stored, ctxCanceled>>
      /\ future' = [u \in Units |-> IF u \in (IF job.parallel THEN Units ELSE {current}) THEN "pending" ELSE future[u]]
      /\ results' = [u \in Units |-> IF u \in (IF job.parallel THEN Units ELSE {current}) /\ job.parallel THEN "running" ELSE results[u]]
  BY DEF StartUnits
<1>2. JobTyped /\ Collecting /\ executed = Executed /\ UndoneInOrder /\ Units' = Units
  BY <1>1 DEF PipelineInv, Units
<1>3. \A u \in Units : results'[u] = IF job.parallel THEN "running" ELSE results[u]
  BY <1>1
<1>4. JobTyped'
  <2>1. future' \in [Units -> Futures]
    BY <1>1, <1>2 DEF JobTyped, Futures
  <2>2. results' \in [Units -> UnitStatus]
    BY <1>1, <1>2 DEF JobTyped, UnitStatus
  <2>3. stage' \in Stages
    BY <1>1 DEF Stages
  <2> QED
    BY <1>1, <1>2, <2>1, <2>2, <2>3 DEF JobTyped, Jobs, Kind, Futures, Stages, UnitStatus, Undoings
<1>5. ASSUME NEW u \in Units PROVE results'[u] = "completed" <=> results[u] = "completed"
  <2>1. CASE job.parallel
    <3>1. u >= current
      BY <1>1, <1>2, <2>1, JobFields DEF Collecting
    <3> QED
      BY <1>2, <1>3, <2>1, <3>1 DEF Collecting
  <2>2. CASE ~job.parallel
    BY <1>3, <2>2
  <2> QED
    BY <2>1, <2>2
<1>6. Executed' = Executed
  BY <1>1, <1>2, <1>5 DEF Executed
<1>7. Collecting'
  <2>1. CASE job.parallel
    <3>1. current = 1 /\ \A u \in Units : u >= current
      BY <1>1, <1>2, <2>1, JobFields DEF Collecting
    <3> QED
      BY <1>1, <1>2, <1>3, <2>1, <3>1, JobFields DEF Collecting
  <2>2. CASE ~job.parallel
    BY <1>1, <1>2, <1>3, <2>2 DEF Collecting
  <2> QED
    BY <2>1, <2>2
<1>8. UndoneInOrder'
  BY <1>1, <1>2 DEF UndoneInOrder
<1>9. Reported'
  BY <1>1 DEF PipelineInv, Reported, StartUnits
<1>10. ASSUME NEW u \in Units' PROVE FutureSound(u)'
  <2>1. u \in Units /\ FutureSound(u)
    BY <1>2, <1>10 DEF PipelineInv
  <2>2. CASE job.parallel
    <3>1. results'[u] = "running"
      BY <1>3, <2>1, <2>2
    <3> QED
      BY <3>1 DEF FutureSound
  <2>3. CASE ~job.parallel /\ u = current
    <3>1. results'[u] = results[u] /\ results[u] \in {"none", "running"}
      BY <1>2, <1>3, <2>1, <2>3, JobFields DEF Collecting
    <3> QED
      BY <1>1, <2>3, <3>1 DEF FutureSound
  <2>4. CASE ~job.parallel /\ u # current
    <3>1. results'[u] = results[u] /\ future'[u] = future[u]
      BY <1>1, <1>3, <2>1, <2>4
    <3> QED
      BY <1>1, <2>1, <3>1 DEF FutureSound
  <2> QED
    BY <2>2, <2>3, <2>4
<1> QED
  BY <1>1, <1>2, <1>4, <1>6, <1>7, <1>8, <1>9, <1>10 DEF PipelineInv

\* An answer is collected.
LEMMA CollectKeeps == ASSUME PipelineAssumption, PipelineInv, NEW ok \in BOOLEAN, CollectUnit(ok) PROVE PipelineInv'
<1> DEFINE n == Len(job.names)
           last == current = Len(job.names) \/ StopsHere(ok)
           failing == ~ok \/ Failed
<1>1. /\ stage = "units" /\ UNCHANGED <<job, future, undone, status, stored, ctxCanceled>>
      /\ results' = [u \in Units |-> IF u = current THEN (IF ok THEN "completed" ELSE "failed")
                                     ELSE IF u \in SkipRest(ok) THEN "canceled" ELSE results[u]]
      /\ executed' = IF ok THEN executed \cup {job.names[current]} ELSE executed
      /\ current' = IF last THEN current ELSE current + 1
      /\ stage' = IF ~last THEN (IF job.parallel THEN "units" ELSE "start")
                  ELSE IF failing /\ job.kind = "compensated" THEN "compensate" ELSE "settle"
      /\ toUndo' = IF last /\ failing /\ job.kind = "compensated"
                   THEN [i \in 1..RegisteredUnits |-> RegisteredUnits + 1 - i] ELSE <<>>
  BY DEF CollectUnit, RegisteredUnits
<1>2. JobTyped /\ Collecting /\ executed = Executed /\ Units' = Units
  BY <1>1 DEF PipelineInv, Units
<1>3. PICK c : c = current
  OBVIOUS
<1>4. c \in Units /\ c \in Nat /\ c >= 1 /\ c <= n /\ n \in Nat /\ n <= MaxUnits /\ Units = 1..n /\ undone = <<>>
  BY <1>2, <1>3, JobFields DEF Collecting, JobTyped
<1>5. results'[c] = IF ok THEN "completed" ELSE "failed"
  BY <1>1, <1>3, <1>4
<1>6. \A u \in Units : u # c => results'[u] = IF u \in SkipRest(ok) THEN "canceled" ELSE results[u]
  BY <1>1, <1>3
<1>7. \A u \in SkipRest(ok) : u \in Units /\ u > c /\ ~job.parallel /\ job.kind = "suite" /\ StopsHere(ok) /\ results[u] = "none"
  BY <1>2, <1>3 DEF SkipRest, StopsHere, Collecting
<1>8. results[c] \in {"none", "running"}
  BY <1>2, <1>3, <1>4 DEF Collecting
<1>9. \A u \in Units : u # c => (results'[u] = "completed" <=> results[u] = "completed") /\ (results'[u] = "failed" <=> results[u] = "failed")
  BY <1>6, <1>7
<1>10. executed' = Executed'
  <2>1. CASE ok
    <3>1. {v \in Units : results'[v] = "completed"} = {v \in Units : results[v] = "completed"} \cup {c}
      BY <1>4, <1>5, <1>9, <2>1
    <3> QED
      BY <1>1, <1>2, <1>3, <2>1, <3>1 DEF Executed
  <2>2. CASE ~ok
    <3>1. {v \in Units : results'[v] = "completed"} = {v \in Units : results[v] = "completed"}
      BY <1>4, <1>5, <1>8, <1>9, <2>2
    <3> QED
      BY <1>1, <1>2, <1>3, <2>2, <3>1 DEF Executed
  <2> QED
    BY <2>1, <2>2
<1>11. Failed' <=> failing
  <2>1. Failed' <=> \E u \in Units : results'[u] = "failed"
    BY <1>2 DEF Failed
  <2> QED
    BY <1>4, <1>5, <1>8, <1>9, <2>1 DEF Failed
<1>12. RegisteredUnits \in 1..n
  BY <1>2, <1>3, <1>4 DEF RegisteredUnits
<1>13. toUndo' \in Seq(Units) /\ Len(toUndo') = IF last /\ failing /\ job.kind = "compensated" THEN RegisteredUnits ELSE 0
  <2>1. CASE last /\ failing /\ job.kind = "compensated"
    <3>1. toUndo' = [i \in 1..RegisteredUnits |-> RegisteredUnits + 1 - i]
      BY <1>1, <2>1
    <3>2. RegisteredUnits \in Nat /\ \A i \in 1..RegisteredUnits : RegisteredUnits + 1 - i \in Units
      BY <1>4, <1>12
    <3>3. toUndo' \in [1..RegisteredUnits -> Units]
      BY <3>1, <3>2
    <3> QED
      BY <2>1, <3>1, <3>2, <3>3
  <2>2. CASE ~(last /\ failing /\ job.kind = "compensated")
    BY <1>1, <2>2
  <2> QED
    BY <2>1, <2>2
<1>14. JobTyped'
  <2>1. results' \in [Units -> UnitStatus]
    BY <1>1, <1>2 DEF JobTyped, UnitStatus
  <2>2. current' \in Nat /\ 1 <= current' /\ current' <= MaxUnits + 1
    BY <1>1, <1>3, <1>4 DEF PipelineAssumption
  <2>3. stage' \in Stages
    BY <1>1 DEF Stages
  <2>4. executed' \subseteq UnitName
    BY <1>1, <1>2, <1>3, <1>4, JobFields DEF JobTyped
  <2> QED
    BY <1>1, <1>2, <1>13, <2>1, <2>2, <2>3, <2>4 DEF JobTyped, Jobs, Kind, Futures, Stages, UnitStatus, Undoings
<1>15. UndoneInOrder' /\ UndoneUnits' = {}
  <2>1. undone' = <<>> /\ Len(undone') = 0
    BY <1>1, <1>4
  <2> QED
    BY <2>1 DEF UndoneInOrder, UndoneUnits
<1>18. ASSUME NEW u \in Units' PROVE FutureSound(u)'
  <2>1. u \in Units /\ FutureSound(u)
    BY <1>2, <1>18 DEF PipelineInv
  <2>2. future[c] = (IF ok THEN "ok" ELSE "err") \/ (ctxCanceled /\ ~ok)
    BY <1>3 DEF CollectUnit, Collectable, Answered
  <2>3. CASE u = c
    BY <1>1, <1>5, <2>2, <2>3 DEF FutureSound
  <2>4. CASE u # c
    <3>1. results'[u] = "completed" \/ results'[u] = "failed" => results'[u] = results[u]
      BY <1>6, <2>1, <2>4
    <3>2. results'[u] \in {"none", "canceled"} => results[u] \in {"none", "canceled"}
      BY <1>6, <1>7, <2>1, <2>4
    <3> QED
      BY <1>1, <1>3, <2>1, <2>4, <3>1, <3>2 DEF FutureSound
  <2> QED
    BY <2>3, <2>4
<1>19. report = "none" /\ report' = "none"
  BY <1>1 DEF PipelineInv, Reported, CollectUnit
<1>20. Reported'
  <2>1. stage' = "settle" => ~(job'.kind = "compensated" /\ Failed')
    BY <1>1, <1>11
  <2>2. stage' \in {"units", "start", "compensate", "settle"}
    BY <1>1
  <2> QED
    BY <1>19, <2>1, <2>2 DEF Reported
<1>16. CASE ~last
  <2>1. current' = c + 1 /\ c < n /\ toUndo' = <<>> /\ ~StopsHere(ok) /\ SkipRest(ok) = {} /\ (stage' = "start" => ~job.parallel) /\ stage' \in {"start", "units"}
    BY <1>1, <1>3, <1>4, <1>16 DEF SkipRest
  <2>2. ASSUME NEW u \in Units, u < c + 1
        PROVE  results'[u] = "completed" \/ (results'[u] = "failed" /\ (job.parallel \/ (job.kind = "suite" /\ ~job.stop)))
    <3>1. CASE u = c
      BY <1>5, <2>1, <3>1 DEF StopsHere
    <3>2. CASE u < c
      BY <1>2, <1>3, <1>4, <1>9, <3>2 DEF Collecting
    <3> QED
      BY <1>4, <2>2, <3>1, <3>2
  <2>3. ASSUME NEW u \in Units, u >= c + 1
        PROVE  results'[u] \in {"none", "running"} /\ (~job.parallel /\ u > c + 1 => results'[u] = "none")
    <3>1. u >= c /\ u # c /\ u > c
      BY <1>4, <2>3
    <3>2. results'[u] = results[u]
      BY <1>6, <2>1, <3>1
    <3> QED
      BY <1>2, <1>3, <3>1, <3>2 DEF Collecting
  <2>4. ASSUME NEW u \in Units, ~job.parallel, u > c + 1 PROVE results'[u] = "none"
    BY <1>4, <2>3, <2>4
  <2>5. Collecting'
    <3>1. job' = job /\ Units' = Units /\ undone' = <<>> /\ current' <= Len(job'.names) /\ ~(stage' = "start" /\ job'.parallel)
      BY <1>1, <1>2, <1>4, <2>1
    <3>2. \A u \in Units' : u < current' =>
             results'[u] = "completed" \/ (results'[u] = "failed" /\ (job'.parallel \/ (job'.kind = "suite" /\ ~job'.stop)))
      BY <2>1, <2>2, <3>1
    <3>3. \A u \in Units' : u >= current' => results'[u] \in {"none", "running"}
      BY <2>1, <2>3, <3>1
    <3>4. \A u \in Units' : ~job'.parallel /\ u > current' => results'[u] = "none"
      BY <2>1, <2>4, <3>1
    <3> QED
      BY <2>1, <3>1, <3>2, <3>3, <3>4 DEF Collecting
  <2> QED
    BY <1>10, <1>14, <1>15, <1>18, <1>20, <2>1, <2>5 DEF PipelineInv
<1>17. CASE last
  <2>1. current' = c /\ stage' \in {"compensate", "settle"} /\ (stage' = "compensate" => Failed' /\ job'.kind = "compensated")
    BY <1>1, <1>3, <1>11, <1>17
  <2>2. Collected'
    <3> SUFFICES ASSUME NEW u \in Units
                 PROVE  IF ~job.parallel /\ u > c THEN Failed' /\ results'[u] = IF job.kind = "suite" THEN "canceled" ELSE "none"
                        ELSE results'[u] \in {"completed", "failed"}
      BY <1>1, <1>2, <2>1 DEF Collected, LeftOut
    <3>1. CASE u = c
      BY <1>4, <1>5, <3>1
    <3>2. CASE u < c
      BY <1>2, <1>3, <1>4, <1>9, <3>2 DEF Collecting
    <3>3. CASE u > c
      <4>1. StopsHere(ok) /\ ~ok /\ ~job.parallel
        <5>1. c # n
          BY <1>4, <3>3
        <5>2. StopsHere(ok) \/ job.parallel
          BY <1>3, <1>17, <5>1
        <5> QED
          BY <1>3, <1>17, <5>1 DEF StopsHere
      <4>2. Failed' /\ results[u] = "none"
        BY <1>2, <1>3, <1>11, <3>3, <4>1 DEF Collecting
      <4>3. u \in SkipRest(ok) <=> job.kind = "suite"
        BY <1>3, <3>3, <4>1 DEF SkipRest
      <4> QED
        BY <1>4, <1>6, <3>3, <4>1, <4>2, <4>3
    <3> QED
      BY <1>4, <3>1, <3>2, <3>3
  <2>3. Undoing'
    <3>1. RegisteredUnits' = RegisteredUnits
      BY <1>1, <1>3, <2>1 DEF RegisteredUnits
    <3>2. CASE failing /\ job.kind = "compensated"
      <4>1. Len(toUndo') = RegisteredUnits /\ toUndo' = [i \in 1..RegisteredUnits |-> RegisteredUnits + 1 - i]
        BY <1>1, <1>13, <1>17, <3>2
      <4>2. Len(toUndo') <= RegisteredUnits'
        BY <1>12, <3>1, <4>1
      <4>3. \A u \in Units' : ~(u > Len(toUndo') /\ u <= RegisteredUnits')
        BY <1>2, <1>4, <1>12, <3>1, <4>1
      <4> QED
        BY <1>15, <4>1, <4>2, <4>3 DEF Undoing
    <3>3. CASE ~(failing /\ job.kind = "compensated")
      <4>1. Len(toUndo') = 0 /\ ~(job'.kind = "compensated" /\ Failed')
        BY <1>1, <1>11, <1>13, <3>3
      <4>2. Len(toUndo') <= RegisteredUnits'
        BY <1>12, <3>1, <4>1
      <4>3. 1..Len(toUndo') = {}
        BY <4>1
      <4> QED
        BY <1>15, <4>1, <4>2, <4>3 DEF Undoing
    <3> QED
      BY <3>2, <3>3
  <2>4. stage' = "settle" => toUndo' = <<>>
    BY <1>1, <1>17
  <2> QED
    BY <1>10, <1>14, <1>15, <1>18, <1>20, <2>1, <2>2, <2>3, <2>4 DEF PipelineInv
<1> QED
  BY <1>16, <1>17

\* One compensation is run, or passed over.
LEMMA CompensateKeeps == ASSUME PipelineInv, NEW ok \in BOOLEAN, CompensateUnit(ok) PROVE PipelineInv'
<1>1. /\ stage = "compensate" /\ stage' = stage /\ toUndo # <<>> /\ toUndo' = Tail(toUndo)
      /\ undone' = IF MustUndo(Head(toUndo)) THEN Append(undone, [unit |-> Head(toUndo), ok |-> ok]) ELSE undone
      /\ UNCHANGED <<job, future, results, current, executed, status, stored, ctxCanceled>>
  BY DEF CompensateUnit
<1>2. /\ JobTyped /\ Collected /\ Undoing /\ Failed /\ job.kind = "compensated" /\ executed = Executed /\ UndoneInOrder
      /\ Units' = Units
  BY <1>1 DEF PipelineInv, Units
<1>3. PICK m : m = Len(toUndo)
  OBVIOUS
<1>4. m \in Nat /\ m > 0 /\ Len(toUndo') = m - 1 /\ toUndo' \in Seq(Units) /\ m <= RegisteredUnits /\ RegisteredUnits \in Nat
  <2>1. RegisteredUnits \in Nat
    BY <1>2, JobFields DEF RegisteredUnits
  <2> QED
    BY <1>1, <1>2, <1>3, <2>1 DEF JobTyped, Undoing
<1>5. Head(toUndo) = m /\ m \in Units /\ \A i \in 1..(m - 1) : toUndo'[i] = m - i
  <2>1. Head(toUndo) = toUndo[1] /\ toUndo[1] \in Units /\ \A i \in 1..(m - 1) : toUndo'[i] = toUndo[i + 1] /\ i + 1 \in 1..m
    BY <1>1, <1>2, <1>3, <1>4 DEF JobTyped
  <2>2. \A i \in 1..m : toUndo[i] = m + 1 - i
    BY <1>2, <1>3 DEF Undoing
  <2>3. 1 \in 1..m /\ m + 1 - 1 = m
    BY <1>4
  <2>4. ASSUME NEW i \in 1..(m - 1) PROVE toUndo'[i] = m - i
    <3>1. toUndo'[i] = m + 1 - (i + 1)
      BY <2>1, <2>2
    <3> QED
      BY <1>4, <3>1
  <2> QED
    BY <2>1, <2>2, <2>3, <2>4
<1>6. RegisteredUnits' = RegisteredUnits /\ (Failed' <=> Failed) /\ Executed' = Executed /\ (Collected' <=> Collected)
  BY <1>1, <1>2 DEF RegisteredUnits, Failed, Executed, Collected, LeftOut
<1>7. UndoneUnits = {u \in Units : u > m /\ u <= RegisteredUnits /\ job.names[u] \in executed}
  BY <1>2, <1>3 DEF Undoing
<1>8. undone \in Seq(Undoings) /\ Len(undone) \in Nat /\ \A i \in 1..Len(undone) : undone[i] \in Undoings
  BY <1>2 DEF JobTyped
<1>9. ASSUME NEW u \in Units PROVE u \in Nat /\ (u > m - 1 <=> u > m \/ u = m)
  BY <1>2, <1>4, JobFields
<1>10. undone' \in Seq(Undoings) /\ UndoneInOrder' /\ UndoneUnits' = UndoneUnits \cup IF job.names[m] \in executed THEN {m} ELSE {}
  <2>1. CASE job.names[m] \notin executed
    BY <1>1, <1>2, <1>5, <1>8, <2>1 DEF MustUndo, UndoneInOrder, UndoneUnits
  <2>2. CASE job.names[m] \in executed
    <3>1. PICK x : x = [unit |-> m, ok |-> ok]
      OBVIOUS
    <3>2. x \in Undoings /\ x.unit = m
      BY <1>5, <3>1 DEF Undoings
    <3>3. undone' = Append(undone, x)
      BY <1>1, <1>5, <2>2, <3>1 DEF MustUndo
    <3>4. /\ undone' \in Seq(Undoings) /\ Len(undone') = Len(undone) + 1 /\ undone'[Len(undone) + 1] = x
          /\ \A i \in 1..Len(undone) : undone'[i] = undone[i]
      BY <1>8, <3>2, <3>3
    <3>5. 1..(Len(undone) + 1) = 1..Len(undone) \cup {Len(undone) + 1}
      BY <1>8
    <3>6. UndoneUnits' = UndoneUnits \cup {m}
      <4>1. ASSUME NEW u \in UndoneUnits' PROVE u \in UndoneUnits \cup {m}
        <5>1. PICK i \in 1..(Len(undone) + 1) : u = undone'[i].unit
          BY <3>4 DEF UndoneUnits
        <5> QED
          BY <3>2, <3>4, <3>5, <5>1 DEF UndoneUnits
      <4>2. ASSUME NEW u \in UndoneUnits PROVE u \in UndoneUnits'
        <5>1. PICK i \in 1..Len(undone) : u = undone[i].unit
          BY DEF UndoneUnits
        <5>2. i \in 1..Len(undone') /\ u = undone'[i].unit
          BY <3>4, <3>5, <5>1
        <5> QED
          BY <5>2 DEF UndoneUnits
      <4>3. m \in UndoneUnits'
        <5>1. Len(undone) + 1 \in 1..Len(undone') /\ m = undone'[Len(undone) + 1].unit
          BY <3>2, <3>4, <3>5
        <5> QED
          BY <5>1 DEF UndoneUnits
      <4> QED
        BY <4>1, <4>2, <4>3
    <3>7. \A i \in 1..Len(undone) : undone[i].unit > m
      BY <1>7 DEF UndoneUnits
    <3>8. UndoneInOrder'
      <4> SUFFICES ASSUME NEW i \in 1..(Len(undone) + 1), NEW j \in 1..(Len(undone) + 1), i < j
                   PROVE  undone'[i].unit > undone'[j].unit
        BY <3>4 DEF UndoneInOrder
      <4>1. i \in 1..Len(undone)
        BY <1>8
      <4>2. CASE j = Len(undone) + 1
        BY <3>2, <3>4, <3>7, <4>1, <4>2
      <4>3. CASE j \in 1..Len(undone)
        BY <1>2, <3>4, <4>1, <4>3 DEF UndoneInOrder
      <4> QED
        BY <3>5, <4>2, <4>3
    <3> QED
      BY <2>2, <3>4, <3>6, <3>8
  <2> QED
    BY <2>1, <2>2
<1>11. JobTyped'
  BY <1>1, <1>2, <1>4, <1>10 DEF JobTyped, Jobs, Kind, Futures, Stages, UnitStatus, Undoings
<1>12. Undoing'
  <2>1. UndoneUnits' = {u \in Units : u > m - 1 /\ u <= RegisteredUnits /\ job.names[u] \in executed}
    BY <1>4, <1>5, <1>7, <1>9, <1>10
  <2>2. \A i \in 1..Len(toUndo') : toUndo'[i] = Len(toUndo') + 1 - i
    BY <1>4, <1>5
  <2>3. Len(toUndo') <= RegisteredUnits'
    BY <1>4, <1>6
  <2> QED
    BY <1>1, <1>2, <1>4, <1>6, <2>1, <2>2, <2>3 DEF Undoing
<1>13. Reported' /\ \A u \in Units' : FutureSound(u)'
  <2>1. report = "none" /\ report' = "none"
    BY <1>1 DEF PipelineInv, Reported, CompensateUnit
  <2>2. \A u \in Units' : FutureSound(u)'
    BY <1>1, <1>2 DEF PipelineInv, FutureSound
  <2> QED
    BY <1>1, <2>1, <2>2 DEF Reported
<1> QED
  BY <1>1, <1>2, <1>6, <1>10, <1>11, <1>12, <1>13 DEF PipelineInv

\* Every step keeps the invariant.
LEMMA PipelineStep == ASSUME PipelineAssumption, PipelineInv, [PipelineNext]_pipelineVars PROVE PipelineInv'
<1>1. CASE NextJob
  <2>1. PipelineInit'
    BY <1>1 DEF NextJob, PipelineInit, NoJob
  <2> QED
    BY <2>1, NoJobInv, PTL
<1>2. ASSUME NEW u \in 1..MaxUnits, NEW ok \in BOOLEAN, ExecuteAgent(u, ok) \/ ExecuteTestCase(u, ok) PROVE PipelineInv'
  BY <1>2, MovingKeeps DEF ExecuteAgent, ExecuteTestCase
<1>3. CASE WorkflowStep
  BY <1>3, MovingKeeps, StartUnitsKeeps, CollectKeeps, CompensateKeeps DEF WorkflowStep
<1>4. CASE CancelJob \/ ExecutionTimeout \/ UNCHANGED pipelineVars
  BY <1>4, MovingKeeps
<1> QED
  BY <1>1, <1>2, <1>3, <1>4, StartJobKeeps DEF PipelineNext

\* The built-in workflows try to undo exactly what they know to have completed, their error
\* says whether they could, and what they report adds up.
THEOREM PipelinesAreAccounted == ASSUME PipelineAssumption PROVE PipelineSpec => []PipelinesAccounted
<1>1. PipelineInit => PipelineInv
  BY NoJobInv
<1>2. PipelineInv /\ [PipelineNext]_pipelineVars => PipelineInv'
  BY PipelineStep
<1>3. PipelineInv => PipelinesAccounted
  BY PipelineFollows
<1> QED
  BY <1>1, <1>2, <1>3, PTL DEF PipelineSpec

-----------------------------------------------------------------------------
(* Deployments in two stores *)

\* A row survives its way into a document and back: what the adapters leave out
\* of a document when they insert it reads as NULL, and an update sets it to nil.
LEMMA DeploymentConverts ==
  ASSUME NEW row \in Deployment
  PROVE  /\ Model("deployments", Inserted("deployments", row)) = row
         /\ \A doc : Model("deployments", Updated("deployments", doc, row)) = row
<1>1. row = [name |-> row.name, configId |-> row.configId, status |-> row.status]
  BY DEF Deployment
<1>2. DocumentToDeployment(InsertedDeployment(row)) = row
  BY <1>1 DEF DocumentToDeployment, InsertedDeployment, Field, Null
<1>3. ASSUME NEW doc PROVE DocumentToDeployment(UpdatedDeployment(doc, row)) = row
  BY <1>1 DEF DocumentToDeployment, UpdatedDeployment, Field, SetFields
<1> QED
  BY <1>2, <1>3 DEF Model, Inserted, Updated

LEMMA ConfigConverts ==
  ASSUME NEW row \in Config
  PROVE  /\ Model("configs", Inserted("configs", row)) = row
         /\ \A doc : Model("configs", Updated("configs", doc, row)) = row
<1>1. row = [name |-> row.name, content |-> row.content]
  BY DEF Config
<1>2. DocumentToConfig(InsertedConfig(row)) = row
  BY <1>1 DEF DocumentToConfig, InsertedConfig, Field
<1>3. ASSUME NEW doc PROVE DocumentToConfig(UpdatedConfig(doc, row)) = row
  BY <1>1 DEF DocumentToConfig, UpdatedConfig, Field, SetFields
<1> QED
  BY <1>2, <1>3 DEF Model, Inserted, Updated

LEMMA ExecutionConverts ==
  ASSUME NEW row \in Execution
  PROVE  Model("executions", Inserted("executions", row)) = row
<1>1. row = [deploymentId |-> row.deploymentId]
  BY DEF Execution
<1>2. DocumentToExecution(InsertedExecution(row)) = row
  BY <1>1 DEF DocumentToExecution, InsertedExecution, Field
<1> QED
  BY <1>2 DEF Model, Inserted

LEMMA RowsConvert ==
  ASSUME NEW t \in Table, NEW row \in Rows(t)
  PROVE  /\ Model(t, Inserted(t, row)) = row
         /\ t # "executions" => \A doc : Model(t, Updated(t, doc, row)) = row
  BY DeploymentConverts, ConfigConverts, ExecutionConverts DEF Rows, Table

\* A row stays one when a request patches it.
LEMMA PatchedIsRow ==
  ASSUME NEW t \in {"deployments", "configs"}, NEW row \in Rows(t), NEW patch \in Patches(t)
  PROVE  Patched(row, patch) \in Rows(t)
<1>1. CASE t = "deployments"
  <2>1. row \in Deployment
    BY <1>1 DEF Rows
  <2>2. Patched(row, patch) = [name |-> IF "name" \in DOMAIN patch THEN patch.name ELSE row.name,
                               configId |-> IF "configId" \in DOMAIN patch THEN patch.configId ELSE row.configId,
                               status |-> IF "status" \in DOMAIN patch THEN patch.status ELSE row.status]
    BY <2>1 DEF Patched, Deployment
  <2>3. Patched(row, patch) \in Deployment
    BY <1>1, <2>1, <2>2 DEF Patches, Deployment
  <2> QED
    BY <1>1, <2>3 DEF Rows
<1>2. CASE t = "configs"
  <2>1. row \in Config
    BY <1>2 DEF Rows
  <2>2. Patched(row, patch) = [name |-> IF "name" \in DOMAIN patch THEN patch.name ELSE row.name,
                               content |-> IF "content" \in DOMAIN patch THEN patch.content ELSE row.content]
    BY <2>1 DEF Patched, Config
  <2>3. Patched(row, patch) \in Config
    BY <1>2, <2>1, <2>2 DEF Patches, Config
  <2> QED
    BY <1>2, <2>3 DEF Rows
<1> QED
  BY <1>1, <1>2

\* Every row has the number of the request that made it, and only deployments and
\* configs are ever deleted.
StoreTyped ==
    /\ DOMAIN sql = Table /\ DOMAIN documents = Table /\ DOMAIN api = ApiHandler
    /\ requests \in 0..MaxRequests /\ refused \in BOOLEAN
    /\ \A t \in Table : DOMAIN sql[t] \subseteq 1..requests /\ DOMAIN documents[t] \subseteq 1..requests
    /\ \A t \in Table : \A i \in DOMAIN sql[t] : sql[t][i] \in Rows(t)
    /\ removed \subseteq {"deployments", "configs"} \X (1..requests)

\* A request under way has read a row, and both stores gave it the same one
\* unless they had already parted.
Reads(c, taken, parted) ==
    /\ c.kind \in {"put", "execute"} /\ c.table \in {"deployments", "configs"}
    /\ c.id \in 1..taken /\ c.number \in 1..taken
    /\ c.kind = "put" => /\ c.row \in Rows(c.table) /\ c.patch \in Patches(c.table)
                         /\ ~parted => c.model = c.row
ReadsSound == \A h \in ApiHandler : api[h] = Idle \/ Reads(api[h], requests, refused)

Agree ==
    ~refused => \A t \in Table :
        /\ \A i \in RowID : <<t, i>> \in removed => i \notin DOMAIN sql[t]
        /\ DOMAIN sql[t] = DOMAIN documents[t]
        /\ \A i \in DOMAIN sql[t] : Model(t, documents[t][i]) = sql[t][i]

StoreInv == StoreTyped /\ ReadsSound /\ Agree

LEMMA StoreStarts == ASSUME StoreAssumption, StoreInit PROVE StoreInv
<1>1. \A t \in Table : DOMAIN sql[t] = {} /\ DOMAIN documents[t] = {}
  BY DEF StoreInit, EmptyTable
<1>2. StoreTyped
  <2>1. DOMAIN sql = Table /\ DOMAIN documents = Table /\ DOMAIN api = ApiHandler
    BY DEF StoreInit
  <2>2. requests \in 0..MaxRequests /\ refused \in BOOLEAN /\ removed = {}
    <3>1. requests \in 0..MaxRequests
      BY DEF StoreAssumption, StoreInit
    <3> QED
      BY <3>1, Zenon DEF StoreInit
  <2> QED
    BY <1>1, <2>1, <2>2 DEF StoreTyped
<1>3. Agree
  BY <1>1 DEF Agree
<1> QED
  BY <1>2, <1>3 DEF StoreInit, StoreInv, ReadsSound

\* A request begins: its number is new.
LEMMA CountedOn ==
  ASSUME StoreAssumption, StoreTyped, requests < MaxRequests, requests' = requests + 1
  PROVE  requests' \in 0..MaxRequests /\ requests' \in 1..requests' /\ requests' \notin 1..requests
         /\ 1..requests \subseteq 1..requests' /\ requests' \in RowID
  BY DEF StoreAssumption, StoreTyped, RowID

LEMMA ReadsStay ==
  ASSUME ReadsSound, api' = api, 1..requests \subseteq 1..requests', refused => refused'
  PROVE  ReadsSound'
  BY DEF ReadsSound, Reads

LEMMA CreateKeeps ==
  ASSUME StoreAssumption, StoreInv, NEW h \in ApiHandler, NEW t \in {"deployments", "configs"},
         NEW row \in Rows(t), Create(h, t, row)
  PROVE  StoreInv'
<1>1. t \in Table
  BY DEF Table
<1>2. /\ requests' \in 0..MaxRequests /\ requests' \in 1..requests' /\ requests' \notin 1..requests
      /\ 1..requests \subseteq 1..requests' /\ requests' \in RowID
  BY CountedOn DEF StoreInv, Create
<1>3. refused' \in BOOLEAN /\ (refused => refused') /\ removed' = removed /\ api' = api
      /\ (~refused' => InsertAllowed(t, row))
  BY DEF StoreInv, StoreTyped, Create, Insert
<1>4. /\ DOMAIN sql' = Table /\ DOMAIN documents' = Table
      /\ \A u \in Table : u # t => sql'[u] = sql[u] /\ documents'[u] = documents[u]
      /\ documents'[t] = InsertOne(documents[t], requests', Inserted(t, row))
      /\ sql'[t] = IF InsertAllowed(t, row) THEN InsertOne(sql[t], requests', row) ELSE sql[t]
  BY <1>1 DEF StoreInv, StoreTyped, Create, Insert
<1>5. StoreTyped'
  <2> SUFFICES ASSUME NEW u \in Table
               PROVE  /\ DOMAIN sql'[u] \subseteq 1..requests' /\ DOMAIN documents'[u] \subseteq 1..requests'
                      /\ \A i \in DOMAIN sql'[u] : sql'[u][i] \in Rows(u)
    BY <1>2, <1>3, <1>4 DEF StoreInv, StoreTyped
  <2>1. /\ DOMAIN sql[u] \subseteq 1..requests' /\ DOMAIN documents[u] \subseteq 1..requests'
        /\ \A i \in DOMAIN sql[u] : sql[u][i] \in Rows(u)
    BY <1>2 DEF StoreInv, StoreTyped
  <2>2. CASE u # t
    BY <1>4, <2>1, <2>2
  <2>3. CASE u = t
    <3>1. DOMAIN documents'[u] = DOMAIN documents[u] \cup {requests'}
      BY <1>4, <2>3 DEF InsertOne
    <3>2. CASE InsertAllowed(t, row)
      <4>1. sql'[u] = InsertOne(sql[u], requests', row)
        BY <1>4, <2>3, <3>2
      <4>2. DOMAIN sql'[u] = DOMAIN sql[u] \cup {requests'} /\ sql'[u][requests'] = row
            /\ \A j \in DOMAIN sql[u] : j # requests' => sql'[u][j] = sql[u][j]
        BY <4>1 DEF InsertOne
      <4> QED
        BY <1>2, <2>1, <2>3, <3>1, <4>2
    <3>3. CASE ~InsertAllowed(t, row)
      BY <1>2, <1>4, <2>1, <2>3, <3>1, <3>3
    <3> QED
      BY <3>2, <3>3
  <2> QED
    BY <2>2, <2>3
<1>6. ReadsSound'
  BY <1>2, <1>3, ReadsStay DEF StoreInv
<1>7. Agree'
  <2> SUFFICES ASSUME ~refused', NEW u \in Table
               PROVE  /\ \A i \in RowID : <<u, i>> \in removed' => i \notin DOMAIN sql'[u]
                      /\ DOMAIN sql'[u] = DOMAIN documents'[u]
                      /\ \A i \in DOMAIN sql'[u] : Model(u, documents'[u][i]) = sql'[u][i]
    BY DEF Agree
  <2>1. /\ \A i \in RowID : <<u, i>> \in removed => i \notin DOMAIN sql[u]
        /\ DOMAIN sql[u] = DOMAIN documents[u]
        /\ \A i \in DOMAIN sql[u] : Model(u, documents[u][i]) = sql[u][i]
    BY <1>3 DEF StoreInv, Agree
  <2>2. CASE u # t
    BY <1>3, <1>4, <2>1, <2>2
  <2>3. CASE u = t
    <3>1. sql'[u] = InsertOne(sql[u], requests', row) /\ documents'[u] = InsertOne(documents[u], requests', Inserted(u, row))
      BY <1>3, <1>4, <2>3
    <3>2. Model(u, Inserted(u, row)) = row
      BY <2>3, RowsConvert
    <3>3. <<u, requests'>> \notin removed'
      BY <1>2, <1>3 DEF StoreInv, StoreTyped
    <3>4. DOMAIN sql'[u] = DOMAIN sql[u] \cup {requests'} /\ sql'[u][requests'] = row
          /\ \A j \in DOMAIN sql[u] : j # requests' => sql'[u][j] = sql[u][j]
      BY <3>1 DEF InsertOne
    <3>5. DOMAIN documents'[u] = DOMAIN documents[u] \cup {requests'} /\ documents'[u][requests'] = Inserted(u, row)
          /\ \A j \in DOMAIN documents[u] : j # requests' => documents'[u][j] = documents[u][j]
      BY <3>1 DEF InsertOne
    <3> QED
      BY <1>3, <2>1, <3>2, <3>3, <3>4, <3>5
  <2> QED
    BY <2>2, <2>3
<1> QED
  BY <1>5, <1>6, <1>7 DEF StoreInv

LEMMA DeleteKeeps ==
  ASSUME StoreAssumption, StoreInv, NEW h \in ApiHandler, NEW t \in {"deployments", "configs"},
         NEW i \in RowID, Delete(h, t, i)
  PROVE  StoreInv'
<1>1. t \in Table
  BY DEF Table
<1>2. /\ requests' \in 0..MaxRequests /\ 1..requests \subseteq 1..requests'
  BY CountedOn DEF StoreInv, Delete
<1>3. refused' \in BOOLEAN /\ (refused => refused') /\ removed' = removed \cup {<<t, i>>} /\ api' = api
      /\ (~refused' => DeleteAllowed(t, i))
  BY DEF StoreInv, StoreTyped, Delete
<1>4. /\ DOMAIN sql' = Table /\ DOMAIN documents' = Table
      /\ \A u \in Table : u # t => sql'[u] = sql[u] /\ documents'[u] = documents[u]
      /\ documents'[t] = Restrict(documents[t], DOMAIN documents[t] \ {i})
      /\ sql'[t] = IF DeleteAllowed(t, i) THEN Restrict(sql[t], DOMAIN sql[t] \ {i}) ELSE sql[t]
  BY <1>1 DEF StoreInv, StoreTyped, Delete, DeleteOne
<1>5. StoreTyped'
  <2>1. i \in 1..requests
    BY <1>1 DEF StoreInv, StoreTyped, Delete
  <2>2. ASSUME NEW u \in Table
        PROVE  /\ DOMAIN sql'[u] \subseteq 1..requests' /\ DOMAIN documents'[u] \subseteq 1..requests'
               /\ \A j \in DOMAIN sql'[u] : sql'[u][j] \in Rows(u)
    <3>1. /\ DOMAIN sql[u] \subseteq 1..requests' /\ DOMAIN documents[u] \subseteq 1..requests'
          /\ \A j \in DOMAIN sql[u] : sql[u][j] \in Rows(u)
      BY <1>2 DEF StoreInv, StoreTyped
    <3>2. CASE u # t
      BY <1>4, <3>1, <3>2
    <3>3. CASE u = t
      <4>1. DOMAIN documents'[u] = DOMAIN documents[u] \ {i}
        BY <1>4, <3>3 DEF Restrict
      <4>2. \/ sql'[u] = sql[u]
            \/ DOMAIN sql'[u] = DOMAIN sql[u] \ {i} /\ \A j \in DOMAIN sql[u] : j # i => sql'[u][j] = sql[u][j]
        BY <1>4, <3>3 DEF Restrict
      <4> QED
        BY <3>1, <4>1, <4>2
    <3> QED
      BY <3>2, <3>3
  <2> QED
    BY <1>2, <1>3, <1>4, <2>1, <2>2 DEF StoreInv, StoreTyped
<1>6. ReadsSound'
  BY <1>2, <1>3, ReadsStay DEF StoreInv
<1>7. Agree'
  <2> SUFFICES ASSUME ~refused', NEW u \in Table
               PROVE  /\ \A j \in RowID : <<u, j>> \in removed' => j \notin DOMAIN sql'[u]
                      /\ DOMAIN sql'[u] = DOMAIN documents'[u]
                      /\ \A j \in DOMAIN sql'[u] : Model(u, documents'[u][j]) = sql'[u][j]
    BY DEF Agree
  <2>1. /\ \A j \in RowID : <<u, j>> \in removed => j \notin DOMAIN sql[u]
        /\ DOMAIN sql[u] = DOMAIN documents[u]
        /\ \A j \in DOMAIN sql[u] : Model(u, documents[u][j]) = sql[u][j]
    BY <1>3 DEF StoreInv, Agree
  <2>2. CASE u # t
    BY <1>3, <1>4, <2>1, <2>2
  <2>3. CASE u = t
    <3>1. sql'[u] = Restrict(sql[u], DOMAIN sql[u] \ {i}) /\ documents'[u] = Restrict(documents[u], DOMAIN documents[u] \ {i})
      BY <1>3, <1>4, <2>3
    <3>2. DOMAIN sql'[u] = DOMAIN sql[u] \ {i} /\ \A j \in DOMAIN sql[u] : j # i => sql'[u][j] = sql[u][j]
      BY <3>1 DEF Restrict
    <3>3. DOMAIN documents'[u] = DOMAIN documents[u] \ {i} /\ \A j \in DOMAIN documents[u] : j # i => documents'[u][j] = documents[u][j]
      BY <3>1 DEF Restrict
    <3> QED
      BY <1>3, <2>1, <2>3, <3>2, <3>3
  <2> QED
    BY <2>2, <2>3
<1> QED
  BY <1>5, <1>6, <1>7 DEF StoreInv

LEMMA ReadKeeps ==
  ASSUME StoreAssumption, StoreInv, NEW h \in ApiHandler, NEW kind \in {"put", "execute"},
         NEW t \in {"deployments", "configs"}, NEW i \in RowID, NEW patch,
         kind = "put" => patch \in Patches(t), Read(h, kind, t, i, patch)
  PROVE  StoreInv'
<1>1. t \in Table
  BY DEF Table
<1>2. /\ requests' \in 0..MaxRequests /\ 1..requests \subseteq 1..requests' /\ requests' \in 1..requests'
  BY CountedOn DEF StoreInv, Read
<1>3. StoreTyped'
  BY <1>2 DEF StoreInv, StoreTyped, Read
<1>4. Agree'
  BY DEF StoreInv, Agree, Read
<1>5. ReadsSound'
  <2> DEFINE c == [kind |-> kind, table |-> t, id |-> i, patch |-> patch, number |-> requests',
                   row |-> sql[t][i], model |-> Model(t, documents[t][i])]
  <2>1. api' = [api EXCEPT ![h] = c] /\ refused' = refused /\ i \in DOMAIN sql[t]
    BY DEF Read, FindOne
  <2>2. Reads(c, requests', refused')
    <3>1. c.row \in Rows(t) /\ i \in 1..requests'
      BY <1>1, <1>2, <2>1 DEF StoreInv, StoreTyped
    <3>2. ~refused => c.model = c.row
      BY <1>1, <2>1 DEF StoreInv, Agree
    <3> QED
      BY <1>2, <2>1, <3>1, <3>2 DEF Reads
  <2>3. api'[h] = c
    BY <2>1 DEF StoreInv, StoreTyped
  <2>4. \A g \in ApiHandler : g # h => api'[g] = api[g]
    BY <2>1 DEF StoreInv, StoreTyped
  <2>5. \A g \in ApiHandler : g # h => api'[g] = Idle \/ Reads(api'[g], requests', refused')
    BY <1>2, <2>1, <2>4 DEF StoreInv, ReadsSound, Reads
  <2> QED
    BY <2>2, <2>3, <2>5 DEF ReadsSound
<1> QED
  BY <1>3, <1>4, <1>5 DEF StoreInv

\* A request that ends is idle again, and the others have what they had read.
LEMMA ReadsEnd ==
  ASSUME StoreInv, NEW h \in ApiHandler, api' = [api EXCEPT ![h] = Idle], requests' = requests, refused => refused'
  PROVE  ReadsSound' /\ DOMAIN api' = ApiHandler
<1>1. api'[h] = Idle /\ \A g \in ApiHandler : g # h => api'[g] = api[g]
  BY DEF StoreInv, StoreTyped
<1>2. \A g \in ApiHandler : g # h => api'[g] = Idle \/ Reads(api'[g], requests', refused')
  BY <1>1 DEF StoreInv, ReadsSound, Reads
<1> QED
  BY <1>1, <1>2 DEF ReadsSound, StoreInv, StoreTyped

LEMMA WriteBackKeeps ==
  ASSUME StoreAssumption, StoreInv, NEW h \in ApiHandler, WriteBack(h)
  PROVE  StoreInv'
<1> DEFINE c == api[h]
           t == api[h].table
           row == Patched(c.row, c.patch)
           model == Patched(c.model, c.patch)
           allowed == UpdateAllowed(t, c.id, row)
<1>1. c.kind = "put" /\ Reads(c, requests, refused)
  BY DEF WriteBack, StoreInv, ReadsSound, Idle
<1>2. t \in {"deployments", "configs"} /\ t \in Table /\ t # "executions" /\ row \in Rows(t)
  BY <1>1, PatchedIsRow DEF Reads, Table
<1>3. refused' \in BOOLEAN /\ (refused => refused') /\ removed' = removed /\ requests' = requests
      /\ (~refused' => allowed \/ c.id \notin DOMAIN sql[t])
  BY DEF StoreInv, StoreTyped, WriteBack
<1>4. /\ DOMAIN sql' = Table /\ DOMAIN documents' = Table
      /\ \A u \in Table : u # t => sql'[u] = sql[u] /\ documents'[u] = documents[u]
  BY <1>2 DEF StoreInv, StoreTyped, WriteBack
<1>5. /\ DOMAIN sql'[t] = DOMAIN sql[t]
      /\ \A i \in DOMAIN sql[t] : sql'[t][i] = IF i = c.id /\ allowed THEN row ELSE sql[t][i]
  BY <1>2 DEF StoreInv, StoreTyped, WriteBack, Written
<1>6. /\ DOMAIN documents'[t] = DOMAIN documents[t]
      /\ \A i \in DOMAIN documents[t] : documents'[t][i] = IF i = c.id THEN Updated(t, documents[t][c.id], model) ELSE documents[t][i]
  BY <1>2 DEF StoreInv, StoreTyped, WriteBack, UpdateOne, FindOne
<1>7. ReadsSound' /\ DOMAIN api' = ApiHandler
  BY <1>3, ReadsEnd DEF WriteBack
<1> HIDE DEF c, t, row, model, allowed
<1>8. StoreTyped'
  <2>1. ASSUME NEW u \in Table
        PROVE  /\ DOMAIN sql'[u] \subseteq 1..requests' /\ DOMAIN documents'[u] \subseteq 1..requests'
               /\ \A j \in DOMAIN sql'[u] : sql'[u][j] \in Rows(u)
    <3>1. /\ DOMAIN sql[u] \subseteq 1..requests' /\ DOMAIN documents[u] \subseteq 1..requests'
          /\ \A j \in DOMAIN sql[u] : sql[u][j] \in Rows(u)
      BY <1>3 DEF StoreInv, StoreTyped
    <3> QED
      BY <1>2, <1>4, <1>5, <1>6, <3>1
  <2> QED
    BY <1>3, <1>4, <1>7, <2>1 DEF StoreInv, StoreTyped
<1>9. Agree'
  <2> SUFFICES ASSUME ~refused', NEW u \in Table
               PROVE  /\ \A i \in RowID : <<u, i>> \in removed' => i \notin DOMAIN sql'[u]
                      /\ DOMAIN sql'[u] = DOMAIN documents'[u]
                      /\ \A i \in DOMAIN sql'[u] : Model(u, documents'[u][i]) = sql'[u][i]
    BY DEF Agree
  <2>1. /\ \A i \in RowID : <<u, i>> \in removed => i \notin DOMAIN sql[u]
        /\ DOMAIN sql[u] = DOMAIN documents[u]
        /\ \A i \in DOMAIN sql[u] : Model(u, documents[u][i]) = sql[u][i]
    BY <1>3 DEF StoreInv, Agree
  <2>2. CASE u # t
    BY <1>3, <1>4, <2>1, <2>2
  <2>3. CASE u = t
    <3>1. model = row
      BY <1>1, <1>3 DEF Reads, model, row
    <3>2. Model(t, Updated(t, documents[t][c.id], model)) = row
      BY <1>2, <3>1, RowsConvert
    <3>3. ASSUME NEW i \in DOMAIN sql'[u] PROVE Model(u, documents'[u][i]) = sql'[u][i]
      <4>1. CASE i = c.id
        BY <1>3, <1>5, <1>6, <2>1, <2>3, <3>2, <3>3, <4>1
      <4>2. CASE i # c.id
        BY <1>5, <1>6, <2>1, <2>3, <3>3, <4>2
      <4> QED
        BY <4>1, <4>2
    <3> QED
      BY <1>3, <1>5, <1>6, <2>1, <2>3, <3>3
  <2> QED
    BY <2>2, <2>3
<1> QED
  BY <1>7, <1>8, <1>9 DEF StoreInv

LEMMA ExecutionKeeps ==
  ASSUME StoreAssumption, StoreInv, NEW h \in ApiHandler, ExecuteDeployment(h)
  PROVE  StoreInv'
<1> DEFINE n == api[h].number
           row == [deploymentId |-> api[h].id]
           t == "executions"
<1>1. Reads(api[h], requests, refused)
  BY DEF ExecuteDeployment, StoreInv, ReadsSound, Idle
<1>2. n \in 1..requests /\ row \in Rows(t)
  BY <1>1 DEF Reads, Rows, Execution, StoreInv, StoreTyped, StoreAssumption, RowID
<1>3. refused' \in BOOLEAN /\ (refused => refused') /\ removed' = removed /\ requests' = requests
      /\ (~refused' => InsertAllowed(t, row))
  BY DEF StoreInv, StoreTyped, ExecuteDeployment
<1>4. /\ DOMAIN sql' = Table /\ DOMAIN documents' = Table
      /\ \A u \in Table : u # t => sql'[u] = sql[u] /\ documents'[u] = documents[u]
      /\ documents'[t] = InsertOne(documents[t], n, Inserted(t, row))
      /\ sql'[t] = IF InsertAllowed(t, row) THEN InsertOne(sql[t], n, row) ELSE sql[t]
  BY DEF StoreInv, StoreTyped, ExecuteDeployment, Table
<1>5. ReadsSound' /\ DOMAIN api' = ApiHandler
  BY <1>3, ReadsEnd DEF ExecuteDeployment
<1>6. /\ DOMAIN documents'[t] = DOMAIN documents[t] \cup {n} /\ documents'[t][n] = Inserted(t, row)
      /\ \A j \in DOMAIN documents[t] : j # n => documents'[t][j] = documents[t][j]
  BY <1>4 DEF InsertOne
<1>7. \/ sql'[t] = sql[t] /\ refused'
      \/ /\ DOMAIN sql'[t] = DOMAIN sql[t] \cup {n} /\ sql'[t][n] = row
         /\ \A j \in DOMAIN sql[t] : j # n => sql'[t][j] = sql[t][j]
  BY <1>3, <1>4 DEF InsertOne
<1> HIDE DEF n, row
<1>8. StoreTyped'
  <2>1. ASSUME NEW u \in Table
        PROVE  /\ DOMAIN sql'[u] \subseteq 1..requests' /\ DOMAIN documents'[u] \subseteq 1..requests'
               /\ \A j \in DOMAIN sql'[u] : sql'[u][j] \in Rows(u)
    <3>1. /\ DOMAIN sql[u] \subseteq 1..requests' /\ DOMAIN documents[u] \subseteq 1..requests'
          /\ \A j \in DOMAIN sql[u] : sql[u][j] \in Rows(u)
      BY <1>3 DEF StoreInv, StoreTyped
    <3> QED
      BY <1>2, <1>3, <1>4, <1>6, <1>7, <3>1
  <2> QED
    BY <1>3, <1>4, <1>5, <2>1 DEF StoreInv, StoreTyped
<1>9. Agree'
  <2> SUFFICES ASSUME ~refused', NEW u \in Table
               PROVE  /\ \A i \in RowID : <<u, i>> \in removed' => i \notin DOMAIN sql'[u]
                      /\ DOMAIN sql'[u] = DOMAIN documents'[u]
                      /\ \A i \in DOMAIN sql'[u] : Model(u, documents'[u][i]) = sql'[u][i]
    BY DEF Agree
  <2>1. /\ \A i \in RowID : <<u, i>> \in removed => i \notin DOMAIN sql[u]
        /\ DOMAIN sql[u] = DOMAIN documents[u]
        /\ \A i \in DOMAIN sql[u] : Model(u, documents[u][i]) = sql[u][i]
    BY <1>3 DEF StoreInv, Agree
  <2>2. CASE u # t
    BY <1>3, <1>4, <2>1, <2>2
  <2>3. CASE u = t
    <3>1. Model(t, Inserted(t, row)) = row
      BY <1>2, RowsConvert DEF Table
    <3>2. \A i \in RowID : <<u, i>> \notin removed'
      BY <1>3, <2>3 DEF StoreInv, StoreTyped
    <3> QED
      BY <1>3, <1>6, <1>7, <2>1, <2>3, <3>1, <3>2
  <2> QED
    BY <2>2, <2>3
<1> QED
  BY <1>5, <1>8, <1>9 DEF StoreInv

LEMMA StoreStep == ASSUME StoreAssumption, StoreInv, [StoreNext]_storeVars PROVE StoreInv'
<1>1. CASE UNCHANGED storeVars
  BY <1>1 DEF storeVars, StoreInv, StoreTyped, ReadsSound, Agree
<1>2. ASSUME NEW h \in ApiHandler, NEW n \in Name, NEW c \in DOMAIN sql.configs \union {Null}, PostDeployment(h, n, c)
      PROVE  StoreInv'
  <2>1. DOMAIN sql["configs"] \subseteq RowID
    BY DEF StoreInv, StoreTyped, RowID, Table, StoreAssumption
  <2>2. NewDeployment(n, c) \in Rows("deployments")
    BY <2>1 DEF NewDeployment, Rows, Deployment
  <2> QED
    BY <1>2, <2>2, CreateKeeps DEF PostDeployment
<1>3. ASSUME NEW h \in ApiHandler, NEW n \in Name, PostConfig(h, n)
      PROVE  StoreInv'
  <2>1. [name |-> n, content |-> n] \in Rows("configs")
    BY DEF Rows, Config
  <2> QED
    BY <1>3, <2>1, CreateKeeps DEF PostConfig
<1>4. ASSUME NEW h \in ApiHandler, NEW i \in RowID, RemoveDeployment(h, i) \/ RemoveConfig(h, i)
      PROVE  StoreInv'
  BY <1>4, DeleteKeeps DEF RemoveDeployment, RemoveConfig
<1>5. ASSUME NEW h \in ApiHandler, NEW i \in RowID, NEW p \in Patches("deployments"), PutDeployment(h, i, p)
      PROVE  StoreInv'
  BY <1>5, ReadKeeps DEF PutDeployment
<1>6. ASSUME NEW h \in ApiHandler, NEW i \in RowID, NEW p \in Patches("configs"), PutConfig(h, i, p)
      PROVE  StoreInv'
  BY <1>6, ReadKeeps DEF PutConfig
<1>7. ASSUME NEW h \in ApiHandler, NEW i \in RowID, BeginExecution(h, i)
      PROVE  StoreInv'
  BY <1>7, ReadKeeps DEF BeginExecution
<1>8. ASSUME NEW h \in ApiHandler, WriteBack(h) \/ ExecuteDeployment(h)
      PROVE  StoreInv'
  BY <1>8, WriteBackKeeps, ExecutionKeeps
<1> QED
  BY <1>1, <1>2, <1>3, <1>4, <1>5, <1>6, <1>7, <1>8 DEF StoreNext

\* What the invariant says of the two stores.
LEMMA StoreInvAgrees == ASSUME StoreAssumption, StoreInv PROVE StoresAgree
<1>1. StoreTypeOK
  BY DEF StoreAssumption, StoreInv, StoreTyped, StoreTypeOK, RowID, Table
<1>2. ASSUME NEW t \in Table, NEW i \in RowID, <<t, i>> \in removed /\ ~refused PROVE i \notin DOMAIN sql[t]
  BY <1>2 DEF StoreInv, Agree
<1> QED
  BY <1>1, <1>2 DEF StoresAgree, StoreInv, Agree

\* For any handlers, names, statuses and number of requests: a deleted row does not come back
\* with the second half of an update that began before, and as long as no constraint of the SQL
\* schema has refused a write both stores hold the same rows (internal/database/repository and
\* internal/database/mongodb/adapters under internal/api/handlers).
THEOREM StoresStayEqual == ASSUME StoreAssumption PROVE StoreSpec => []StoresAgree
<1>1. StoreInit => StoreInv
  BY StoreStarts
<1>2. StoreInv /\ [StoreNext]_storeVars => StoreInv'
  BY StoreStep
<1>3. StoreInv => StoresAgree
  BY StoreInvAgrees
<1> QED
  BY <1>1, <1>2, <1>3, PTL DEF StoreSpec

-----------------------------------------------------------------------------
(* Pages of a table *)

\* The order asked for, as numbers: a row comes before another one when its number is less.
Rank(by, desc) == [i \in PageID |-> IF desc THEN -ValueOf(by, i) ELSE ValueOf(by, i)]

\* A list of rows, each one before the next.
Sorted(f, s) == \A j, k \in 1..Len(s) : j < k => f[s[j]] < f[s[k]]

LEMMA RankOrders ==
  ASSUME PageAssumption, NEW by \in {"id", "key"}, NEW desc \in BOOLEAN
  PROVE  /\ Rank(by, desc) \in [PageID -> Int]
         /\ \A i, j \in PageID : Precedes(by, desc, i, j) <=> Rank(by, desc)[i] < Rank(by, desc)[j]
         /\ NoTies(by) => \A i, j \in PageID : i # j => Rank(by, desc)[i] # Rank(by, desc)[j]
<1>1. \A i \in PageID : ValueOf(by, i) \in Int
  BY DEF ValueOf, PageAssumption
<1>2. \A i \in PageID : Rank(by, desc)[i] = IF desc THEN -ValueOf(by, i) ELSE ValueOf(by, i)
  BY DEF Rank
<1>3. Rank(by, desc) \in [PageID -> Int]
  BY <1>1 DEF Rank
<1> QED
  BY <1>1, <1>2, <1>3 DEF Precedes, NoTies

\* A list that the database returns has every row once, in the order asked for.
LEMMA ListOf ==
  ASSUME PageAssumption, NEW by \in {"id", "key"}, NEW desc \in BOOLEAN, NEW S \in SUBSET PageID,
         NEW list \in Orderings(S, by, desc)
  PROVE  /\ list \in Seq(PageID)
         /\ \A k \in 1..Len(list) : list[k] \in S
         /\ \A x \in S : \E k \in 1..Len(list) : list[k] = x
         /\ NoTies(by) => Sorted(Rank(by, desc), list)
<1> DEFINE n == Cardinality(S)
<1>1. IsFiniteSet(S) /\ n \in Nat
  BY FS_Subset, FS_CardinalityType DEF PageAssumption
<1>2. list \in [1..n -> S] /\ \A i, j \in 1..n : i # j => list[i] # list[j]
  BY DEF Orderings, SetToSeqs
<1>3. list \in Seq(PageID) /\ Len(list) = n /\ \A k \in 1..n : list[k] \in S
  BY <1>1, <1>2
<1>4. list \in Surjection(1..n, S)
  <2>1. list \in Injection(1..n, S)
    BY <1>2 DEF Injection, IsInjective
  <2>2. Cardinality(1..n) = n
    BY <1>1, FS_Interval
  <2> QED
    BY <1>1, <2>1, <2>2, FS_Injection
<1>5. \A x \in S : \E k \in 1..n : list[k] = x
  BY <1>4 DEF Surjection
<1>6. ASSUME NoTies(by) PROVE Sorted(Rank(by, desc), list)
  <2>1. ASSUME NEW j \in 1..n, NEW k \in 1..n, j < k PROVE Rank(by, desc)[list[j]] < Rank(by, desc)[list[k]]
    <3>1. list[j] \in PageID /\ list[k] \in PageID /\ list[j] # list[k]
      BY <1>2, <1>3, <2>1
    <3>2. ValueOf(by, list[j]) \in Int /\ ValueOf(by, list[k]) \in Int
      BY <3>1 DEF ValueOf, PageAssumption
    <3>3. IF desc THEN ValueOf(by, list[j]) >= ValueOf(by, list[k]) ELSE ValueOf(by, list[j]) <= ValueOf(by, list[k])
      BY <1>3, <2>1 DEF Orderings
    <3>4. ValueOf(by, list[j]) # ValueOf(by, list[k])
      BY <1>6, <3>1 DEF NoTies
    <3> QED
      BY <3>1, <3>2, <3>3, <3>4 DEF Rank
  <2> QED
    BY <1>3, <2>1 DEF Sorted
<1> QED
  BY <1>3, <1>5, <1>6

\* The first rows of a set have one list only: a sorted list of rows that nothing else of the set
\* comes before is how every sorted list of the set begins.
LEMMA SortedPrefix ==
  ASSUME NEW f \in [PageID -> Int], NEW s \in Seq(PageID), NEW t \in Seq(PageID), Sorted(f, s), Sorted(f, t),
         \A k \in 1..Len(t) : \E m \in 1..Len(s) : s[m] = t[k],
         \A m \in 1..Len(s) : (\E k \in 1..Len(t) : t[k] = s[m]) \/ (\A k \in 1..Len(t) : f[t[k]] < f[s[m]])
  PROVE  \A k \in 1..Len(t) : k <= Len(s) /\ s[k] = t[k]
<1> DEFINE Bad == {k \in 1..Len(t) : ~(k <= Len(s) /\ s[k] = t[k])}
<1> SUFFICES ASSUME Bad # {} PROVE FALSE
  OBVIOUS
<1>1. Bad \in SUBSET Nat
  OBVIOUS
<1>2. PICK k \in Bad : \A w \in Bad : k <= w
  <2> HIDE DEF Bad
  <2> QED
    BY <1>1, LeastExists
<1>3. k \in 1..Len(t) /\ ~(k <= Len(s) /\ s[k] = t[k])
  OBVIOUS
<1>4. \A q \in 1..(k - 1) : q \in 1..Len(t) /\ q <= Len(s) /\ s[q] = t[q]
  BY <1>2, <1>3
<1> HIDE DEF Bad
<1>5. PICK m \in 1..Len(s) : s[m] = t[k]
  BY <1>3
<1>6. \A q \in 1..Len(t) : t[q] \in PageID /\ f[t[q]] \in Int
  OBVIOUS
<1>7. ~(m < k)
  <2> SUFFICES ASSUME m < k PROVE FALSE
    OBVIOUS
  <2>1. m \in 1..Len(t) /\ s[m] = t[m] /\ f[t[m]] < f[t[k]]
    BY <1>3, <1>4 DEF Sorted
  <2> QED
    BY <1>3, <1>5, <1>6, <2>1
<1>8. k < m /\ k \in 1..Len(s)
  BY <1>3, <1>5, <1>7
<1>9. f[s[k]] < f[t[k]]
  BY <1>5, <1>8 DEF Sorted
<1>10. CASE \A q \in 1..Len(t) : f[t[q]] < f[s[k]]
  <2>1. f[t[k]] < f[s[k]]
    BY <1>3, <1>10
  <2>2. f[t[k]] \in Int /\ s[k] \in PageID /\ f[s[k]] \in Int
    BY <1>3, <1>6, <1>8
  <2> QED
    BY <1>9, <2>1, <2>2
<1>11. CASE \E q \in 1..Len(t) : t[q] = s[k]
  <2>1. PICK q \in 1..Len(t) : t[q] = s[k]
    BY <1>11
  <2>2. CASE q < k
    <3>1. q \in 1..(k - 1) /\ q \in 1..Len(s)
      BY <1>3, <1>4, <2>2
    <3>2. s[q] = t[q] /\ f[s[q]] < f[s[k]]
      BY <1>4, <1>8, <2>2, <3>1 DEF Sorted
    <3> QED
      BY <1>6, <2>1, <3>2
  <2>3. CASE q = k
    BY <1>3, <1>8, <2>1, <2>3
  <2>4. CASE k < q
    <3>1. f[t[k]] < f[t[q]]
      BY <1>3, <2>4 DEF Sorted
    <3>2. f[t[q]] < f[t[k]]
      BY <1>9, <2>1
    <3>3. f[t[k]] \in Int /\ f[t[q]] \in Int
      BY <1>3, <1>6
    <3> QED
      BY <3>1, <3>2, <3>3
  <2> QED
    BY <1>3, <2>2, <2>3, <2>4
<1> QED
  BY <1>8, <1>10, <1>11

\* Without ties the list of a set is one and the same.
LEMMA OneList ==
  ASSUME PageAssumption, NEW by \in {"id", "key"}, NEW desc \in BOOLEAN, NoTies(by), NEW S \in SUBSET PageID,
         NEW s \in Orderings(S, by, desc), NEW t \in Orderings(S, by, desc)
  PROVE  s = t
<1> DEFINE f == Rank(by, desc)
<1>1. f \in [PageID -> Int]
  BY RankOrders
<1>2. /\ s \in Seq(PageID) /\ \A k \in 1..Len(s) : s[k] \in S
      /\ \A x \in S : \E k \in 1..Len(s) : s[k] = x
      /\ Sorted(f, s)
  BY ListOf
<1>3. /\ t \in Seq(PageID) /\ \A k \in 1..Len(t) : t[k] \in S
      /\ \A x \in S : \E k \in 1..Len(t) : t[k] = x
      /\ Sorted(f, t)
  BY ListOf
<1> HIDE DEF f
<1>4. \A k \in 1..Len(t) : k <= Len(s) /\ s[k] = t[k]
  <2>1. \A k \in 1..Len(t) : \E m \in 1..Len(s) : s[m] = t[k]
    BY <1>2, <1>3
  <2>2. \A m \in 1..Len(s) : \E k \in 1..Len(t) : t[k] = s[m]
    BY <1>2, <1>3
  <2> QED
    BY <1>1, <1>2, <1>3, <2>1, <2>2, SortedPrefix
<1>5. Len(s) = Cardinality(S) /\ Len(t) = Cardinality(S)
  <2>1. Cardinality(S) \in Nat
    BY FS_Subset, FS_CardinalityType DEF PageAssumption
  <2> QED
    BY <2>1 DEF Orderings, SetToSeqs
<1> QED
  BY <1>2, <1>3, <1>4, <1>5, SeqEqual

LEMMA PageOf ==
  ASSUME NEW list \in Seq(PageID), NEW limit \in Nat \ {0}
  PROVE  /\ Page(list, limit) \in Seq(PageID)
         /\ Len(Page(list, limit)) = IF Len(list) > limit THEN limit ELSE Len(list)
         /\ \A k \in 1..Len(Page(list, limit)) : k \in 1..Len(list) /\ Page(list, limit)[k] = list[k]
<1> DEFINE n == IF Len(list) > limit THEN limit ELSE Len(list)
<1>1. n \in 0..Len(list) /\ Page(list, limit) = SubSeq(list, 1, n)
  BY DEF Page
<1>2. /\ SubSeq(list, 1, n) \in Seq(PageID)
      /\ Len(SubSeq(list, 1, n)) = n
      /\ \A k \in 1..n : SubSeq(list, 1, n)[k] = list[k]
  <2> HIDE DEF n
  <2> QED
    BY <1>1
<1> QED
  BY <1>1, <1>2

\* One more page, whose rows come after all that was seen.
LEMMA PageAppended ==
  ASSUME NEW by \in {"id", "key"}, NEW desc \in BOOLEAN,
         NEW pages \in Seq(Seq(PageID)), NEW P \in Seq(PageID)
  PROVE  /\ Append(pages, P) \in Seq(Seq(PageID)) /\ Len(Append(pages, P)) = Len(pages) + 1 /\ Len(pages) \in Nat
         /\ Append(pages, P) # <<>> /\ Append(pages, P)[Len(pages) + 1] = P /\ Last(Append(pages, P)) = P
         /\ \A n \in 1..Len(pages) : Append(pages, P)[n] = pages[n]
         /\ Seen(Append(pages, P)) = Seen(pages) \union ToSet(P)
         /\ /\ PagesInOrder(by, desc, pages)
            /\ \A j, k \in 1..Len(P) : j < k => Precedes(by, desc, P[j], P[k])
            /\ \A i \in Seen(pages), j \in ToSet(P) : Precedes(by, desc, i, j)
            => PagesInOrder(by, desc, Append(pages, P))
<1> DEFINE pp == Append(pages, P)
<1>1. /\ pp \in Seq(Seq(PageID)) /\ Len(pp) = Len(pages) + 1 /\ DOMAIN pp = 1..(Len(pages) + 1)
      /\ pp[Len(pages) + 1] = P /\ \A n \in 1..Len(pages) : pp[n] = pages[n]
      /\ DOMAIN pages = 1..Len(pages) /\ DOMAIN P = 1..Len(P) /\ Len(pages) \in Nat
  OBVIOUS
<1> HIDE DEF pp
<1>2. \A n \in DOMAIN pp : n \in DOMAIN pages \/ n = Len(pages) + 1
  BY <1>1
<1>3. Seen(pp) = Seen(pages) \union ToSet(P)
  <2>1. ASSUME NEW x \in Seen(pp) PROVE x \in Seen(pages) \union ToSet(P)
    <3>1. PICK n \in DOMAIN pp : x \in ToSet(pp[n])
      BY DEF Seen
    <3> QED
      BY <1>1, <1>2, <3>1 DEF Seen
  <2>2. ASSUME NEW x \in Seen(pages) PROVE x \in Seen(pp)
    <3>1. PICK n \in DOMAIN pages : x \in ToSet(pages[n])
      BY DEF Seen
    <3>2. n \in DOMAIN pp /\ pp[n] = pages[n]
      BY <1>1
    <3> QED
      BY <3>1, <3>2 DEF Seen
  <2>3. ASSUME NEW x \in ToSet(P) PROVE x \in Seen(pp)
    <3>1. Len(pages) + 1 \in DOMAIN pp
      BY <1>1
    <3> QED
      BY <1>1, <3>1 DEF Seen
  <2> QED
    BY <2>1, <2>2, <2>3
<1>4. ASSUME PagesInOrder(by, desc, pages),
             \A j, k \in 1..Len(P) : j < k => Precedes(by, desc, P[j], P[k]),
             \A i \in Seen(pages), j \in ToSet(P) : Precedes(by, desc, i, j)
      PROVE  PagesInOrder(by, desc, pp)
  <2>1. ASSUME NEW n \in DOMAIN pp
        PROVE  /\ \A j, k \in DOMAIN pp[n] : j < k => Precedes(by, desc, pp[n][j], pp[n][k])
               /\ \A m \in 1..(n - 1) : \A i \in ToSet(pp[m]), j \in ToSet(pp[n]) : Precedes(by, desc, i, j)
    <3>1. CASE n \in DOMAIN pages
      <4>1. pp[n] = pages[n] /\ \A m \in 1..(n - 1) : m \in DOMAIN pages /\ pp[m] = pages[m]
        BY <1>1, <3>1
      <4> QED
        BY <1>4, <3>1, <4>1 DEF PagesInOrder
    <3>2. CASE n = Len(pages) + 1
      <4>1. pp[n] = P /\ \A m \in 1..(n - 1) : m \in DOMAIN pages /\ pp[m] = pages[m]
        BY <1>1, <3>2
      <4>2. \A m \in 1..(n - 1) : \A i \in ToSet(pp[m]) : i \in Seen(pages)
        BY <4>1 DEF Seen
      <4> QED
        BY <1>1, <1>4, <4>1, <4>2
    <3> QED
      BY <1>2, <2>1, <3>1, <3>2
  <2> QED
    BY <2>1 DEF PagesInOrder
<1>5. Last(pp) = P /\ pp # <<>>
  BY <1>1 DEF Last
<1> QED
  BY <1>1, <1>3, <1>4, <1>5 DEF pp

\* No row that was seen comes after the last one.
LEMMA LastIsGreatest ==
  ASSUME NEW by \in {"id", "key"}, NEW desc \in BOOLEAN, NEW pages \in Seq(Seq(PageID)), pages # <<>>,
         Last(pages) # <<>>, PagesInOrder(by, desc, pages)
  PROVE  /\ Last(Last(pages)) \in PageID
         /\ \A i \in Seen(pages) : i \in PageID /\ (i = Last(Last(pages)) \/ Precedes(by, desc, i, Last(Last(pages))))
<1> DEFINE n == Len(pages)
           p == pages[n]
<1>1. n \in Nat \ {0} /\ n \in DOMAIN pages /\ DOMAIN pages = 1..n /\ Last(pages) = p /\ p \in Seq(PageID)
  BY DEF Last
<1> HIDE DEF n, p
<1>2. Len(p) \in Nat \ {0} /\ DOMAIN p = 1..Len(p) /\ Len(p) \in DOMAIN p /\ Last(p) = p[Len(p)] /\ p[Len(p)] \in PageID
  BY <1>1 DEF Last
<1>3. p[Len(p)] \in ToSet(p)
  BY <1>2 DEF ToSet
<1>4. ASSUME NEW i \in Seen(pages) PROVE i \in PageID /\ (i = p[Len(p)] \/ Precedes(by, desc, i, p[Len(p)]))
  <2>1. PICK m \in DOMAIN pages : i \in ToSet(pages[m])
    BY DEF Seen
  <2>2. pages[m] \in Seq(PageID)
    BY <2>1
  <2>3. i \in PageID
    BY <2>1, <2>2 DEF ToSet
  <2>4. CASE m = n
    <3>1. PICK k \in DOMAIN p : i = p[k]
      BY <1>1, <2>1, <2>4 DEF ToSet, p
    <3>2. k = Len(p) \/ k < Len(p)
      BY <1>2, <3>1
    <3>3. k < Len(p) => Precedes(by, desc, p[k], p[Len(p)])
      BY <1>1, <1>2, <3>1 DEF PagesInOrder, p
    <3> QED
      BY <2>3, <3>1, <3>2, <3>3
  <2>5. CASE m # n
    <3>1. m \in 1..(n - 1)
      BY <1>1, <2>1, <2>5
    <3> QED
      BY <1>1, <1>3, <2>1, <2>3, <3>1 DEF PagesInOrder, p
  <2> QED
    BY <2>4, <2>5
<1> QED
  BY <1>1, <1>2, <1>4

-----------------------------------------------------------------------------
\* Walks

\* Rows of a table that a walk is about.
Admitted(plan, inTable) == {i \in inTable : Admits(plan.where, i)}

\* A walk by cursor: every page but the last is full, what the client has not seen of the steady
\* rows comes after the last row it saw, and when nothing was written it has seen only those.
CursorSound(w, inTable, st) ==
    /\ PagesInOrder(w.plan.by, w.plan.desc, w.pages)
    /\ \A n \in 1..Len(w.pages) : n < Len(w.pages) \/ w.more => Len(w.pages[n]) = w.limit
    /\ \A i \in Admitted(w.plan, st) : i \in Seen(w.pages) \/
          (w.more /\ (w.pages # <<>> => Precedes(w.plan.by, w.plan.desc, Last(Last(w.pages)), i)))
    /\ w.quiet => st = inTable /\ Seen(w.pages) \subseteq Admitted(w.plan, inTable)
    /\ w.at = "back" /\ w.quiet /\ w.plan.store = "mongo" => w.back = w.pages[Len(w.pages) - 1]

\* A walk by offset: what the client has seen are the first rows of the list, full page by full page.
OffsetSound(w, inTable) ==
    /\ PagesInOrder(w.plan.by, w.plan.desc, w.pages)
    /\ \A list \in Orderings(Admitted(w.plan, inTable), w.plan.by, w.plan.desc) :
          Seen(w.pages) = {list[p] : p \in {q \in 1..Len(list) : q <= Len(w.pages) * w.limit}}
    /\ ~w.more => Admitted(w.plan, inTable) \subseteq Seen(w.pages)

WalkSound(w, inTable, st) ==
    /\ w.plan.style = "cursor" /\ FollowsOrder(w.plan) => CursorSound(w, inTable, st)
    /\ w.plan.style = "offset" => w.at = "walk"
    /\ w.plan.style = "offset" /\ w.quiet /\ NoTies(w.plan.by) => OffsetSound(w, inTable)

PageInv == PageTypeOK /\ (walk # NoWalk => WalkSound(walk, tableRows, steady))

LEMMA WalkFields ==
  ASSUME NEW w \in Walk
  PROVE  /\ w # NoWalk /\ w.at \in {"walk", "back"} /\ w.plan \in Plan /\ w.limit \in Nat \ {0} /\ w.pages \in Seq(Seq(PageID))
         /\ w.more \in BOOLEAN /\ w.quiet \in BOOLEAN /\ w.back \in Seq(PageID)
         /\ w.plan.by \in {"id", "key"} /\ w.plan.desc \in BOOLEAN /\ w.plan.store \in {"sql", "mongo"}
         /\ w.plan.style \in {"offset", "cursor"}
BY DEF Walk, Plan, NoWalk

\* The invariant is all that the property asks for.
LEMMA PageInvStrong == ASSUME PageInv PROVE PagesComplete
<1> SUFFICES ASSUME walk # NoWalk PROVE PagesComplete
  BY DEF PageInv, PagesComplete
<1>1. walk \in Walk /\ steady \subseteq tableRows /\ WalkSound(walk, tableRows, steady)
  BY DEF PageInv, PageTypeOK
<1>2. walk.plan.style = "cursor" \/ walk.plan.style = "offset"
  BY <1>1, WalkFields
<1>3. Admitted(walk.plan, steady) = {i \in steady : Admits(walk.plan.where, i)}
  BY DEF Admitted
<1>4. CASE walk.plan.style = "cursor"
  BY <1>1, <1>3, <1>4 DEF PageInv, PagesComplete, WalkSound, CursorSound
<1>5. CASE walk.plan.style = "offset"
  <2>1. Admitted(walk.plan, steady) \subseteq Admitted(walk.plan, tableRows)
    BY <1>1 DEF Admitted
  <2> QED
    BY <1>1, <1>3, <1>5, <2>1 DEF PageInv, PagesComplete, WalkSound, OffsetSound
<1> QED
  BY <1>2, <1>4, <1>5

\* What a page behind the last one is cut from.
LEMMA BehindLast ==
  ASSUME PageAssumption, PageTypeOK, walk \in Walk, walk.plan.style = "cursor", FollowsOrder(walk.plan),
         walk.pages # <<>> => Last(Last(walk.pages)) \in PageID
  PROVE  \A i \in PageID : i \in Candidates(walk.plan, CursorOfLast, FALSE) <=>
            /\ i \in Admitted(walk.plan, tableRows)
            /\ walk.pages # <<>> => Precedes(walk.plan.by, walk.plan.desc, Last(Last(walk.pages)), i)
<1>1. walk.plan \in Plan
  BY WalkFields
<1>2. CASE walk.pages = <<>>
  BY <1>2 DEF CursorOfLast, Candidates, Admitted, PageTypeOK
<1>3. CASE walk.pages # <<>>
  <2> DEFINE last == Last(Last(walk.pages))
             cursor == BuildCursor(walk.plan, last)
  <2>1. CursorOfLast = cursor /\ last \in PageID
    BY <1>3 DEF CursorOfLast
  <2> HIDE DEF last
  <2>2. cursor # NoWalk /\ cursor.id = last /\ cursor.value = ValueOf(walk.plan.by, last)
    BY DEF BuildCursor, NoWalk
  <2> HIDE DEF cursor
  <2> SUFFICES ASSUME NEW i \in PageID
               PROVE  i \in Candidates(walk.plan, cursor, FALSE) <=>
                         i \in Admitted(walk.plan, tableRows) /\ Precedes(walk.plan.by, walk.plan.desc, last, i)
    BY <1>3, <2>1 DEF last
  <2>3. CASE walk.plan.store = "sql"
    <3>1. walk.plan.where # "or" /\ walk.plan.where # "groups" /\ walk.plan.desc \in BOOLEAN
      BY <1>1, <2>3 DEF FollowsOrder, Plan
    <3>2. AppendCondition(walk.plan, cursor, i, FALSE) <=>
             Admits(walk.plan.where, i) /\ BuildCursorCondition(walk.plan, cursor, i, FALSE)
      BY <3>1 DEF AppendCondition
    <3>3. ValueOf(walk.plan.by, last) \in Int /\ ValueOf(walk.plan.by, i) \in Int
      BY <2>1 DEF ValueOf, PageAssumption
    <3>4. BuildCursorCondition(walk.plan, cursor, i, FALSE) <=> Precedes(walk.plan.by, walk.plan.desc, last, i)
      BY <2>2, <3>1, <3>3 DEF BuildCursorCondition, Precedes
    <3> QED
      BY <2>2, <2>3, <3>2, <3>4 DEF Candidates, Admitted
  <2>4. CASE walk.plan.store = "mongo"
    <3>1. walk.plan.by = "id" /\ ~walk.plan.desc
      BY <2>4 DEF FollowsOrder
    <3>2. last \in Int /\ i \in Int
      BY <2>1 DEF PageAssumption
    <3>3. MongoCursorCondition(cursor, i, FALSE) <=> Precedes(walk.plan.by, walk.plan.desc, last, i)
      BY <2>2, <3>1, <3>2 DEF MongoCursorCondition, Precedes, ValueOf
    <3> QED
      BY <2>2, <2>4, <3>3 DEF Candidates, Admitted
  <2> QED
    BY <1>1, <2>3, <2>4 DEF Plan
<1> QED
  BY <1>2, <1>3

\* The next page by cursor.
LEMMA NextByCursorKeeps ==
  ASSUME PageAssumption, PageTypeOK, walk \in Walk, walk.plan.style = "cursor", FollowsOrder(walk.plan),
         CursorSound(walk, tableRows, steady), walk.pages # <<>> => Last(walk.pages) # <<>>,
         NEW list \in Orderings(Candidates(walk.plan, CursorOfLast, FALSE), walk.plan.by, walk.plan.desc),
         NextByCursor(list)
  PROVE  CursorSound(walk', tableRows', steady')
<1> DEFINE by == walk.plan.by
           desc == walk.plan.desc
           pages == walk.pages
           P == Page(list, walk.limit)
           pp == Append(pages, P)
           last == Last(Last(pages))
           X == Candidates(walk.plan, CursorOfLast, FALSE)
           f == Rank(by, desc)
<1>1. /\ by \in {"id", "key"} /\ desc \in BOOLEAN /\ pages \in Seq(Seq(PageID)) /\ walk.limit \in Nat \ {0}
      /\ walk.more /\ walk.at = "walk"
  BY WalkFields DEF NextByCursor
<1>2. /\ walk'.plan = walk.plan /\ walk'.pages = pp /\ walk'.limit = walk.limit /\ walk'.at = "walk" /\ walk'.quiet = walk.quiet
      /\ walk'.more = (Len(list) > walk.limit) /\ tableRows' = tableRows /\ steady' = steady
  BY <1>1 DEF NextByCursor, Walk
<1>3. NoTies(by)
  BY DEF FollowsOrder
<1>4. X \in SUBSET PageID
  BY DEF Candidates, PageTypeOK
<1>5. /\ list \in Seq(PageID) /\ \A k \in 1..Len(list) : list[k] \in X
      /\ \A x \in X : \E k \in 1..Len(list) : list[k] = x
      /\ Sorted(f, list)
  <2> HIDE DEF X
  <2>1. list \in Orderings(X, by, desc)
    BY DEF X
  <2> QED
    BY <1>1, <1>3, <1>4, <2>1, ListOf
<1>6. /\ P \in Seq(PageID) /\ Len(P) = (IF Len(list) > walk.limit THEN walk.limit ELSE Len(list))
      /\ \A k \in 1..Len(P) : k \in 1..Len(list) /\ P[k] = list[k]
  BY <1>1, <1>5, PageOf
<1>7. f \in [PageID -> Int] /\ \A i, j \in PageID : Precedes(by, desc, i, j) <=> f[i] < f[j]
  BY <1>1, RankOrders
<1>8. PagesInOrder(by, desc, pages)
  BY DEF CursorSound
<1>9. pages # <<>> =>
         last \in PageID /\ \A i \in Seen(pages) : i \in PageID /\ (i = last \/ Precedes(by, desc, i, last))
  BY <1>1, <1>8, LastIsGreatest
<1>10. \A i \in PageID : i \in X <=>
          /\ i \in Admitted(walk.plan, tableRows)
          /\ pages # <<>> => Precedes(by, desc, last, i)
  BY <1>9, BehindLast
<1> HIDE DEF X, P, f, last, pages, by, desc
<1>11. \A x \in ToSet(P) : x \in X
  BY <1>5, <1>6 DEF ToSet
<1>12. \A j, k \in 1..Len(P) : j < k => Precedes(by, desc, P[j], P[k])
  <2> SUFFICES ASSUME NEW j \in 1..Len(P), NEW k \in 1..Len(P), j < k PROVE Precedes(by, desc, P[j], P[k])
    OBVIOUS
  <2>1. j \in 1..Len(list) /\ k \in 1..Len(list) /\ P[j] = list[j] /\ P[k] = list[k] /\ P[j] \in PageID /\ P[k] \in PageID
    BY <1>6
  <2>2. f[list[j]] < f[list[k]]
    BY <1>5, <2>1 DEF Sorted
  <2> QED
    BY <1>7, <2>1, <2>2
<1>13. \A i \in Seen(pages), j \in ToSet(P) : Precedes(by, desc, i, j)
  <2> SUFFICES ASSUME NEW i \in Seen(pages), NEW j \in ToSet(P) PROVE Precedes(by, desc, i, j)
    OBVIOUS
  <2>1. pages # <<>>
    <3>1. PICK n \in DOMAIN pages : i \in ToSet(pages[n])
      BY DEF Seen
    <3> QED
      BY <3>1
  <2>2. j \in X /\ j \in PageID
    BY <1>4, <1>11
  <2>3. Precedes(by, desc, last, j) /\ last \in PageID /\ i \in PageID /\ (i = last \/ Precedes(by, desc, i, last))
    BY <1>9, <1>10, <2>1, <2>2
  <2>4. f[i] \in Int /\ f[j] \in Int /\ f[last] \in Int
    BY <1>7, <2>2, <2>3
  <2> QED
    BY <1>7, <2>2, <2>3, <2>4
<1>14. /\ Len(pp) = Len(pages) + 1 /\ Last(pp) = P /\ \A n \in 1..Len(pages) : pp[n] = pages[n]
       /\ Seen(pp) = Seen(pages) \union ToSet(P) /\ PagesInOrder(by, desc, pp) /\ pp # <<>>
       /\ pp[Len(pages) + 1] = P /\ Len(pages) \in Nat
  BY <1>1, <1>6, <1>8, <1>12, <1>13, PageAppended
<1> HIDE DEF pp
<1>15. ASSUME NEW n \in 1..Len(pp), n < Len(pp) \/ Len(list) > walk.limit PROVE Len(pp[n]) = walk.limit
  <2>1. CASE n = Len(pages) + 1
    BY <1>6, <1>14, <1>15, <2>1
  <2>2. CASE n \in 1..Len(pages)
    BY <1>1, <1>14, <2>2 DEF CursorSound, pages
  <2> QED
    BY <1>14, <2>1, <2>2
<1>16. ASSUME NEW i \in Admitted(walk.plan, steady)
       PROVE  i \in Seen(pp) \/ (Len(list) > walk.limit /\ Precedes(by, desc, Last(Last(pp)), i))
  <2>1. i \in Seen(pages) \/ (pages # <<>> => Precedes(by, desc, last, i))
    BY <1>1 DEF CursorSound, by, desc, pages, last
  <2>2. CASE i \in Seen(pages)
    BY <1>14, <2>2
  <2>3. CASE pages # <<>> => Precedes(by, desc, last, i)
    <3>1. i \in PageID /\ i \in Admitted(walk.plan, tableRows)
      BY DEF Admitted, PageTypeOK
    <3>2. PICK k \in 1..Len(list) : list[k] = i
      BY <1>5, <1>10, <2>3, <3>1
    <3>3. CASE k \in 1..Len(P)
      <4>1. i \in ToSet(P)
        BY <1>6, <3>2, <3>3 DEF ToSet
      <4> QED
        BY <1>14, <4>1
    <3>4. CASE k \notin 1..Len(P)
      <4>1. Len(list) > walk.limit /\ Len(P) = walk.limit /\ walk.limit < k /\ walk.limit \in 1..Len(list)
        BY <1>1, <1>5, <1>6, <3>2, <3>4
      <4>2. Last(P) = list[walk.limit]
        BY <1>1, <1>6, <4>1 DEF Last
      <4>3. f[list[walk.limit]] < f[i] /\ list[walk.limit] \in PageID
        BY <1>5, <3>2, <4>1 DEF Sorted
      <4>4. Precedes(by, desc, Last(P), i)
        BY <1>7, <3>1, <4>2, <4>3
      <4> QED
        BY <1>14, <4>1, <4>4
    <3> QED
      BY <3>3, <3>4
  <2> QED
    BY <2>1, <2>2, <2>3
<1>17. walk.quiet => steady = tableRows /\ Seen(pp) \subseteq Admitted(walk.plan, tableRows)
  <2>1. walk.quiet => steady = tableRows /\ Seen(pages) \subseteq Admitted(walk.plan, tableRows)
    BY DEF CursorSound, pages
  <2>2. ToSet(P) \subseteq Admitted(walk.plan, tableRows)
    BY <1>4, <1>10, <1>11
  <2> QED
    BY <1>14, <2>1, <2>2
<1> QED
  BY <1>1, <1>2, <1>14, <1>15, <1>16, <1>17 DEF CursorSound, by, desc

\* The page before the last one, in the document store.
LEMMA BackByCursorKeeps ==
  ASSUME PageAssumption, PageTypeOK, walk \in Walk, walk.plan.style = "cursor", FollowsOrder(walk.plan),
         CursorSound(walk, tableRows, steady), Last(walk.pages) # <<>>,
         NEW list \in Orderings(Candidates(walk.plan, BuildCursor(walk.plan, Head(Last(walk.pages))), TRUE), walk.plan.by,
                                IF walk.plan.store = "mongo" THEN ~walk.plan.desc ELSE walk.plan.desc),
         BackByCursor(list)
  PROVE  CursorSound(walk', tableRows', steady')
<1> DEFINE pages == walk.pages
           n == Len(pages)
           Q == pages[n - 1]
           first == Head(Last(pages))
           cursor == BuildCursor(walk.plan, first)
           X == Candidates(walk.plan, cursor, TRUE)
           f == Rank("id", TRUE)
           limit == walk.limit
<1>1. /\ pages \in Seq(Seq(PageID)) /\ limit \in Nat \ {0} /\ walk.at = "walk" /\ n \in Nat /\ n > 1
      /\ DOMAIN pages = 1..n
  BY WalkFields DEF BackByCursor
<1>2. /\ walk'.plan = walk.plan /\ walk'.pages = pages /\ walk'.limit = limit /\ walk'.quiet = walk.quiet
      /\ walk'.more = walk.more /\ tableRows' = tableRows /\ steady' = steady
      /\ walk.plan.store = "mongo" => walk'.back = Reverse(Page(list, limit))
  BY <1>1 DEF BackByCursor, Walk
<1> SUFFICES ASSUME walk.quiet, walk.plan.store = "mongo" PROVE Reverse(Page(list, limit)) = Q
  BY <1>2 DEF CursorSound
<1>3. walk.plan.by = "id" /\ walk.plan.desc = FALSE /\ NoTies("id")
  BY WalkFields DEF FollowsOrder
<1>4. PagesInOrder("id", FALSE, pages)
  BY <1>3 DEF CursorSound
<1>5. /\ n \in DOMAIN pages /\ n - 1 \in DOMAIN pages /\ n - 1 \in 1..(n - 1) /\ Last(pages) = pages[n]
      /\ pages[n] \in Seq(PageID) /\ Q \in Seq(PageID) /\ pages[n] # <<>>
  BY <1>1 DEF Last
<1>6. /\ first = pages[n][1] /\ 1 \in DOMAIN pages[n] /\ first \in PageID /\ first \in ToSet(pages[n])
  <2> DEFINE p == pages[n]
  <2>1. p \in Seq(PageID) /\ p # <<>> /\ first = Head(p)
    BY <1>5
  <2> HIDE DEF p, first
  <2>2. first = p[1] /\ 1 \in DOMAIN p /\ first \in PageID
    BY <2>1
  <2> QED
    BY <2>2 DEF ToSet, p
<1>7. PageID \subseteq Int /\ \A i, j \in PageID : Precedes("id", FALSE, i, j) <=> i < j
  BY DEF PageAssumption, Precedes, ValueOf
<1>8. f \in [PageID -> Int] /\ \A i \in PageID : f[i] = -i
  BY <1>7 DEF Rank, ValueOf
<1>9. X \in SUBSET PageID /\ \A i \in X : i \in Admitted(walk.plan, tableRows) /\ i < first
  <2>1. cursor # NoWalk /\ cursor.id = first
    BY DEF BuildCursor, NoWalk
  <2> HIDE DEF cursor
  <2> QED
    BY <2>1 DEF Candidates, MongoCursorCondition, Admitted, PageTypeOK
<1>10. \A i \in Admitted(walk.plan, tableRows) : i < first => i \in X
  <2>1. cursor # NoWalk /\ cursor.id = first
    BY DEF BuildCursor, NoWalk
  <2> HIDE DEF cursor
  <2> QED
    BY <2>1 DEF Candidates, MongoCursorCondition, Admitted
<1>11. /\ list \in Seq(PageID) /\ \A k \in 1..Len(list) : list[k] \in X
       /\ \A x \in X : \E k \in 1..Len(list) : list[k] = x
       /\ Sorted(f, list)
  <2>1. list \in Orderings(X, "id", TRUE)
    BY <1>3
  <2> HIDE DEF X
  <2> QED
    BY <1>3, <1>9, <2>1, ListOf
<1>12. steady = tableRows /\ Seen(pages) \subseteq Admitted(walk.plan, tableRows)
  BY DEF CursorSound
<1>13. Len(Q) = limit
  <2>1. \A m \in 1..n : m < n => Len(pages[m]) = limit
    BY DEF CursorSound
  <2> HIDE DEF pages, n, limit
  <2> QED
    BY <1>1, <1>5, <2>1
<1> HIDE DEF X, f, first, cursor
\* Everything before the first row of the last page was seen before that page.
<1>14. ASSUME NEW x \in X PROVE (\E k \in 1..Len(Q) : Q[k] = x) \/ (\A k \in 1..Len(Q) : x < Q[k])
  <2>1. x \in Admitted(walk.plan, steady) /\ x < first /\ x \in PageID
    BY <1>9, <1>12
  <2>2. first \in Seen(pages)
    BY <1>5, <1>6 DEF Seen
  <2>3. x \in Seen(pages)
    <3>1. Last(pages) # <<>> /\ pages # <<>>
      BY <1>1
    <3>2. Last(Last(pages)) \in PageID /\ (first = Last(Last(pages)) \/ Precedes("id", FALSE, first, Last(Last(pages))))
      BY <1>1, <1>4, <2>2, <3>1, LastIsGreatest
    <3>3. ~Precedes("id", FALSE, Last(Last(pages)), x)
      <4>1. Last(Last(pages)) \in Int /\ first \in Int /\ x \in Int
        BY <1>6, <1>7, <2>1, <3>2
      <4>2. first = Last(Last(pages)) \/ first < Last(Last(pages))
        BY <1>6, <1>7, <3>2
      <4>3. ~(Last(Last(pages)) < x)
        BY <2>1, <4>1, <4>2
      <4> QED
        BY <1>7, <2>1, <3>2, <4>3
    <3> QED
      BY <1>3, <2>1, <3>1, <3>3 DEF CursorSound
  <2>4. PICK m \in DOMAIN pages : x \in ToSet(pages[m])
    BY <2>3 DEF Seen
  <2>5. m # n
    <3> SUFFICES ASSUME m = n PROVE FALSE
      OBVIOUS
    <3>1. PICK k \in DOMAIN pages[n] : pages[n][k] = x
      BY <2>4 DEF ToSet
    <3>2. k \in 1..Len(pages[n])
      BY <1>5, <3>1
    <3>3. k > 1 => Precedes("id", FALSE, pages[n][1], pages[n][k])
      BY <1>4, <1>5, <1>6, <3>1, <3>2 DEF PagesInOrder
    <3>4. first = x \/ Precedes("id", FALSE, first, x)
      <4>1. k = 1 \/ k > 1
        BY <3>2
      <4>2. CASE k = 1
        BY <1>6, <3>1, <4>2
      <4>3. CASE k > 1
        BY <1>6, <3>1, <3>3, <4>3
      <4> QED
        BY <4>1, <4>2, <4>3
    <3>5. first = x \/ first < x
      BY <1>6, <1>7, <2>1, <3>4
    <3> QED
      BY <1>6, <1>7, <2>1, <3>5
  <2>6. CASE m = n - 1
    <3>1. PICK k \in DOMAIN Q : Q[k] = x
      BY <2>4, <2>6 DEF ToSet
    <3> QED
      BY <1>5, <3>1
  <2>7. CASE m < n - 1
    <3> SUFFICES ASSUME NEW k \in 1..Len(Q) PROVE x < Q[k]
      OBVIOUS
    <3>1. Q[k] \in ToSet(Q) /\ Q[k] \in PageID
      BY <1>5 DEF ToSet
    <3>2. m \in 1..((n - 1) - 1)
      BY <1>1, <2>4, <2>7
    <3>3. Precedes("id", FALSE, x, Q[k])
      BY <1>4, <1>5, <2>4, <3>1, <3>2 DEF PagesInOrder
    <3> QED
      BY <1>7, <2>1, <3>1, <3>3
  <2> QED
    BY <1>1, <2>4, <2>5, <2>6, <2>7
<1>15. \A k \in 1..Len(Q) : Q[k] \in X
  <2> SUFFICES ASSUME NEW k \in 1..Len(Q) PROVE Q[k] \in X
    OBVIOUS
  <2>1. Q[k] \in ToSet(Q) /\ Q[k] \in PageID
    BY <1>5 DEF ToSet
  <2>2. Q[k] \in Seen(pages)
    BY <1>5, <2>1 DEF Seen
  <2>3. Precedes("id", FALSE, Q[k], first)
    BY <1>4, <1>5, <1>6, <2>1 DEF PagesInOrder
  <2> QED
    BY <1>6, <1>7, <1>10, <1>12, <2>1, <2>2, <2>3
<1>16. \A j, k \in 1..Len(Q) : j < k => Q[j] < Q[k]
  <2> SUFFICES ASSUME NEW j \in 1..Len(Q), NEW k \in 1..Len(Q), j < k PROVE Q[j] < Q[k]
    OBVIOUS
  <2>1. Q[j] \in PageID /\ Q[k] \in PageID /\ j \in DOMAIN Q /\ k \in DOMAIN Q
    BY <1>5
  <2>2. Precedes("id", FALSE, Q[j], Q[k])
    BY <1>4, <1>5, <2>1 DEF PagesInOrder
  <2> QED
    BY <1>7, <2>1, <2>2
<1> DEFINE t == [k \in 1..limit |-> Q[limit - k + 1]]
<1> HIDE DEF Q, n, pages, limit
<1>17. t \in Seq(PageID) /\ Len(t) = limit /\ \A k \in 1..limit : t[k] = Q[limit - k + 1] /\ limit - k + 1 \in 1..limit
  <2>1. \A k \in 1..limit : limit - k + 1 \in 1..Len(Q) /\ Q[limit - k + 1] \in PageID
    BY <1>1, <1>5, <1>13
  <2>2. t \in [1..limit -> PageID]
    BY <2>1
  <2> QED
    BY <1>1, <1>13, <2>1, <2>2
<1> HIDE DEF t
<1>18. \A k \in 1..limit : t[limit - k + 1] = Q[k] /\ limit - k + 1 \in 1..limit
  BY <1>1, <1>17
<1>19. Sorted(f, t)
  <2> SUFFICES ASSUME NEW j \in 1..limit, NEW k \in 1..limit, j < k PROVE f[t[j]] < f[t[k]]
    BY <1>17 DEF Sorted
  <2>1. t[j] \in PageID /\ t[k] \in PageID /\ t[k] < t[j]
    BY <1>1, <1>5, <1>13, <1>16, <1>17
  <2> QED
    BY <1>7, <1>8, <2>1
<1>20. \A k \in 1..Len(t) : \E m \in 1..Len(list) : list[m] = t[k]
  BY <1>11, <1>13, <1>15, <1>17
<1>21. \A m \in 1..Len(list) : (\E k \in 1..Len(t) : t[k] = list[m]) \/ (\A k \in 1..Len(t) : f[t[k]] < f[list[m]])
  <2> SUFFICES ASSUME NEW m \in 1..Len(list)
               PROVE  (\E k \in 1..Len(t) : t[k] = list[m]) \/ (\A k \in 1..Len(t) : f[t[k]] < f[list[m]])
    OBVIOUS
  <2>1. list[m] \in X /\ list[m] \in PageID
    BY <1>9, <1>11
  <2>2. CASE \E k \in 1..Len(Q) : Q[k] = list[m]
    <3>1. PICK k \in 1..limit : Q[k] = list[m]
      BY <1>13, <2>2
    <3>2. t[limit - k + 1] = list[m] /\ limit - k + 1 \in 1..Len(t)
      BY <1>17, <1>18, <3>1
    <3> QED
      BY <3>2
  <2>3. CASE \A k \in 1..Len(Q) : list[m] < Q[k]
    <3>1. \A k \in 1..limit : t[k] \in PageID /\ list[m] < t[k]
      BY <1>13, <1>17, <2>3
    <3>2. ASSUME NEW k \in 1..limit PROVE f[t[k]] < f[list[m]]
      <4>1. t[k] \in Int /\ list[m] \in Int /\ f[t[k]] = -t[k] /\ f[list[m]] = -list[m] /\ list[m] < t[k]
        BY <1>7, <1>8, <2>1, <3>1
      <4> QED
        BY <4>1
    <3> QED
      BY <1>17, <3>2
  <2> QED
    BY <1>14, <2>1, <2>2, <2>3
<1>22. \A k \in 1..Len(t) : k <= Len(list) /\ list[k] = t[k]
  BY <1>8, <1>11, <1>17, <1>19, <1>20, <1>21, SortedPrefix
<1> DEFINE P == Page(list, limit)
<1>23. P \in Seq(PageID) /\ Len(P) = limit /\ \A k \in 1..limit : P[k] = t[k]
  <2>1. limit <= Len(list)
    <3>1. limit \in 1..Len(t)
      BY <1>1, <1>17
    <3> QED
      BY <1>22, <3>1
  <2>2. /\ P \in Seq(PageID) /\ Len(P) = (IF Len(list) > limit THEN limit ELSE Len(list))
        /\ \A k \in 1..Len(P) : P[k] = list[k]
    BY <1>1, <1>11, PageOf
  <2>3. Len(P) = limit
    BY <1>1, <1>11, <2>1, <2>2
  <2> QED
    BY <1>17, <1>22, <2>2, <2>3
<1> HIDE DEF P
<1>24. Reverse(P) = [k \in 1..limit |-> P[(limit - k) + 1]]
  BY <1>23 DEF Reverse
<1>25. \A k \in 1..limit : P[(limit - k) + 1] = Q[k]
  BY <1>1, <1>18, <1>23
<1>26. Q \in [1..limit -> PageID]
  BY <1>5, <1>13
<1> QED
  BY <1>24, <1>25, <1>26 DEF P

\* The next page by offset.
LEMMA NextByOffsetKeeps ==
  ASSUME PageAssumption, PageTypeOK, walk \in Walk, walk.plan.style = "offset", NoTies(walk.plan.by),
         OffsetSound(walk, tableRows),
         NEW list \in Orderings(Candidates(walk.plan, NoWalk, FALSE), walk.plan.by, walk.plan.desc),
         NextByOffset(list)
  PROVE  OffsetSound(walk', tableRows')
<1> DEFINE by == walk.plan.by
           desc == walk.plan.desc
           pages == walk.pages
           limit == walk.limit
           seen == Len(pages) * limit
           rest == SubSeq(list, seen + 1, Len(list))
           P == Page(rest, limit)
           pp == Append(pages, P)
           C == Admitted(walk.plan, tableRows)
           f == Rank(by, desc)
<1>1. /\ by \in {"id", "key"} /\ desc \in BOOLEAN /\ pages \in Seq(Seq(PageID)) /\ limit \in Nat \ {0} /\ Len(pages) \in Nat
  BY WalkFields
<1>2. /\ walk'.plan = walk.plan /\ walk'.pages = pp /\ walk'.limit = limit
      /\ walk'.more = (Len(rest) > limit) /\ tableRows' = tableRows
  BY DEF NextByOffset, Walk
<1>3. C \in SUBSET PageID /\ Candidates(walk.plan, NoWalk, FALSE) = C
  BY DEF Candidates, Admitted, PageTypeOK
<1>4. list \in Orderings(C, by, desc)
  BY <1>3
<1>5. /\ PagesInOrder(by, desc, pages)
      /\ Seen(pages) = {list[p] : p \in {q \in 1..Len(list) : q <= seen}}
  BY <1>4 DEF OffsetSound
<1>6. seen \in Nat /\ (Len(pages) + 1) * limit = seen + limit
  <2>1. \A a, b \in Nat : a * b \in Nat /\ (a + 1) * b = a * b + b
    OBVIOUS
  <2> QED
    BY <1>1, <2>1
<1> HIDE DEF C, by, desc, pages, limit, seen
<1>7. /\ list \in Seq(PageID) /\ \A k \in 1..Len(list) : list[k] \in C
      /\ \A x \in C : \E k \in 1..Len(list) : list[k] = x
      /\ Sorted(f, list)
  BY <1>1, <1>3, <1>4, ListOf DEF by
<1>8. f \in [PageID -> Int] /\ \A i, j \in PageID : Precedes(by, desc, i, j) <=> f[i] < f[j]
  BY <1>1, RankOrders
<1> HIDE DEF f
<1>9. /\ rest \in Seq(PageID)
      /\ Len(rest) = IF seen < Len(list) THEN Len(list) - seen ELSE 0
      /\ \A k \in 1..Len(rest) : seen + k \in 1..Len(list) /\ rest[k] = list[seen + k]
  BY <1>6, <1>7
<1> HIDE DEF rest
<1>10. /\ P \in Seq(PageID) /\ Len(P) = (IF Len(rest) > limit THEN limit ELSE Len(rest))
       /\ \A k \in 1..Len(P) : k \in 1..Len(rest) /\ P[k] = rest[k]
  BY <1>1, <1>9, PageOf
<1> HIDE DEF P
<1>11. \A k \in 1..Len(P) : seen + k \in 1..Len(list) /\ P[k] = list[seen + k] /\ seen + k <= seen + limit
  <2> SUFFICES ASSUME NEW k \in 1..Len(P)
               PROVE  seen + k \in 1..Len(list) /\ P[k] = list[seen + k] /\ seen + k <= seen + limit
    OBVIOUS
  <2>1. k \in 1..Len(rest) /\ P[k] = rest[k]
    BY <1>10
  <2>2. seen + k \in 1..Len(list) /\ rest[k] = list[seen + k]
    BY <1>9, <2>1
  <2>3. k \in Nat /\ k <= limit
    <3>1. Len(P) <= limit /\ Len(P) \in Nat
      BY <1>1, <1>9, <1>10
    <3> QED
      BY <1>1, <3>1
  <2> QED
    BY <1>1, <1>6, <2>1, <2>2, <2>3
<1>12. \A j, k \in 1..Len(P) : j < k => Precedes(by, desc, P[j], P[k])
  <2> SUFFICES ASSUME NEW j \in 1..Len(P), NEW k \in 1..Len(P), j < k PROVE Precedes(by, desc, P[j], P[k])
    OBVIOUS
  <2>1. /\ seen + j \in 1..Len(list) /\ seen + k \in 1..Len(list) /\ seen + j < seen + k
        /\ P[j] = list[seen + j] /\ P[k] = list[seen + k] /\ P[j] \in PageID /\ P[k] \in PageID
    BY <1>6, <1>10, <1>11
  <2>2. f[list[seen + j]] < f[list[seen + k]]
    BY <1>7, <2>1 DEF Sorted
  <2> QED
    BY <1>8, <2>1, <2>2
<1>13. \A i \in Seen(pages), j \in ToSet(P) : Precedes(by, desc, i, j)
  <2> SUFFICES ASSUME NEW i \in Seen(pages), NEW j \in ToSet(P) PROVE Precedes(by, desc, i, j)
    OBVIOUS
  <2>1. PICK p \in 1..Len(list) : p <= seen /\ i = list[p]
    BY <1>5
  <2>2. PICK k \in 1..Len(P) : j = P[k]
    BY <1>10 DEF ToSet
  <2>3. seen + k \in 1..Len(list) /\ p < seen + k /\ j = list[seen + k]
    BY <1>6, <1>11, <2>1, <2>2
  <2>4. f[list[p]] < f[list[seen + k]]
    BY <1>7, <2>1, <2>3 DEF Sorted
  <2>5. i \in PageID /\ j \in PageID
    BY <1>7, <2>1, <2>3
  <2> QED
    BY <1>8, <2>1, <2>3, <2>4, <2>5
<1>14. /\ Len(pp) = Len(pages) + 1 /\ Seen(pp) = Seen(pages) \union ToSet(P) /\ PagesInOrder(by, desc, pp)
  BY <1>1, <1>5, <1>10, <1>12, <1>13, PageAppended
<1> HIDE DEF pp
<1>15. Seen(pp) = {list[p] : p \in {q \in 1..Len(list) : q <= seen + limit}}
  <2>1. ASSUME NEW x \in Seen(pp) PROVE x \in {list[p] : p \in {q \in 1..Len(list) : q <= seen + limit}}
    <3>1. CASE x \in Seen(pages)
      <4>1. PICK p \in 1..Len(list) : p <= seen /\ x = list[p]
        BY <1>5, <3>1
      <4>2. p <= seen + limit
        BY <1>1, <1>6, <4>1
      <4> QED
        BY <4>1, <4>2
    <3>2. CASE x \in ToSet(P)
      <4>1. PICK k \in 1..Len(P) : x = P[k]
        BY <1>10, <3>2 DEF ToSet
      <4> QED
        BY <1>11, <4>1
    <3> QED
      BY <1>14, <3>1, <3>2
  <2>2. ASSUME NEW p \in 1..Len(list), p <= seen + limit PROVE list[p] \in Seen(pp)
    <3>1. CASE p <= seen
      BY <1>5, <1>14, <3>1
    <3>2. CASE p > seen
      <4>1. p - seen \in 1..Len(P) /\ seen + (p - seen) = p
        BY <1>1, <1>6, <1>7, <1>9, <1>10, <2>2, <3>2
      <4>2. list[p] \in ToSet(P)
        BY <1>10, <1>11, <4>1 DEF ToSet
      <4> QED
        BY <1>14, <4>2
    <3> QED
      BY <1>6, <3>1, <3>2
  <2> QED
    BY <2>1, <2>2
<1>16. ASSUME NEW L \in Orderings(C, by, desc) PROVE L = list
  BY <1>1, <1>3, <1>4, OneList DEF by
<1>17. ASSUME ~(Len(rest) > limit) PROVE C \subseteq Seen(pp)
  <2> SUFFICES ASSUME NEW x \in C PROVE x \in Seen(pp)
    OBVIOUS
  <2>1. PICK p \in 1..Len(list) : list[p] = x
    BY <1>7
  <2>2. p <= seen + limit
    BY <1>1, <1>6, <1>7, <1>9, <1>17, <2>1
  <2> QED
    BY <1>15, <2>1, <2>2
<1> QED
  <2>1. \A L \in Orderings(C, by, desc) :
           Seen(pp) = {L[p] : p \in {q \in 1..Len(L) : q <= Len(pp) * limit}}
    <3> SUFFICES ASSUME NEW L \in Orderings(C, by, desc)
                 PROVE  Seen(pp) = {L[p] : p \in {q \in 1..Len(L) : q <= Len(pp) * limit}}
      OBVIOUS
    <3>1. L = list /\ Len(pp) * limit = seen + limit
      BY <1>6, <1>14, <1>16
    <3> QED
      BY <1>15, <3>1
  <2> QED
    BY <1>2, <1>14, <1>17, <2>1 DEF OffsetSound, C, by, desc

LEMMA StartWalkKeeps ==
  ASSUME PageAssumption, PageInv, NEW plan \in Plan, NEW limit \in Limits, StartWalk(plan, limit)
  PROVE  PageInv'
<1> DEFINE w == [at |-> "walk", plan |-> plan, limit |-> Validated(limit), pages |-> <<>>, more |-> TRUE, quiet |-> TRUE, back |-> <<>>]
<1>1. walk' = w /\ steady' = tableRows /\ tableRows' = tableRows /\ tableWrites' = tableWrites
  BY DEF StartWalk
<1>2. w \in Walk
  <2>1. Validated(limit) \in Nat \ {0}
    BY DEF Validated, PageAssumption
  <2> QED
    BY <2>1 DEF Walk
<1>3. PageTypeOK'
  BY <1>1, <1>2 DEF PageTypeOK, PageInv
<1>4. w.at = "walk" /\ w.pages = <<>> /\ w.more = TRUE /\ w.plan = plan /\ w.limit \in Nat
  BY <1>2, WalkFields
<1> HIDE DEF w
<1>5. Seen(w.pages) = {} /\ Len(w.pages) = 0 /\ DOMAIN w.pages = {}
  BY <1>4 DEF Seen
<1>6. PagesInOrder(w.plan.by, w.plan.desc, w.pages)
  BY <1>5 DEF PagesInOrder
<1>7. CursorSound(w, tableRows, tableRows)
  BY <1>4, <1>5, <1>6 DEF CursorSound
<1>8. OffsetSound(w, tableRows)
  <2>1. ASSUME NEW list \in Orderings(Admitted(w.plan, tableRows), w.plan.by, w.plan.desc)
        PROVE  {list[p] : p \in {q \in 1..Len(list) : q <= Len(w.pages) * w.limit}} = {}
    <3>1. Len(w.pages) * w.limit = 0
      BY <1>4, <1>5
    <3> QED
      BY <3>1
  <2> QED
    BY <1>4, <1>5, <1>6, <2>1 DEF OffsetSound
<1> QED
  BY <1>1, <1>3, <1>4, <1>7, <1>8 DEF PageInv, WalkSound

\* A write to the table: the walk is not quiet from then on.
LEMMA TableWriteKeeps ==
  ASSUME PageAssumption, PageInv, NEW i \in PageID, InsertRow(i) \/ DeleteRow(i)
  PROVE  PageInv'
<1>1. tableWrites' \in 0..MaxTableWrites
  BY DEF InsertRow, DeleteRow, PageInv, PageTypeOK, PageAssumption
<1>2. tableRows' \subseteq PageID /\ steady' \subseteq tableRows' /\ steady' \subseteq steady
  BY DEF InsertRow, DeleteRow, PageInv, PageTypeOK
<1>3. CASE walk = NoWalk
  BY <1>1, <1>2, <1>3 DEF InsertRow, DeleteRow, PageInv, PageTypeOK
<1>4. CASE walk # NoWalk
  <2>1. walk \in Walk /\ WalkSound(walk, tableRows, steady)
    BY <1>4 DEF PageInv, PageTypeOK
  <2>2. walk' = [walk EXCEPT !.quiet = FALSE]
    BY <1>4 DEF InsertRow, DeleteRow
  <2>3. /\ walk' \in Walk /\ walk'.quiet = FALSE /\ walk'.at = walk.at /\ walk'.plan = walk.plan /\ walk'.limit = walk.limit
        /\ walk'.pages = walk.pages /\ walk'.more = walk.more
    BY <2>1, <2>2 DEF Walk
  <2>4. PageTypeOK'
    BY <1>1, <1>2, <2>3 DEF PageTypeOK
  <2>5. Admitted(walk.plan, steady') \subseteq Admitted(walk.plan, steady)
    BY <1>2 DEF Admitted
  <2>6. CursorSound(walk, tableRows, steady) => CursorSound(walk', tableRows', steady')
    BY <2>3, <2>5 DEF CursorSound
  <2> QED
    BY <2>1, <2>3, <2>4, <2>6 DEF PageInv, WalkSound
<1> QED
  BY <1>3, <1>4

\* A page that is fetched leaves the table alone.
LEMMA FetchTyped ==
  ASSUME PageAssumption, PageTypeOK, walk \in Walk, NEW S \in SUBSET PageID, NEW desc \in BOOLEAN,
         NEW list \in Orderings(S, walk.plan.by, desc),
         NextByOffset(list) \/ NextByCursor(list) \/ BackByCursor(list)
  PROVE  /\ PageTypeOK' /\ walk' \in Walk /\ walk'.plan = walk.plan /\ walk'.quiet = walk.quiet
         /\ NextByOffset(list) => walk'.at = "walk"
<1>1. walk.plan.by \in {"id", "key"} /\ walk.limit \in Nat \ {0} /\ walk.pages \in Seq(Seq(PageID)) /\ Len(walk.pages) \in Nat
  BY WalkFields
<1>2. list \in Seq(PageID)
  BY <1>1, ListOf
<1>3. tableRows' = tableRows /\ steady' = steady /\ tableWrites' = tableWrites
  BY DEF NextByOffset, NextByCursor, BackByCursor
<1>4. CASE NextByOffset(list)
  <2> DEFINE rest == SubSeq(list, Len(walk.pages) * walk.limit + 1, Len(list))
             P == Page(rest, walk.limit)
  <2>1. rest \in Seq(PageID)
    <3>1. Len(walk.pages) * walk.limit \in Nat
      BY <1>1
    <3> QED
      BY <1>2, <3>1
  <2>2. walk' = [walk EXCEPT !.pages = Append(walk.pages, P), !.more = Len(rest) > walk.limit] /\ walk.at = "walk"
    BY <1>4 DEF NextByOffset
  <2> HIDE DEF rest
  <2>3. P \in Seq(PageID) /\ (Len(rest) > walk.limit) \in BOOLEAN
    BY <1>1, <2>1, PageOf
  <2> HIDE DEF P
  <2>4. Append(walk.pages, P) \in Seq(Seq(PageID))
    BY <1>1, <2>3
  <2>5. walk' \in Walk /\ walk'.plan = walk.plan /\ walk'.quiet = walk.quiet /\ walk'.at = "walk"
    BY <2>2, <2>3, <2>4 DEF Walk
  <2> QED
    BY <1>3, <2>5 DEF PageTypeOK
<1>5. CASE NextByCursor(list)
  <2> DEFINE P == Page(list, walk.limit)
  <2>1. walk' = [walk EXCEPT !.pages = Append(walk.pages, P), !.more = Len(list) > walk.limit] /\ walk.at = "walk"
    BY <1>5 DEF NextByCursor
  <2>2. P \in Seq(PageID) /\ (Len(list) > walk.limit) \in BOOLEAN
    BY <1>1, <1>2, PageOf
  <2> HIDE DEF P
  <2>3. Append(walk.pages, P) \in Seq(Seq(PageID))
    BY <1>1, <2>2
  <2>4. walk' \in Walk /\ walk'.plan = walk.plan /\ walk'.quiet = walk.quiet /\ walk'.at = "walk"
    BY <2>1, <2>2, <2>3 DEF Walk
  <2> QED
    BY <1>3, <2>4 DEF PageTypeOK
<1>6. CASE BackByCursor(list)
  <2> DEFINE P == Page(list, walk.limit)
             back == IF walk.plan.store = "mongo" THEN Reverse(P) ELSE P
  <2>1. walk' = [walk EXCEPT !.at = "back", !.back = back]
    BY <1>6 DEF BackByCursor
  <2>2. P \in Seq(PageID)
    BY <1>1, <1>2, PageOf
  <2> HIDE DEF P
  <2>3. Reverse(P) \in Seq(PageID)
    <3>1. \A k \in 1..Len(P) : P[(Len(P) - k) + 1] \in PageID
      BY <2>2
    <3> QED
      BY <2>2, <3>1 DEF Reverse
  <2>4. back \in Seq(PageID)
    BY <2>2, <2>3
  <2> HIDE DEF back
  <2>5. walk' \in Walk /\ walk'.plan = walk.plan /\ walk'.quiet = walk.quiet
    BY <2>1, <2>4 DEF Walk
  <2>6. NextByOffset(list) => walk'.at = "walk"
    BY <1>6 DEF NextByOffset, BackByCursor
  <2> QED
    BY <1>3, <2>5, <2>6 DEF PageTypeOK
<1> QED
  BY <1>4, <1>5, <1>6

LEMMA PageStep == ASSUME PageAssumption, PageInv, [PageNext]_pageVars PROVE PageInv'
<1>1. PageTypeOK /\ (walk # NoWalk => walk \in Walk /\ WalkSound(walk, tableRows, steady))
  BY DEF PageInv, PageTypeOK
<1>2. \A cursor, before : Candidates(walk.plan, cursor, before) \in SUBSET PageID
  BY <1>1 DEF Candidates, PageTypeOK
<1>3. ASSUME NEW plan \in Plan, NEW limit \in Limits, StartWalk(plan, limit) PROVE PageInv'
  BY <1>3, StartWalkKeeps
<1>4. ASSUME walk # NoWalk, walk.plan.style = "offset",
             NEW list \in Orderings(Candidates(walk.plan, NoWalk, FALSE), walk.plan.by, walk.plan.desc), NextByOffset(list)
      PROVE  PageInv'
  <2>1. walk \in Walk /\ walk.plan.desc \in BOOLEAN
    BY <1>1, <1>4, WalkFields
  <2>2. PageTypeOK' /\ walk' \in Walk /\ walk'.plan = walk.plan /\ walk'.quiet = walk.quiet /\ walk'.at = "walk"
    BY <1>1, <1>2, <1>4, <2>1, FetchTyped
  <2>3. walk.quiet /\ NoTies(walk.plan.by) => OffsetSound(walk', tableRows')
    BY <1>1, <1>4, <2>1, NextByOffsetKeeps DEF WalkSound
  <2> QED
    BY <1>4, <2>2, <2>3 DEF PageInv, WalkSound
<1>5. ASSUME walk # NoWalk, walk.plan.style = "cursor", walk.pages # <<>> => Last(walk.pages) # <<>>,
             NEW list \in Orderings(Candidates(walk.plan, CursorOfLast, FALSE), walk.plan.by, walk.plan.desc), NextByCursor(list)
      PROVE  PageInv'
  <2>1. walk \in Walk /\ walk.plan.desc \in BOOLEAN
    BY <1>1, <1>5, WalkFields
  <2>2. PageTypeOK' /\ walk' \in Walk /\ walk'.plan = walk.plan /\ walk'.quiet = walk.quiet
    BY <1>1, <1>2, <1>5, <2>1, FetchTyped
  <2>3. FollowsOrder(walk.plan) => CursorSound(walk', tableRows', steady')
    BY <1>1, <1>5, <2>1, NextByCursorKeeps DEF WalkSound
  <2> QED
    BY <1>5, <2>2, <2>3 DEF PageInv, WalkSound
<1>6. ASSUME walk # NoWalk, walk.plan.style = "cursor", walk.pages # <<>>, Last(walk.pages) # <<>>,
             NEW list \in Orderings(Candidates(walk.plan, BuildCursor(walk.plan, Head(Last(walk.pages))), TRUE), walk.plan.by,
                                    IF walk.plan.store = "mongo" THEN ~walk.plan.desc ELSE walk.plan.desc),
             BackByCursor(list)
      PROVE  PageInv'
  <2> DEFINE desc == IF walk.plan.store = "mongo" THEN ~walk.plan.desc ELSE walk.plan.desc
  <2>1. walk \in Walk /\ desc \in BOOLEAN
    BY <1>1, <1>6, WalkFields
  <2>2. PageTypeOK' /\ walk' \in Walk /\ walk'.plan = walk.plan /\ walk'.quiet = walk.quiet
    <3>1. list \in Orderings(Candidates(walk.plan, BuildCursor(walk.plan, Head(Last(walk.pages))), TRUE), walk.plan.by, desc)
      BY <1>6
    <3> HIDE DEF desc
    <3> QED
      BY <1>1, <1>2, <1>6, <2>1, <3>1, FetchTyped
  <2>3. FollowsOrder(walk.plan) => CursorSound(walk', tableRows', steady')
    BY <1>1, <1>6, <2>1, BackByCursorKeeps DEF WalkSound
  <2> QED
    BY <1>6, <2>2, <2>3 DEF PageInv, WalkSound
<1>7. ASSUME NEW i \in PageID, InsertRow(i) \/ DeleteRow(i) PROVE PageInv'
  BY <1>7, TableWriteKeeps
<1>8. ASSUME UNCHANGED pageVars PROVE PageInv'
  BY <1>1, <1>8 DEF pageVars, PageInv, PageTypeOK
<1> QED
  BY <1>3, <1>4, <1>5, <1>6, <1>7, <1>8 DEF PageNext

\* A client that pages to the end has seen every row that was there all the time, once and in
\* order: by cursor whatever is written meanwhile, by offset when nothing is
\* (internal/pagination, internal/database/mongodb/repository).
THEOREM WalksAreComplete == ASSUME PageAssumption PROVE PageSpec => []PagesComplete
<1>1. PageInit => PageInv
  BY DEF PageInit, PageInv, PageTypeOK, PageAssumption
<1>2. PageInv /\ [PageNext]_pageVars => PageInv'
  BY PageStep
<1>3. PageInv => PagesComplete
  BY PageInvStrong
<1> QED
  BY <1>1, <1>2, <1>3, PTL DEF PageSpec
=============================================================================
