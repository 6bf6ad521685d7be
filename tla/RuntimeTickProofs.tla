-------------------------- MODULE RuntimeTickProofs --------------------------
(***************************************************************************)
(* The runtime, for every set of articles, destinations, processes and     *)
(* feeds, every limit and every outcome of publishing, crashes included:   *)
(* types are respected, an acknowledged job has its idempotency key, a key *)
(* vouches for a real post. With one process the runtime implements the    *)
(* delivery contract and a marked job is not posted again with a version   *)
(* that is not newer; if it neither dies nor loses a reply, no version is  *)
(* posted twice, and versions go forward except from dates that feeds      *)
(* listed before they came.                                                *)
(***************************************************************************)
EXTENDS RuntimeHistory, QueueProcessorProofs

(***************************************************************************)
(* The inductive invariant: the types, and what the keys stand for at each *)
(* step of a cycle.                                                        *)
(***************************************************************************)
IInv == IntakeTypeOK /\ KeysInv

IntakeType ==
    [step : {"idle", "filter", "queue", "save", "done"}, items : [Article -> ArticleRow],
     todo : SUBSET Job, unsaved : SUBSET Article]

LEMMA NoIntakeType == NoIntake \in IntakeType
BY NoRowType DEF NoIntake, NoItems, IntakeType

LEMMA IntakeStepInv ==
    ASSUME IntakeTypeOK, NEW p \in Process, NEW i \in IntakeType,
           intake' = [intake EXCEPT ![p] = i]
    PROVE  IntakeTypeOK'
BY DEF IntakeTypeOK, IntakeType

LEMMA InitIInv == Init => IInv
<1> SUFFICES ASSUME Init PROVE IInv
  OBVIOUS
<1> USE DEF Init, StoreInit, IntakeInit, CycleInit
<1>1. IntakeTypeOK
  BY NoIntakeType DEF IntakeTypeOK, IntakeType
<1>2. StoreTypeOK
  BY NoRowType DEF StoreTypeOK
<1>3. CycleTypeOK
  BY IdleType DEF CycleTypeOK, CycleType
<1>4. WorkingHeld /\ KeyProgress
  BY DEF WorkingHeld, KeyProgress, Working, Idle
<1>5. AcknowledgedHasKey /\ KeyHasPost
  BY DEF AcknowledgedHasKey, KeyHasPost, NoRow
<1> QED
  BY <1>1, <1>2, <1>3, <1>4, <1>5 DEF IInv, KeysInv, CycleInv

-----------------------------------------------------------------------------
(***************************************************************************)
(* Ingestion writes articles and pending jobs only.                        *)
(***************************************************************************)
LEMMA NormalizeType ==
    ASSUME StoreTypeOK, NEW a \in Article, NEW ts \in Nat
    PROVE  Normalize(a, ts) \in ArticleRow
<1>1. articles[a] \in ArticleRow
  BY DEF StoreTypeOK
<1> QED
  BY <1>1 DEF Normalize, ArticleRow

LEMMA FetchIntake ==
    ASSUME IntakeTypeOK, StoreTypeOK, NEW p \in Process, Fetch(p)
    PROVE  IntakeTypeOK'
<1>0. PICK S \in (SUBSET Article) \ {{}} : \E ts \in [S -> NewsTime] :
        intake' = [intake EXCEPT ![p] =
             [step    |-> "filter",
              items   |-> [a \in Article |-> IF a \in S THEN Normalize(a, ts[a]) ELSE NoArticle],
              todo    |-> {j \in Job : j[1] \in S /\ Fresh(ts[j[1]])},
              unsaved |-> S]]
  BY DEF Fetch, FetchMany
<1>1. PICK ts \in [S -> NewsTime], todo \in SUBSET Job :
        intake' = [intake EXCEPT ![p] =
             [step    |-> "filter",
              items   |-> [a \in Article |-> IF a \in S THEN Normalize(a, ts[a]) ELSE NoArticle],
              todo    |-> todo,
              unsaved |-> S]]
  BY <1>0
<1>2. [a \in Article |-> IF a \in S THEN Normalize(a, ts[a]) ELSE NoArticle] \in [Article -> ArticleRow]
  <2>1. \A a \in S : ts[a] \in Nat
    BY IngestionAssumption DEF IngestionAssumption
  <2> QED
    BY <2>1, NormalizeType, NoRowType
<1> QED
  BY <1>1, <1>2 DEF IntakeTypeOK

(***************************************************************************)
(* What filtering leaves in place.                                         *)
(***************************************************************************)
LEMMA FilterIntake ==
    ASSUME IntakeTypeOK, NEW p \in Process, Filter(p)
    PROVE  /\ IntakeTypeOK'
           /\ \A q \in Process : intake'[q].items = intake[q].items
<1>1. PICK todo \in SUBSET intake[p].todo :
        intake' = [intake EXCEPT ![p].todo = todo,
                                 ![p].step = IF todo = {} THEN "save" ELSE "queue"]
  <2>1. {j \in intake[p].todo : ~FullyDelivered(j[1], intake[p].items[j[1]])} \in SUBSET intake[p].todo
    OBVIOUS
  <2> QED
    BY <2>1 DEF Filter
<1> DEFINE i == [intake[p] EXCEPT !.todo = todo, !.step = IF todo = {} THEN "save" ELSE "queue"]
<1>2. intake \in [Process -> IntakeType]
  BY DEF IntakeTypeOK, IntakeType
<1>3. i \in IntakeType /\ i.items = intake[p].items
  BY <1>2 DEF IntakeType
<1>4. intake' = [intake EXCEPT ![p] = i]
  BY <1>1, <1>2
<1> HIDE DEF i
<1> QED
  BY <1>2, <1>3, <1>4, IntakeStepInv

LEMMA IngestInv ==
    ASSUME IInv, NEW p \in Process, Ingest(p), UNCHANGED cycle
    PROVE  IInv'
<1>1. IntakeTypeOK /\ StoreTypeOK /\ CycleTypeOK /\ WorkingHeld
  BY DEF IInv, KeysInv, CycleInv
<1>2. UNCHANGED <<legacyKeys, versionKeys, posts>>
  BY DEF Ingest, Fetch, Filter, QueueJob, SaveItem, storeVars, store, channels
<1>3. CycleTypeOK' /\ WorkingHeld' /\ KeyProgress' /\ KeyHasPost'
  BY <1>2 DEF IInv, KeysInv, CycleInv, CycleTypeOK, WorkingHeld, Held, KeyProgress, KeyHasPost
<1>4. CASE Fetch(p) \/ Filter(p)
  <2>1. IntakeTypeOK' /\ UNCHANGED storeVars
    BY <1>1, <1>4, FetchIntake, FilterIntake DEF Fetch, Filter
  <2> QED
    BY <1>3, <2>1
       DEF IInv, KeysInv, CycleInv, StoreTypeOK, AcknowledgedHasKey, storeVars, store, channels
<1>5. CASE QueueJob(p)
  <2>1. PICK j \in intake[p].todo :
          /\ IF NeedsQueue(j, intake[p].items[j[1]]) THEN SaveJob(j, NewRow) ELSE UNCHANGED jobs
          /\ intake' = [intake EXCEPT ![p].todo = @ \ {j},
                                      ![p].step = IF intake[p].todo = {j} THEN "save" ELSE @]
    BY <1>5 DEF QueueJob
  <2>2. j \in Job
    BY <1>1 DEF IntakeTypeOK
  <2>3. NewRow \in JobRow /\ NewRow.status # "succeeded"
    BY <1>1 DEF NewRow, NoRow, JobRow, Status, StoreTypeOK
  <2>4. jobs' \in [Job -> JobRow] /\ AcknowledgedHasKey'
    <3>1. CASE SaveJob(j, NewRow)
      BY <1>1, <1>2, <2>2, <2>3, <3>1, SaveJobType, SaveKeepsKeyed DEF IInv
    <3>2. CASE UNCHANGED jobs
      BY <1>1, <1>2, <3>2 DEF StoreTypeOK, IInv, KeysInv, AcknowledgedHasKey
    <3> QED
      BY <2>1, <3>1, <3>2
  <2>5. StoreTypeOK'
    BY <1>1, <1>5, <2>4 DEF QueueJob, StoreTypeOK, channels
  <2>6. IntakeTypeOK'
    <3> DEFINE i == [intake[p] EXCEPT !.todo = @ \ {j},
                                      !.step = IF intake[p].todo = {j} THEN "save" ELSE @]
    <3>1. intake \in [Process -> IntakeType]
      BY <1>1 DEF IntakeTypeOK, IntakeType
    <3>2. i \in IntakeType
      BY <3>1 DEF IntakeType
    <3>3. intake' = [intake EXCEPT ![p] = i]
      BY <2>1, <3>1
    <3> HIDE DEF i
    <3> QED
      BY <1>1, <3>2, <3>3, IntakeStepInv
  <2> QED
    BY <1>3, <2>4, <2>5, <2>6 DEF IInv, KeysInv, CycleInv
<1>6. CASE SaveItem(p)
  <2>1. PICK a \in intake[p].unsaved :
          /\ articles' = [articles EXCEPT ![a] = intake[p].items[a]]
          /\ intake' = [intake EXCEPT ![p] = Unsaved(@, a)]
    BY <1>6 DEF SaveItem
  <2>2. a \in Article /\ intake[p].items[a] \in ArticleRow
    BY <1>1 DEF IntakeTypeOK
  <2>3. StoreTypeOK' /\ AcknowledgedHasKey'
    BY <1>1, <1>6, <2>1, <2>2
       DEF SaveItem, StoreTypeOK, channels, IInv, KeysInv, AcknowledgedHasKey
  <2>4. IntakeTypeOK'
    <3>1. Unsaved(intake[p], a) \in IntakeType
      BY <1>1, NoIntakeType DEF Unsaved, IntakeTypeOK, IntakeType
    <3>2. intake' = [intake EXCEPT ![p] = Unsaved(intake[p], a)]
      BY <1>1, <2>1 DEF IntakeTypeOK
    <3> QED
      BY <1>1, <3>1, <3>2, IntakeStepInv
  <2> QED
    BY <1>3, <2>3, <2>4 DEF IInv, KeysInv, CycleInv
<1> QED
  BY <1>4, <1>5, <1>6 DEF Ingest

-----------------------------------------------------------------------------
LEMMA NextIInv == IInv /\ [Next]_vars => IInv'
<1> SUFFICES ASSUME IInv, [Next]_vars PROVE IInv'
  OBVIOUS
<1>1. CASE TickStep
  BY <1>1, PassTimeKeys DEF TickStep, IInv, IntakeTypeOK
<1>2. ASSUME NEW p \in Process, IngestStep(p) PROVE IInv'
  BY <1>2, IngestInv DEF IngestStep
<1>3. ASSUME NEW p \in Process, StartCycle(p) PROVE IInv'
  <2>1. IntakeTypeOK'
    BY <1>3, NoIntakeType DEF StartCycle, IInv, IntakeTypeOK, IntakeType
  <2> QED
    BY <1>3, <2>1, RecoverLeasesKeys DEF StartCycle, IInv
<1>4. ASSUME NEW p \in Process, CycleStepOf(p) PROVE IInv'
  BY <1>4, PublishBatchKeys DEF CycleStepOf, IInv, IntakeTypeOK
<1>5. ASSUME NEW p \in Process, Crash(p) PROVE IInv'
  <2>1. IntakeTypeOK'
    BY <1>5, NoIntakeType DEF Crash, IInv, IntakeTypeOK, IntakeType
  <2> QED
    BY <1>5, <2>1, LoseCycleKeys DEF Crash, IInv
<1>6. CASE UNCHANGED vars
  BY <1>6 DEF vars, storeVars, store, channels, IInv, IntakeTypeOK, KeysInv, CycleInv, StoreTypeOK,
     CycleTypeOK, WorkingHeld, Held, KeyProgress, KeyHasPost, AcknowledgedHasKey
<1> QED
  BY <1>1, <1>2, <1>3, <1>4, <1>5, <1>6 DEF Next

(***************************************************************************)
(* Types and keys are kept by every step of the runtime: what the theorems *)
(* below start from.                                                       *)
(***************************************************************************)
THEOREM Invariance == Spec => []IInv
BY InitIInv, NextIInv, PTL DEF Spec

(***************************************************************************)
(* Every table, batch and cycle holds values of its type, the arithmetic   *)
(* of leases and retries included.                                         *)
(***************************************************************************)
THEOREM TypeCorrect == Spec => []TypeOK
<1>1. IInv => TypeOK
  BY DEF IInv, KeysInv, CycleInv, TypeOK
<1> QED
  BY <1>1, Invariance, PTL

(***************************************************************************)
(* A job is acknowledged only with its idempotency key marked, whatever    *)
(* crashes, recoveries and overlapping cycles of any number of processes.  *)
(***************************************************************************)
THEOREM AcknowledgedIsKeyed == Spec => []AcknowledgedHasKey
<1>1. IInv => AcknowledgedHasKey
  BY DEF IInv, KeysInv
<1> QED
  BY <1>1, Invariance, PTL

(***************************************************************************)
(* A key is marked only after its destination received the article: no     *)
(* skip, failure or restart makes a key of nothing.                        *)
(***************************************************************************)
THEOREM KeysVouchForPosts == Spec => []KeyHasPost
<1>1. IInv => KeyHasPost
  BY DEF IInv, KeysInv
<1> QED
  BY <1>1, Invariance, PTL

-----------------------------------------------------------------------------
(***************************************************************************)
(* The runtime of one process implements the delivery contract.  (Several  *)
(* processes do not: one whose lease ran out while it was publishing posts *)
(* a job that another acknowledged meanwhile.)                             *)
(***************************************************************************)
Version == NewsTime \cup {0}

(***************************************************************************)
(* Articles, batches and cycles carry only dates that a feed printed.      *)
(***************************************************************************)
Dated ==
    /\ DatedBy(Version)
    /\ \A p \in Process : \A a \in Article : intake[p].items[a].ts \in Version

(***************************************************************************)
(* The jobs a cycle holds are claimed: with one process, nothing recovers  *)
(* or requeues them before the cycle is done with them.                    *)
(***************************************************************************)
HeldClaimed ==
    \A p \in Process :
        /\ cycle[p].step \in {"idle", "select"} => Held(cycle[p]) = {}
        /\ \A j \in Held(cycle[p]) : jobs[j].status = "processing"

LEMMA DatedInit == Init => Dated
BY DEF Init, StoreInit, IntakeInit, CycleInit, Dated, DatedBy, Version, NoArticle, NoIntake, NoItems,
   Idle, Working

LEMMA NormalizeDated ==
    ASSUME IInv, Dated, NEW a \in Article, NEW ts \in NewsTime
    PROVE  Normalize(a, ts).ts \in Version
BY DEF Normalize, Dated, DatedBy, Version

LEMMA IngestDated ==
    ASSUME IInv, Dated, NEW p \in Process, IngestStep(p)
    PROVE  Dated'
<1>1. intake \in [Process -> IntakeType] /\ articles \in [Article -> ArticleRow]
  BY DEF IInv, IntakeTypeOK, IntakeType, KeysInv, CycleInv, StoreTypeOK
<1>2. UNCHANGED cycle
  BY DEF IngestStep
<1>3. CASE Fetch(p)
  <2>1. PICK S \in (SUBSET Article) \ {{}} : \E ts \in [S -> NewsTime] :
          intake'[p].items = [a \in Article |-> IF a \in S THEN Normalize(a, ts[a]) ELSE NoArticle]
    BY <1>1, <1>3 DEF Fetch, FetchMany, IntakeType
  <2>2. \A a \in Article : intake'[p].items[a].ts \in Version
    BY <2>1, NormalizeDated DEF NoArticle, Version
  <2>3. \A q \in Process \ {p} : intake'[q] = intake[q]
    BY <1>1, <1>3 DEF Fetch
  <2>4. UNCHANGED articles
    BY <1>3 DEF Fetch, storeVars, store
  <2> QED
    BY <1>2, <2>2, <2>3, <2>4 DEF Dated, DatedBy
<1>4. CASE Filter(p) \/ QueueJob(p)
  <2>1. \A q \in Process : intake'[q].items = intake[q].items
    <3>1. CASE Filter(p)
      BY <3>1, FilterIntake DEF IInv
    <3>2. CASE QueueJob(p)
      BY <1>1, <3>2 DEF QueueJob, IntakeType
    <3> QED
      BY <1>4, <3>1, <3>2
  <2> QED
    BY <1>2, <1>4, <2>1 DEF Filter, QueueJob, storeVars, store, Dated, DatedBy
<1>5. CASE SaveItem(p)
  <2>1. PICK a \in intake[p].unsaved :
          /\ articles' = [articles EXCEPT ![a] = intake[p].items[a]]
          /\ intake' = [intake EXCEPT ![p] = Unsaved(@, a)]
    BY <1>5 DEF SaveItem
  <2>2. a \in Article
    BY <1>1 DEF IntakeType
  <2>3. \A b \in Article : articles'[b].ts \in Version
    BY <1>1, <2>1, <2>2 DEF Dated, DatedBy
  <2>4. \A b \in Article : Unsaved(intake[p], a).items[b].ts \in Version
    <3>1. intake[p] \in IntakeType
      BY <1>1
    <3>2. Unsaved(intake[p], a).items = NoItems \/ Unsaved(intake[p], a).items = intake[p].items
      BY <3>1 DEF Unsaved, NoIntake, IntakeType
    <3> QED
      BY <3>2 DEF NoItems, NoArticle, Version, Dated, DatedBy
  <2>5. \A q \in Process : intake'[q] = IF q = p THEN Unsaved(intake[p], a) ELSE intake[q]
    BY <1>1, <2>1
  <2> QED
    BY <1>2, <2>3, <2>4, <2>5 DEF Dated, DatedBy
<1> QED
  BY <1>3, <1>4, <1>5 DEF IngestStep, Ingest

LEMMA DatedNext == IInv /\ Dated /\ [Next]_vars => Dated'
<1> SUFFICES ASSUME IInv, Dated, [Next]_vars PROVE Dated'
  OBVIOUS
<1>1. intake \in [Process -> IntakeType] /\ CycleInv
  BY DEF IInv, IntakeTypeOK, IntakeType, KeysInv
<1>2. \A a \in Article : NoIntake.items[a].ts \in Version
  BY DEF NoIntake, NoItems, NoArticle, Version
<1>3. CASE TickStep \/ UNCHANGED vars
  BY <1>3 DEF TickStep, PassTime, Tick, vars, storeVars, store, Dated, DatedBy
<1>4. ASSUME NEW p \in Process, IngestStep(p) PROVE Dated'
  BY <1>4, IngestDated
<1>5. ASSUME NEW p \in Process, StartCycle(p) \/ CycleStepOf(p) PROVE Dated'
  <2>1. DatedBy(Version)'
    BY <1>1, <1>5, CycleDated DEF StartCycle, CycleStepOf, Dated
  <2>2. \A q \in Process : intake'[q] = intake[q] \/ intake'[q] = NoIntake
    BY <1>1, <1>5 DEF StartCycle, CycleStepOf
  <2> QED
    BY <1>2, <2>1, <2>2 DEF Dated
<1>6. ASSUME NEW p \in Process, Crash(p) PROVE Dated'
  <2>1. \A q \in Process : cycle'[q] = IF q = p THEN Idle ELSE cycle[q]
    BY <1>1, <1>6, OtherCycles DEF Crash, LoseCycle, CycleInv
  <2>2. DatedBy(Version)'
    BY <1>6, <2>1 DEF Crash, storeVars, store, Dated, DatedBy, Idle, Working
  <2> QED
    BY <1>1, <1>2, <1>6, <2>2 DEF Crash, Dated
<1> QED
  BY <1>3, <1>4, <1>5, <1>6 DEF Next

-----------------------------------------------------------------------------
(***************************************************************************)
(* What a cycle holds stays claimed, when it is the only process.          *)
(***************************************************************************)
LEMMA HeldInit == Init => HeldClaimed
<1> SUFFICES ASSUME Init PROVE HeldClaimed
  OBVIOUS
<1>1. \A p \in Process : cycle[p].step = "idle" /\ Held(cycle[p]) = {}
  BY IdleType DEF Init, CycleInit, Idle
<1> QED
  BY <1>1 DEF HeldClaimed

LEMMA IngestKeepsClaims ==
    ASSUME IInv, HeldClaimed, NEW p, Process = {p}, IngestStep(p)
    PROVE  HeldClaimed'
BY DEF IngestStep, HeldClaimed, Held

LEMMA StartKeepsClaims ==
    ASSUME IInv, HeldClaimed, NEW p, Process = {p}, StartCycle(p)
    PROVE  HeldClaimed'
<1> DEFINE c == [Idle EXCEPT !.step = "select", !.at = now]
<1>1. Held(c) = {}
  BY IdleType DEF Held, Idle
<1>2. cycle' = [cycle EXCEPT ![p] = c]
  BY DEF StartCycle, RecoverLeases
<1> HIDE DEF c
<1>3. cycle'[p] = c
  BY <1>2, OtherCycles DEF IInv, KeysInv, CycleInv
<1> QED
  BY <1>1, <1>3 DEF HeldClaimed, Held

LEMMA SelectKeepsClaims ==
    ASSUME IInv, HeldClaimed, NEW p, Process = {p}, SelectBatch(p)
    PROVE  HeldClaimed'
<1> DEFINE t == cycle[p].at
<1>1. PICK claimed \in SUBSET Job :
        /\ jobs' = [j \in Job |-> IF j \in claimed THEN Claimed(jobs[j], t) ELSE jobs[j]]
        /\ cycle' = [cycle EXCEPT ![p] =
              IF claimed = {} THEN Idle
              ELSE [@ EXCEPT !.step = "load",
                             !.batch = [j \in Job |-> IF j \in claimed
                                                      THEN Claimed(jobs[j], t) ELSE NoRow]]]
  <2>1. PICK S \in SUBSET Candidates(cycle[p].at) :
          LET claimed == Batch(S, t)
          IN  /\ jobs' = [j \in Job |-> IF j \in claimed THEN Claimed(jobs[j], t) ELSE jobs[j]]
              /\ cycle' = [cycle EXCEPT ![p] =
                    IF claimed = {} THEN Idle
                    ELSE [@ EXCEPT !.step = "load",
                                   !.batch = [j \in Job |-> IF j \in claimed
                                                            THEN Claimed(jobs[j], t)
                                                            ELSE NoRow]]]
    BY DEF SelectBatch
  <2>2. Batch(S, t) \in SUBSET Job
    BY DEF Batch, Eligible
  <2> QED
    BY <2>1, <2>2
<1> HIDE DEF t
<1>2. cycle[p] \in CycleType /\ jobs \in [Job -> JobRow]
  BY CycleOfType DEF IInv, KeysInv, CycleInv, StoreTypeOK
<1>3. \A j \in Job : Claimed(jobs[j], t).status = "processing"
  BY <1>2 DEF Claimed, JobRow
<1>4. CASE claimed = {}
  <2>1. cycle'[p] = Idle
    BY <1>1, <1>4 DEF IInv, KeysInv, CycleInv, CycleTypeOK
  <2> QED
    BY <2>1, IdleType DEF HeldClaimed, Held
<1>5. CASE claimed # {}
  <2>1. /\ cycle'[p].step = "load"
        /\ cycle'[p].batch = [j \in Job |-> IF j \in claimed THEN Claimed(jobs[j], t) ELSE NoRow]
    BY <1>1, <1>2, <1>5 DEF CycleType, IInv, KeysInv, CycleInv, CycleTypeOK
  <2>2. \A j \in Job : cycle'[p].batch[j].status # "absent" => j \in claimed
    BY <2>1 DEF NoRow
  <2>3. \A j \in claimed : jobs'[j].status = "processing"
    BY <1>1, <1>3
  <2> QED
    BY <2>1, <2>2, <2>3 DEF HeldClaimed, Held
<1> QED
  BY <1>4, <1>5

(***************************************************************************)
(* A step that is done with one job of the batch.                          *)
(***************************************************************************)
LEMMA ReleaseKeepsClaims ==
    ASSUME IInv, HeldClaimed, NEW p, Process = {p}, NEW j \in Held(cycle[p]), NEW row \in JobRow,
           cycle' = [cycle EXCEPT ![p] = Remaining(cycle[p], j)], SaveJob(j, row)
    PROVE  HeldClaimed'
<1>1. j \in Job /\ cycle[p] \in CycleType
  BY CycleOfType DEF IInv, KeysInv, CycleInv
<1>2. cycle'[p] = Remaining(cycle[p], j)
  BY OtherCycles DEF IInv, KeysInv, CycleInv
<1>3. /\ Held(cycle'[p]) = Held(cycle[p]) \ {j}
      /\ cycle'[p].step \in {"idle", "select"} => Held(cycle'[p]) = {}
  BY <1>1, <1>2, RemainingType
<1>4. \A k \in Held(cycle'[p]) : jobs'[k].status = "processing"
  BY <1>1, <1>3, SaveAcked DEF HeldClaimed, Held, IInv, KeysInv
<1> QED
  BY <1>3, <1>4 DEF HeldClaimed, Held

LEMMA LoadKeepsClaims ==
    ASSUME IInv, HeldClaimed, NEW p, Process = {p}, LoadArticle(p)
    PROVE  HeldClaimed'
<1>1. PICK j \in Heads(cycle[p]) :
        LET article == articles[j[1]]
            skip == AlreadyDelivered(j, article.ts)
        IN  IF ~article.stored \/ j[2] \notin Publisher
            THEN /\ SaveJob(j, DeadLetter(cycle[p].batch[j]))
                 /\ cycle' = [cycle EXCEPT ![p] = Remaining(@, j)]
            ELSE /\ cycle' = [cycle EXCEPT ![p].job = j,
                                           ![p].article = article,
                                           ![p].success = skip,
                                           ![p].step = IF skip THEN "record" ELSE "send"]
                 /\ UNCHANGED jobs
  BY DEF LoadArticle
<1>3. j \in Held(cycle[p]) /\ j \in Job /\ cycle[p] \in CycleType
  BY CycleOfType DEF Heads, IInv, KeysInv, CycleInv
<1>4. CASE ~articles[j[1]].stored \/ j[2] \notin Publisher
  <2>1. cycle' = [cycle EXCEPT ![p] = Remaining(cycle[p], j)]
    BY <1>1, <1>4 DEF IInv, KeysInv, CycleInv, CycleTypeOK
  <2>2. DeadLetter(cycle[p].batch[j]) \in JobRow
    BY <1>3, RowTypes DEF CycleType
  <2>3. SaveJob(j, DeadLetter(cycle[p].batch[j]))
    BY <1>1, <1>4
  <2> QED
    BY <1>3, <2>1, <2>2, <2>3, ReleaseKeepsClaims
<1>5. CASE ~(~articles[j[1]].stored \/ j[2] \notin Publisher)
  <2>1. /\ cycle'[p].batch = cycle[p].batch /\ cycle'[p].step \in {"record", "send"}
        /\ UNCHANGED jobs
    BY <1>1, <1>3, <1>5 DEF CycleType, IInv, KeysInv, CycleInv, CycleTypeOK
  <2> QED
    BY <2>1 DEF HeldClaimed, Held
<1> QED
  BY <1>4, <1>5

LEMMA PublishKeepsClaims ==
    ASSUME IInv, HeldClaimed, NEW p, Process = {p},
           Send(p) \/ Record(p) \/ MarkLegacy(p) \/ MarkVersion(p) \/ SaveArticle(p)
    PROVE  HeldClaimed'
<1>1. cycle[p] \in CycleType
  BY CycleOfType DEF IInv, KeysInv, CycleInv
<1>2. cycle'[p].batch = cycle[p].batch /\ cycle'[p].step \in Working
  <2>1. CASE Send(p)
    <3>1. PICK outcome \in Outcome :
            cycle' = [cycle EXCEPT ![p].success = (outcome = "ok"), ![p].step = "record"]
      BY <2>1 DEF Send
    <3> QED
      BY <1>1, <3>1 DEF Working, CycleType, IInv, KeysInv, CycleInv, CycleTypeOK
  <2>2. CASE ~Send(p)
    <3>1. PICK s \in Working : cycle' = [cycle EXCEPT ![p].step = s]
      BY <2>2 DEF Record, MarkLegacy, MarkVersion, SaveArticle, Working
    <3> QED
      BY <1>1, <3>1 DEF CycleType, IInv, KeysInv, CycleInv, CycleTypeOK
  <2> QED
    BY <2>1, <2>2
<1>3. UNCHANGED jobs
  BY DEF Send, Record, MarkLegacy, MarkVersion, SaveArticle, store
<1> QED
  BY <1>2, <1>3 DEF HeldClaimed, Held, Working

LEMMA FinishKeepsClaims ==
    ASSUME IInv, HeldClaimed, NEW p, Process = {p}, FinishJob(p)
    PROVE  HeldClaimed'
<1> DEFINE j == cycle[p].job
           row == cycle[p].batch[j]
           saved == IF cycle[p].success THEN Succeeded(row) ELSE Failed(row, cycle[p].at)
<1>1. j \in Held(cycle[p]) /\ row \in JobRow /\ cycle[p].at \in Nat
  BY WorkingJob DEF FinishJob, Working, IInv, KeysInv, CycleInv, WorkingHeld
<1>2. SaveJob(j, saved) /\ cycle' = [cycle EXCEPT ![p] = Remaining(cycle[p], j)]
  BY DEF FinishJob, IInv, KeysInv, CycleInv, CycleTypeOK
<1> HIDE DEF row, j
<1>3. saved \in JobRow
  BY <1>1, RowTypes
<1> HIDE DEF saved
<1> QED
  BY <1>1, <1>2, <1>3, ReleaseKeepsClaims

-----------------------------------------------------------------------------
(***************************************************************************)
(* The steps of the contract, in terms of the runtime's state.  Only       *)
(* ingestion takes an acknowledgement back.                                *)
(***************************************************************************)
LEMMA DeliversIsContract ==
    ASSUME Delivers(Version)
    PROVE  [Contract!ContractNext]_Contract!contractVars
BY DEF Delivers, Acked, Version, Contract!ContractNext, Contract!Deliver, Contract!Vouch,
   Contract!Acknowledge, Contract!contractVars

LEMMA IngestIsContract ==
    ASSUME IInv, NEW p \in Process, IngestStep(p)
    PROVE  [Contract!ContractNext]_Contract!contractVars
<1>1. UNCHANGED <<posts, legacyKeys>>
  BY DEF IngestStep, Ingest, Fetch, Filter, QueueJob, SaveItem, storeVars, store, channels
<1>2. Acked' = Acked \/ \E j \in Job : Acked' = Acked \ {j}
  <2>1. CASE QueueJob(p)
    <3>1. PICK j \in intake[p].todo : SaveJob(j, NewRow) \/ UNCHANGED jobs
      BY <2>1 DEF QueueJob
    <3>2. j \in Job /\ now \in Nat
      BY DEF IInv, IntakeTypeOK, KeysInv, CycleInv, StoreTypeOK
    <3>3. NewRow \in JobRow /\ NewRow.status # "succeeded"
      BY <3>2 DEF NewRow, NoRow, JobRow, Status
    <3> QED
      BY <3>1, <3>2, <3>3, SaveAcked DEF Acked, IInv, KeysInv
  <2>2. CASE ~QueueJob(p)
    BY <2>2 DEF IngestStep, Ingest, Fetch, Filter, SaveItem, storeVars, store, Acked
  <2> QED
    BY <2>1, <2>2
<1> QED
  BY <1>1, <1>2 DEF Contract!ContractNext, Contract!Reopen, Contract!contractVars, Acked

LEMMA CycleIsContract ==
    ASSUME IInv, Dated, HeldClaimed, NEW p \in Process, StartCycle(p) \/ CycleStepOf(p)
    PROVE  [Contract!ContractNext]_Contract!contractVars
<1>1. DatedBy(Version) /\ \A j \in Held(cycle[p]) : jobs[j].status = "processing"
  BY DEF Dated, HeldClaimed
<1>2. Delivers(Version)
  BY <1>1, CycleDelivers DEF IInv, StartCycle, CycleStepOf
<1> QED
  BY <1>2, DeliversIsContract

LEMMA NextClaims ==
    ASSUME NEW p, Process = {p}, IInv, HeldClaimed, [Next]_vars
    PROVE  HeldClaimed'
<1>1. CASE TickStep \/ UNCHANGED vars
  BY <1>1 DEF TickStep, PassTime, Tick, vars, storeVars, store, HeldClaimed, Held
<1>2. CASE IngestStep(p)
  BY <1>2, IngestKeepsClaims
<1>3. CASE StartCycle(p)
  BY <1>3, StartKeepsClaims
<1>4. CASE CycleStepOf(p)
  BY <1>4, SelectKeepsClaims, LoadKeepsClaims, PublishKeepsClaims, FinishKeepsClaims
     DEF CycleStepOf, PublishBatch
<1>5. CASE Crash(p)
  <2>1. cycle'[p] = Idle
    BY <1>5 DEF Crash, LoseCycle, IInv, KeysInv, CycleInv, CycleTypeOK
  <2> QED
    BY <2>1, IdleType DEF HeldClaimed, Held
<1> QED
  BY <1>1, <1>2, <1>3, <1>4, <1>5 DEF Next

LEMMA NextContract ==
    ASSUME IInv, Dated, HeldClaimed, [Next]_vars
    PROVE  [Contract!ContractNext]_Contract!contractVars
<1>1. ASSUME UNCHANGED <<posts, legacyKeys, jobs>>
      PROVE  [Contract!ContractNext]_Contract!contractVars
  BY <1>1 DEF Contract!contractVars
<1>2. CASE TickStep \/ UNCHANGED vars
  BY <1>1, <1>2 DEF TickStep, PassTime, Tick, vars, storeVars, store, channels
<1>3. ASSUME NEW p \in Process, Crash(p)
      PROVE  [Contract!ContractNext]_Contract!contractVars
  BY <1>1, <1>3 DEF Crash, storeVars, store, channels
<1> QED
  BY <1>2, <1>3, IngestIsContract, CycleIsContract DEF Next

LEMMA InitContract == Init => Contract!ContractInit
BY DEF Init, StoreInit, NoRow, Contract!ContractInit

(***************************************************************************)
(* Refinement: the runtime of one process does only what the contract      *)
(* allows.  In particular nothing is posted for a job that is acknowledged,*)
(* from the acknowledgement until ingestion queues the job again.          *)
(***************************************************************************)
THEOREM RuntimeImplementsContract ==
    ASSUME NEW p, Process = {p}
    PROVE  Spec => ImplementsContract
<1>1. Init => Dated /\ HeldClaimed /\ Contract!ContractInit
  BY DatedInit, HeldInit, InitContract
<1>2. IInv /\ Dated /\ HeldClaimed /\ [Next]_vars
        => Dated' /\ HeldClaimed' /\ [Contract!ContractNext]_Contract!contractVars
  BY DatedNext, NextClaims, NextContract
<1> QED
  BY <1>1, <1>2, Invariance, PTL DEF Spec, ImplementsContract, Contract!ContractSpec

-----------------------------------------------------------------------------
(***************************************************************************)
(* Versions, with one process: no other cycle can work on its jobs, and    *)
(* ingestion touches neither keys nor channels.                            *)
(***************************************************************************)
LEMMA AloneApart == ASSUME NEW p, Process = {p} PROVE Apart
BY DEF Apart

LEMMA OtherSteps ==
    ASSUME IInv, [Next]_vars,
           ~\E p \in Process : RecoverLeases(p) \/ PublishBatch(p) \/ Crash(p)
    PROVE  UNCHANGED <<cycle, legacyKeys, versionKeys, delivered, posts, reposts>>
BY DEF Next, TickStep, PassTime, Tick, IngestStep, Ingest, Fetch, Filter, QueueJob, SaveItem, StartCycle,
   CycleStepOf, vars, storeVars, store, channels

LEMMA InitVersions == Init => VersionsInv
BY DEF Init, StoreInit, CycleInit, Idle, VersionsInv, UnmarkedSends, PostsMarked, NoReposts

LEMMA CrashLeaves ==
    ASSUME IInv, NEW p \in Process, Crash(p)
    PROVE  /\ UNCHANGED storeVars
           /\ \A q \in Process : cycle'[q] = IF q = p THEN Idle ELSE cycle[q]
BY OtherCycles DEF Crash, LoseCycle, IInv, KeysInv, CycleInv

LEMMA NextUnmarked ==
    ASSUME NEW p, Process = {p}, IInv, UnmarkedSends, [Next]_vars
    PROVE  UnmarkedSends'
<1>1. CASE RecoverLeases(p) \/ PublishBatch(p)
  BY <1>1, CycleUnmarked, AloneApart DEF IInv, KeysInv
<1>2. CASE Crash(p)
  BY <1>2, CrashLeaves DEF UnmarkedSends, Idle, storeVars, store
<1>3. CASE ~(RecoverLeases(p) \/ PublishBatch(p) \/ Crash(p))
  BY <1>3, OtherSteps DEF UnmarkedSends
<1> QED
  BY <1>1, <1>2, <1>3

LEMMA NextVersions ==
    ASSUME NEW p, Process = {p}, ~Crashes, "lost_reply" \notin Outcome,
           IInv, VersionsInv, [Next]_vars
    PROVE  VersionsInv'
<1>1. CASE RecoverLeases(p) \/ PublishBatch(p)
  BY <1>1, CycleVersions, AloneApart DEF IInv, KeysInv
<1>2. CASE ~(RecoverLeases(p) \/ PublishBatch(p))
  BY <1>2, OtherSteps DEF Crash, LoseCycle, VersionsInv, UnmarkedSends, PostsMarked, Delivering,
     NoReposts
<1> QED
  BY <1>1, <1>2

(***************************************************************************)
(* A version whose key is marked is never posted again by the runtime of   *)
(* one process, however often it dies, loses replies and restarts.         *)
(***************************************************************************)
THEOREM KeysHold ==
    ASSUME NEW p, Process = {p}
    PROVE  Spec => MarkedNeverReposted
<1>1. Init => UnmarkedSends
  BY InitVersions DEF VersionsInv
<1>2. IInv /\ UnmarkedSends /\ [Next]_vars => UnmarkedSends'
  BY NextUnmarked
<1>3. ASSUME IInv, UnmarkedSends, [Next]_vars
      PROVE  [((posts' \ posts) \cup (reposts' \ reposts)) \cap versionKeys = {}]_<<storeVars, cycle>>
  <2>1. CASE RecoverLeases(p) \/ PublishBatch(p)
    BY <1>3, <2>1, MarkedStay DEF IInv, KeysInv
  <2>2. CASE Crash(p)
    BY <1>3, <2>2, CrashLeaves DEF storeVars, channels
  <2>3. CASE ~(RecoverLeases(p) \/ PublishBatch(p) \/ Crash(p))
    BY <1>3, <2>3, OtherSteps
  <2> QED
    BY <2>1, <2>2, <2>3
<1> QED
  BY <1>1, <1>2, <1>3, Invariance, PTL DEF Spec, MarkedNeverReposted

(***************************************************************************)
(* The runtime of one process that does not die and whose publishers'      *)
(* replies arrive posts no version twice, whatever old copies and updates  *)
(* its feeds list and whatever is rejected, retried and queued again.      *)
(***************************************************************************)
THEOREM RuntimePostsOnce ==
    ASSUME NEW p, Process = {p}, ~Crashes, "lost_reply" \notin Outcome
    PROVE  Spec => []NoReposts
<1>1. IInv /\ VersionsInv /\ [Next]_vars => VersionsInv'
  BY NextVersions
<1>2. VersionsInv => NoReposts
  BY DEF VersionsInv
<1> QED
  BY <1>1, <1>2, InitVersions, Invariance, PTL DEF Spec

-----------------------------------------------------------------------------
(***************************************************************************)
(* Order of versions.  The dates of news are not later than the clock when *)
(* they are read, nor than the start of the cycle that publishes them,     *)
(* unless a feed listed them early; so a delivery time is not earlier than *)
(* any version delivered before it that was not.                           *)
(***************************************************************************)
Came(a, ts, t) == ts <= t \/ <<a, ts>> \in early

Timed ==
    /\ \A a \in Article : Came(a, articles[a].ts, now)
    /\ \A p \in Process : \A a \in Article : Came(a, intake[p].items[a].ts, now)
    /\ \A post \in posts : Came(post[1][1], post[2], now)
    /\ \A p \in Process : cycle[p].step # "idle" =>
          /\ cycle[p].at <= now
          /\ \A a \in Article : Came(a, articles[a].ts, cycle[p].at)
          /\ \A post \in posts : Came(post[1][1], post[2], cycle[p].at)
    /\ \A p \in Process : cycle[p].step \in Working =>
          Came(cycle[p].job[1], cycle[p].article.ts, cycle[p].at)

(***************************************************************************)
(* A job that was posted has its key or is about to get it; its record is  *)
(* not older than what was posted, early versions aside; and a version     *)
(* that is about to be sent is the first of its job, or later than the     *)
(* record.                                                                 *)
(***************************************************************************)
Marking(c, j) == c.step \in {"record", "markLegacy"} /\ c.success /\ c.job = j

Recording(c, j) == c.step = "record" /\ c.success /\ c.job = j

Ordered ==
    /\ \A post \in posts :
          /\ post[1] \in legacyKeys \/ \E p \in Process : Marking(cycle[p], post[1])
          /\ \/ delivered[post[1]] = 0 \/ Came(post[1][1], post[2], delivered[post[1]])
             \/ \E p \in Process : Recording(cycle[p], post[1])
    /\ \A p \in Process : cycle[p].step = "send" =>
          \/ cycle[p].job \notin legacyKeys
          \/ delivered[cycle[p].job] # 0 /\ delivered[cycle[p].job] < cycle[p].article.ts

OrderInv == Timed /\ Ordered

LEMMA InitOrder == InitH => OrderInv
BY DEF InitH, Init, StoreInit, IntakeInit, CycleInit, OrderInv, Timed, Ordered, Came, NoArticle,
   NoIntake, NoItems, Idle, Working

(***************************************************************************)
(* The history only grows, and only with what ingestion lists; every other *)
(* step is one of the runtime.                                             *)
(***************************************************************************)
LEMMA HistorySteps ==
    ASSUME [NextH]_varsH
    PROVE  /\ [Next]_vars
           /\ UNCHANGED early \/ \E p \in Process : IngestStepH(p)
BY DEF NextH, varsH, Next, IngestStepH

(***************************************************************************)
(* Time.                                                                   *)
(***************************************************************************)
LEMMA IngestTimed ==
    ASSUME IInv, Timed, NEW p, Process = {p}, IngestStepH(p)
    PROVE  Timed'
<1>1. intake \in [Process -> IntakeType] /\ articles \in [Article -> ArticleRow] /\ now \in Nat
  BY DEF IInv, IntakeTypeOK, IntakeType, KeysInv, CycleInv, StoreTypeOK
<1>2. UNCHANGED <<cycle, posts, now>> /\ cycle[p].step = "idle"
  BY DEF IngestStepH, IngestStep, Ingest, Fetch, Filter, QueueJob, SaveItem, storeVars, channels
<1>3. early \subseteq early'
  BY DEF IngestStepH
<1> SUFFICES /\ \A a \in Article : Came(a, articles[a].ts, now)'
             /\ \A a \in Article : Came(a, intake[p].items[a].ts, now)'
  BY <1>2, <1>3 DEF Timed, Came, Working
<1>4. ASSUME UNCHANGED articles
      PROVE  \A a \in Article : Came(a, articles[a].ts, now)'
  BY <1>2, <1>3, <1>4 DEF Timed, Came
<1>5. CASE Fetch(p)
  <2>1. PICK S \in (SUBSET Article) \ {{}} : \E ts \in [S -> NewsTime] :
          intake'[p].items = [a \in Article |-> IF a \in S THEN Normalize(a, ts[a]) ELSE NoArticle]
    BY <1>1, <1>5 DEF Fetch, FetchMany, IntakeType
  <2>2. ASSUME NEW a \in S PROVE a \in Listed(p)
    BY <2>1, <2>2 DEF Listed, Normalize
  <2>3. ASSUME NEW a \in S PROVE Came(a, intake[p].items[a].ts, now)'
    <3>1. intake'[p].items[a].ts \in Nat
      BY FetchIntake, <1>5 DEF IInv, KeysInv, CycleInv, IntakeTypeOK, ArticleRow
    <3>2. intake'[p].items[a].ts > now => <<a, intake'[p].items[a].ts>> \in early'
      BY <2>2, <2>3 DEF IngestStepH
    <3> QED
      BY <1>1, <1>2, <3>1, <3>2 DEF Came
  <2>4. ASSUME NEW a \in Article, a \notin S PROVE Came(a, intake[p].items[a].ts, now)'
    BY <1>1, <1>2, <2>1, <2>4 DEF Came, NoArticle
  <2>5. UNCHANGED articles
    BY <1>5 DEF Fetch, storeVars, store
  <2> QED
    BY <1>4, <2>3, <2>4, <2>5
<1>6. CASE Filter(p) \/ QueueJob(p)
  <2>1. intake'[p].items = intake[p].items /\ UNCHANGED articles
    <3>1. intake[p] \in IntakeType
      BY <1>1
    <3>2. CASE Filter(p)
      BY <1>1, <3>1, <3>2 DEF Filter, IntakeType, storeVars, store
    <3>3. CASE QueueJob(p)
      BY <1>1, <3>1, <3>3 DEF QueueJob, IntakeType
    <3> QED
      BY <1>6, <3>2, <3>3
  <2>2. \A a \in Article : Came(a, intake[p].items[a].ts, now)
    BY DEF Timed
  <2>3. \A a \in Article : Came(a, intake[p].items[a].ts, now)'
    BY <1>2, <1>3, <2>1, <2>2 DEF Came
  <2> QED
    BY <1>4, <2>1, <2>3
<1>7. CASE SaveItem(p)
  <2>1. PICK a \in intake[p].unsaved :
          /\ articles' = [articles EXCEPT ![a] = intake[p].items[a]]
          /\ intake' = [intake EXCEPT ![p] = Unsaved(@, a)]
    BY <1>7 DEF SaveItem
  <2>2. a \in Article /\ intake[p] \in IntakeType
    BY <1>1 DEF IntakeType
  <2>3. Unsaved(intake[p], a).items = NoItems \/ Unsaved(intake[p], a).items = intake[p].items
    BY <2>2 DEF Unsaved, NoIntake, IntakeType
  <2>4. \A b \in Article : NoItems[b].ts <= now
    BY <1>1 DEF NoItems, NoArticle
  <2>5. \A b \in Article : Came(b, articles[b].ts, now)'
    BY <1>1, <1>2, <1>3, <2>1, <2>2 DEF Timed, Came
  <2>6. \A b \in Article : Came(b, intake[p].items[b].ts, now)'
    BY <1>1, <1>2, <1>3, <2>1, <2>3, <2>4 DEF Timed, Came
  <2> QED
    BY <2>5, <2>6
<1> QED
  BY <1>5, <1>6, <1>7 DEF IngestStepH, IngestStep, Ingest

LEMMA CycleTimed ==
    ASSUME IInv, Timed, NEW p, Process = {p}, StartCycle(p) \/ CycleStepOf(p), UNCHANGED early
    PROVE  Timed'
<1>1. cycle \in [Process -> CycleType] /\ articles \in [Article -> ArticleRow] /\ now \in Nat
  BY DEF IInv, KeysInv, CycleInv, CycleTypeOK, CycleType, StoreTypeOK
<1>2. CASE StartCycle(p)
  <2>1. /\ UNCHANGED <<articles, posts, now>>
        /\ intake' = [intake EXCEPT ![p] = NoIntake]
        /\ cycle' = [cycle EXCEPT ![p] = [Idle EXCEPT !.step = "select", !.at = now]]
    BY <1>2 DEF StartCycle, RecoverLeases, channels
  <2>2. \A a \in Article : intake'[p].items[a].ts <= now
    BY <1>1, <2>1 DEF NoIntake, NoItems, NoArticle, IInv, IntakeTypeOK
  <2>3. cycle'[p].step = "select" /\ cycle'[p].at = now
    BY <1>1, <2>1 DEF Idle
  <2> QED
    BY <1>1, <2>1, <2>2, <2>3 DEF Timed, Came, Working
<1>3. CASE CycleStepOf(p)
  <2>1. RecoverLeases(p) \/ PublishBatch(p)
    BY <1>3 DEF CycleStepOf
  <2>2. UNCHANGED <<intake, now>> /\ cycle[p].step # "idle"
    BY <1>3 DEF CycleStepOf, PublishBatch, SelectBatch, LoadArticle, Send, Record, MarkLegacy,
       MarkVersion, SaveArticle, FinishJob
  <2>3. cycle'[p].step # "idle" => cycle'[p].at = cycle[p].at
    <3>1. CASE SelectBatch(p)
      BY <1>1, <3>1 DEF SelectBatch, Idle, CycleType
    <3>2. CASE LoadArticle(p)
      <4>1. PICK j \in Heads(cycle[p]) : \/ cycle'[p] = Remaining(cycle[p], j)
                                         \/ cycle'[p].at = cycle[p].at
        BY <1>1, <3>2 DEF LoadArticle, CycleType
      <4>2. j \in Job
        BY DEF Heads, Held
      <4> QED
        BY <1>1, <4>1, <4>2, RemainingType
    <3>3. CASE Send(p) \/ Record(p) \/ MarkLegacy(p) \/ MarkVersion(p) \/ SaveArticle(p)
      <4>1. CASE Send(p)
        BY <1>1, <4>1 DEF Send, CycleType
      <4>2. CASE ~Send(p)
        <5>1. PICK s \in Working : cycle' = [cycle EXCEPT ![p].step = s]
          BY <3>3, <4>2 DEF Record, MarkLegacy, MarkVersion, SaveArticle, Working
        <5> QED
          BY <1>1, <5>1 DEF CycleType
      <4> QED
        BY <4>1, <4>2
    <3>4. CASE FinishJob(p)
      <4>1. cycle'[p] = Remaining(cycle[p], cycle[p].job) /\ cycle[p].job \in Job
        BY <1>1, <3>4, WorkingJob DEF FinishJob, Working, IInv, KeysInv
      <4> QED
        BY <1>1, <4>1, RemainingType
    <3> QED
      BY <1>3, <3>1, <3>2, <3>3, <3>4 DEF CycleStepOf, PublishBatch
  <2>4. CASE Pauses(p)
    <3>1. UNCHANGED <<articles, posts>> /\ cycle'[p].step \notin Working
      BY <2>4 DEF Pauses, Between, Working, channels
    <3> QED
      BY <2>2, <2>3, <3>1 DEF Timed, Came
  <2>5. CASE Loads(p)
    <3>1. PICK j \in Held(cycle[p]) : cycle'[p].job = j /\ cycle'[p].article = articles[j[1]]
      BY <2>5 DEF Loads
    <3>2. j[1] \in Article /\ UNCHANGED <<articles, posts>>
      BY <2>5 DEF Held, Job, Loads, store, channels
    <3>3. cycle'[p].step # "idle"
      BY <2>5 DEF Loads
    <3> QED
      BY <2>2, <2>3, <3>1, <3>2, <3>3 DEF Timed, Came
  <2>6. CASE GoesOn(p) /\ Send(p)
    <3> DEFINE job == cycle[p].job
               v == cycle[p].article.ts
    <3>1. UNCHANGED articles /\ Came(job[1], v, cycle[p].at)
      BY <2>6 DEF Send, store, GoesOn, Timed
    <3>2. \A post \in posts' : post \in posts \/ post = <<job, v>>
      BY <2>6 DEF Send, PostTo, channels
    <3>3. cycle'[p].step # "idle" /\ cycle[p].step # "idle" /\ cycle[p].at \in Nat /\ v \in Nat
      BY <1>1, <2>6 DEF GoesOn, Working, CycleType, ArticleRow
    <3>4. cycle[p].at <= now /\ Came(job[1], v, now)
      BY <1>1, <3>1, <3>3 DEF Timed, Came
    <3>5. \A post \in posts' : /\ Came(post[1][1], post[2], cycle[p].at)
                               /\ Came(post[1][1], post[2], now)
      BY <3>1, <3>2, <3>3, <3>4 DEF Timed
    <3> QED
      BY <2>2, <2>3, <2>6, <3>1, <3>3, <3>4, <3>5 DEF Timed, Came, GoesOn
  <2>7. CASE GoesOn(p) /\ (Record(p) \/ MarkLegacy(p) \/ MarkVersion(p))
    <3>1. UNCHANGED <<articles, posts>> /\ cycle'[p].step # "idle"
      BY <2>7 DEF Record, MarkLegacy, MarkVersion, channels, GoesOn, Working
    <3> QED
      BY <2>2, <2>3, <2>7, <3>1 DEF Timed, Came, GoesOn
  <2>8. CASE GoesOn(p) /\ SaveArticle(p)
    <3>1. UNCHANGED posts /\ cycle'[p].step # "idle"
      BY <2>8 DEF SaveArticle, channels, GoesOn, Working
    <3>2. articles' = [articles EXCEPT ![cycle[p].job[1]] = [cycle[p].article EXCEPT !.sent = cycle[p].at]]
      BY <2>8 DEF SaveArticle
    <3>3. [cycle[p].article EXCEPT !.sent = cycle[p].at].ts = cycle[p].article.ts
      BY <1>1 DEF CycleType, ArticleRow
    <3>4. /\ Came(cycle[p].job[1], cycle[p].article.ts, cycle[p].at)
          /\ Came(cycle[p].job[1], cycle[p].article.ts, now)
      <4>1. cycle[p].at \in Nat /\ cycle[p].article.ts \in Nat
        BY <1>1 DEF CycleType, ArticleRow
      <4> QED
        BY <1>1, <2>2, <2>8, <4>1 DEF GoesOn, Timed, Came
    <3>5. \A a \in Article : \/ articles'[a].ts = articles[a].ts
                             \/ a = cycle[p].job[1] /\ articles'[a].ts = cycle[p].article.ts
      BY <1>1, <3>2, <3>3
    <3>6. \A a \in Article : Came(a, articles'[a].ts, now) /\ Came(a, articles'[a].ts, cycle[p].at)
      BY <2>2, <3>4, <3>5 DEF Timed
    <3> QED
      BY <2>2, <2>3, <2>8, <3>1, <3>6 DEF Timed, Came, GoesOn
  <2> QED
    BY <2>1, <2>4, <2>5, <2>6, <2>7, <2>8, CycleMoves DEF IInv, KeysInv
<1> QED
  BY <1>2, <1>3

LEMMA NextTimed ==
    ASSUME NEW p, Process = {p}, IInv, Timed, [NextH]_varsH
    PROVE  Timed'
<1>0. [Next]_vars /\ (UNCHANGED early \/ IngestStepH(p))
  BY HistorySteps
<1>1. CASE IngestStepH(p)
  BY <1>1, IngestTimed
<1>2. CASE (StartCycle(p) \/ CycleStepOf(p)) /\ UNCHANGED early
  BY <1>2, CycleTimed
<1>3. CASE (TickStep \/ UNCHANGED vars) /\ UNCHANGED early
  <2>1. UNCHANGED <<articles, intake, posts, cycle>> /\ now <= now'
    BY <1>3 DEF TickStep, PassTime, Tick, vars, storeVars, store, channels, IInv, KeysInv, CycleInv,
       StoreTypeOK
  <2>2. now \in Nat /\ now' \in Nat /\ articles \in [Article -> ArticleRow] /\ posts \subseteq Job \X Nat
        /\ intake \in [Process -> IntakeType] /\ cycle \in [Process -> CycleType]
    BY <1>3 DEF TickStep, PassTime, Tick, vars, storeVars, IInv, KeysInv, CycleInv, StoreTypeOK,
       IntakeTypeOK, IntakeType, CycleTypeOK, CycleType
  <2>3. \A a, n \in Nat : n <= now => n <= now'
    BY <2>1, <2>2
  <2>4. /\ \A a \in Article : articles[a].ts \in Nat
        /\ \A a \in Article : intake[p].items[a].ts \in Nat
        /\ \A post \in posts : post[2] \in Nat
        /\ cycle[p].at \in Nat
    BY <2>2 DEF ArticleRow, IntakeType, CycleType
  <2>5. \A a : \A ts \in Nat : Came(a, ts, now) => ts <= now' \/ <<a, ts>> \in early'
    BY <1>3, <2>2, <2>3 DEF Came
  <2>6. /\ \A a \in Article : Came(a, articles[a].ts, now)'
        /\ \A a \in Article : Came(a, intake[p].items[a].ts, now)'
        /\ \A post \in posts : Came(post[1][1], post[2], now)'
    BY <2>1, <2>4, <2>5 DEF Timed, Came
  <2>7. cycle[p].at <= now => cycle[p].at <= now'
    BY <2>3, <2>4
  <2> QED
    BY <1>3, <2>1, <2>6, <2>7 DEF Timed, Came
<1>4. CASE Crash(p) /\ UNCHANGED early
  <2>1. /\ UNCHANGED <<articles, posts, now>> /\ cycle'[p] = Idle
        /\ intake'[p] = NoIntake
    BY <1>4, CrashLeaves DEF Crash, storeVars, store, channels, IInv, IntakeTypeOK
  <2>2. \A a \in Article : NoIntake.items[a].ts <= now
    BY DEF NoIntake, NoItems, NoArticle, IInv, KeysInv, CycleInv, StoreTypeOK
  <2> QED
    BY <1>4, <2>1, <2>2 DEF Timed, Came, Idle, Working
<1>5. CASE IngestStep(p) /\ UNCHANGED early
  <2>1. IngestStepH(p) \/ UNCHANGED vars \/ TickStep \/ StartCycle(p) \/ CycleStepOf(p) \/ Crash(p)
    BY DEF NextH, varsH
  <2> QED
    BY <1>1, <1>2, <1>3, <1>4, <1>5, <2>1
<1> QED
  BY <1>0, <1>1, <1>2, <1>3, <1>4, <1>5 DEF Next

(***************************************************************************)
(* Order.                                                                  *)
(***************************************************************************)
Forward ==
    \A new \in posts' \ posts : \A old \in posts :
        new[1] = old[1] /\ <<old[1][1], old[2]>> \notin early => old[2] < new[2]

LEMMA SendOrdered ==
    ASSUME IInv, OrderInv, NEW p, Process = {p}, "lost_reply" \notin Outcome, Send(p), GoesOn(p),
           UNCHANGED early
    PROVE  /\ Ordered'
           /\ Forward
<1> DEFINE job == cycle[p].job
           v == cycle[p].article.ts
<1>1. PICK outcome \in Outcome :
        /\ IF outcome = "rejected" THEN UNCHANGED channels ELSE PostTo(job, v)
        /\ cycle' = [cycle EXCEPT ![p].success = (outcome = "ok"), ![p].step = "record"]
  BY DEF Send
<1>2. outcome \in {"ok", "rejected"}
  BY ProcessorAssumption DEF ProcessorAssumption
<1>3. cycle[p].step = "send" /\ UNCHANGED <<delivered, legacyKeys>>
  BY DEF Send, store
<1>4. /\ cycle'[p].step = "record" /\ cycle'[p].job = job
      /\ outcome = "ok" => cycle'[p].success
  <2>1. cycle \in [Process -> CycleType]
    BY DEF IInv, KeysInv, CycleInv, CycleTypeOK, CycleType
  <2> QED
    BY <1>1, <2>1 DEF CycleType
<1>5. \A post \in posts :
        /\ post[1] \in legacyKeys
        /\ delivered[post[1]] = 0 \/ Came(post[1][1], post[2], delivered[post[1]])
  BY <1>3 DEF OrderInv, Ordered, Marking, Recording
<1>6. CASE outcome = "rejected"
  BY <1>1, <1>3, <1>4, <1>5, <1>6 DEF Ordered, Forward, Came, channels
<1>7. CASE outcome = "ok"
  <2>1. posts' = posts \cup {<<job, v>>}
    BY <1>1, <1>7 DEF PostTo
  <2>2. Marking(cycle'[p], job) /\ Recording(cycle'[p], job)
    BY <1>4, <1>7 DEF Marking, Recording
  <2>3. Ordered'
    BY <1>3, <1>4, <1>5, <2>1, <2>2 DEF Ordered, Came
  <2>4. ASSUME NEW old \in posts, old[1] = job, <<old[1][1], old[2]>> \notin early PROVE old[2] < v
    <3>1. delivered[job] # 0 /\ delivered[job] < v
      BY <1>3, <1>5, <2>4 DEF OrderInv, Ordered
    <3>2. old[2] <= delivered[job]
      BY <1>5, <2>4, <3>1 DEF Came
    <3>3. old[2] \in Nat /\ delivered[job] \in Nat /\ v \in Nat
      <4>1. job \in Job /\ v \in Nat
        BY <1>3, WorkingJob DEF Working, IInv, KeysInv, ArticleRow
      <4> QED
        BY <4>1 DEF IInv, KeysInv, CycleInv, StoreTypeOK
    <3> QED
      BY <3>1, <3>2, <3>3
  <2> QED
    BY <2>1, <2>3, <2>4 DEF Forward
<1> QED
  BY <1>2, <1>6, <1>7

LEMMA RecordOrdered ==
    ASSUME IInv, OrderInv, NEW p, Process = {p}, Record(p), GoesOn(p), UNCHANGED early
    PROVE  Ordered'
<1> DEFINE job == cycle[p].job
<1>1. cycle[p].step = "record" /\ UNCHANGED <<posts, legacyKeys>>
  BY DEF Record, channels
<1>2. /\ cycle'[p].step = IF cycle[p].success THEN "markLegacy" ELSE "saveJob"
      /\ cycle'[p].job = job /\ cycle'[p].success = cycle[p].success
  <2>1. cycle \in [Process -> CycleType]
    BY DEF IInv, KeysInv, CycleInv, CycleTypeOK, CycleType
  <2> QED
    BY <2>1 DEF Record, CycleType
<1>3. job \in Job /\ delivered \in [Job -> Nat]
  BY <1>1, WorkingJob DEF Working, IInv, KeysInv, CycleInv, StoreTypeOK
<1>4. delivered' = [delivered EXCEPT ![job] = IF cycle[p].success THEN cycle[p].at ELSE 0]
  BY DEF Record, RecordDelivery
<1>5. \A post \in posts : post[1] \in Job /\ Came(post[1][1], post[2], cycle[p].at)
  BY <1>1 DEF OrderInv, Timed, IInv, KeysInv, CycleInv, StoreTypeOK
<1>6. ASSUME NEW post \in posts
      PROVE  /\ post[1] \in legacyKeys \/ Marking(cycle'[p], post[1])
             /\ delivered'[post[1]] = 0 \/ Came(post[1][1], post[2], delivered'[post[1]])
  <2>1. post[1] \in legacyKeys \/ Marking(cycle[p], post[1])
    BY DEF OrderInv, Ordered
  <2>2. Marking(cycle[p], post[1]) => Marking(cycle'[p], post[1])
    BY <1>1, <1>2 DEF Marking
  <2>3. CASE post[1] = job
    BY <1>3, <1>4, <1>5, <2>1, <2>2, <2>3
  <2>4. CASE post[1] # job
    <3>1. delivered'[post[1]] = delivered[post[1]]
      BY <1>3, <1>4, <1>5, <2>4
    <3>2. delivered[post[1]] = 0 \/ Came(post[1][1], post[2], delivered[post[1]])
      BY <2>4 DEF OrderInv, Ordered, Recording
    <3> QED
      BY <2>1, <2>2, <3>1, <3>2
  <2> QED
    BY <2>3, <2>4
<1> QED
  BY <1>1, <1>2, <1>6 DEF Ordered, Came

LEMMA CycleOrdered ==
    ASSUME IInv, OrderInv, NEW p, Process = {p}, "lost_reply" \notin Outcome,
           RecoverLeases(p) \/ PublishBatch(p), UNCHANGED early
    PROVE  /\ Ordered'
           /\ Forward
<1>0. cycle \in [Process -> CycleType]
  BY DEF IInv, KeysInv, CycleInv, CycleTypeOK, CycleType
<1>1. CASE Pauses(p)
  BY <1>1 DEF Pauses, Between, OrderInv, Ordered, Came, Forward, Marking, Recording, channels
<1>2. CASE Loads(p)
  <2>1. UNCHANGED <<posts, legacyKeys, delivered>> /\ cycle[p].step = "load"
    BY <1>2 DEF Loads, store, channels
  <2>2. \A j : ~Marking(cycle[p], j) /\ ~Recording(cycle[p], j)
    BY <2>1 DEF Marking, Recording
  <2>3. PICK j \in Held(cycle[p]) :
          /\ cycle'[p].job = j /\ cycle'[p].article = articles[j[1]]
          /\ cycle'[p].step = IF AlreadyDelivered(j, articles[j[1]].ts) THEN "record" ELSE "send"
    BY <1>2 DEF Loads
  <2>4. j \in Job /\ j[1] \in Article /\ delivered[j] \in Nat /\ articles[j[1]].ts \in Nat
    BY DEF Held, Job, IInv, KeysInv, CycleInv, StoreTypeOK, ArticleRow
  <2>5. cycle'[p].step = "send" =>
          \/ j \notin legacyKeys
          \/ delivered[j] # 0 /\ delivered[j] < articles[j[1]].ts
    BY <2>3, <2>4 DEF AlreadyDelivered
  <2> QED
    BY <2>1, <2>2, <2>3, <2>5 DEF OrderInv, Ordered, Came, Forward
<1>3. CASE GoesOn(p) /\ Send(p)
  BY <1>3, SendOrdered
<1>4. CASE GoesOn(p) /\ Record(p)
  BY <1>4, RecordOrdered DEF Record, channels, Forward
<1>5. CASE GoesOn(p) /\ MarkLegacy(p)
  <2>1. /\ UNCHANGED <<posts, delivered>> /\ legacyKeys' = legacyKeys \cup {cycle[p].job}
        /\ cycle[p].step = "markLegacy"
    BY <1>5 DEF MarkLegacy, channels
  <2>2. cycle'[p].step = "markVersion"
    BY <1>0, <1>5 DEF MarkLegacy, CycleType
  <2> QED
    BY <2>1, <2>2 DEF OrderInv, Ordered, Came, Forward, Marking, Recording
<1>6. CASE GoesOn(p) /\ (MarkVersion(p) \/ SaveArticle(p))
  <2>1. /\ UNCHANGED <<posts, delivered, legacyKeys>>
        /\ cycle[p].step \in {"markVersion", "saveArticle"}
    BY <1>6 DEF MarkVersion, SaveArticle, channels
  <2>2. cycle'[p].step \in {"saveArticle", "saveJob"}
    BY <1>0, <1>6 DEF MarkVersion, SaveArticle, CycleType
  <2> QED
    BY <2>1, <2>2 DEF OrderInv, Ordered, Came, Forward, Marking, Recording
<1> QED
  BY <1>1, <1>2, <1>3, <1>4, <1>5, <1>6, CycleMoves DEF IInv, KeysInv

LEMMA NextOrder ==
    ASSUME NEW p, Process = {p}, ~Crashes, "lost_reply" \notin Outcome,
           IInv, OrderInv, [NextH]_varsH
    PROVE  /\ OrderInv'
           /\ Forward
<1>0. [Next]_vars /\ (UNCHANGED early \/ IngestStepH(p))
  BY HistorySteps
<1>1. Timed'
  BY NextTimed DEF OrderInv
<1>2. CASE (RecoverLeases(p) \/ PublishBatch(p)) /\ UNCHANGED early
  BY <1>1, <1>2, CycleOrdered DEF OrderInv
<1>3. CASE ~(RecoverLeases(p) \/ PublishBatch(p)) \/ IngestStepH(p)
  <2>1. UNCHANGED <<cycle, legacyKeys, delivered, posts>>
    <3>1. CASE IngestStepH(p)
      BY <3>1 DEF IngestStepH, IngestStep, Ingest, Fetch, Filter, QueueJob, SaveItem, storeVars, store,
         channels
    <3>2. CASE ~(RecoverLeases(p) \/ PublishBatch(p))
      BY <1>0, <3>2, OtherSteps DEF Crash, LoseCycle
    <3> QED
      BY <1>3, <3>1, <3>2
  <2>2. early \subseteq early'
    BY <1>0 DEF IngestStepH
  <2> QED
    BY <1>1, <2>1, <2>2 DEF OrderInv, Ordered, Came, Forward
<1> QED
  BY <1>0, <1>2, <1>3

LEMMA HistoryInvariance == SpecH => []IInv
<1>1. InitH => IInv
  BY InitIInv DEF InitH
<1>2. IInv /\ [NextH]_varsH => IInv'
  BY NextIInv, HistorySteps
<1> QED
  BY <1>1, <1>2, PTL DEF SpecH

(***************************************************************************)
(* Under the same conditions, and with cycles of any length, no            *)
(* destination receives an older version of an article after a newer one,  *)
(* unless the feed listed the newer one before its date: for all others    *)
(* the comparison of news dates with delivery times sees to it, though     *)
(* feeds list old copies again and retries delay new ones.                 *)
(***************************************************************************)
THEOREM VersionsGoForward ==
    ASSUME NEW p, Process = {p}, ~Crashes, "lost_reply" \notin Outcome
    PROVE  SpecH => NeverRegresses
<1>1. IInv /\ OrderInv /\ [NextH]_varsH => OrderInv'
  BY NextOrder
<1>2. IInv /\ OrderInv /\ [NextH]_varsH =>
        [\A new \in posts' \ posts : \A old \in posts :
            new[1] = old[1] /\ <<old[1][1], old[2]>> \notin early => old[2] < new[2]]_varsH
  BY NextOrder DEF Forward
<1> QED
  BY <1>1, <1>2, InitOrder, HistoryInvariance, PTL DEF SpecH, NeverRegresses

=============================================================================
