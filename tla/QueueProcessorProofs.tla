------------------------ MODULE QueueProcessorProofs ------------------------
(***************************************************************************)
(* What every step of a publication cycle preserves, whatever composes it: *)
(* RuntimeTickProofs and ProcessorPoolProofs cite these lemmas.            *)
(***************************************************************************)
EXTENDS QueueProcessor, TLAPS

(***************************************************************************)
(* A cycle that works on a job still holds its row.                        *)
(***************************************************************************)
Working == {"send", "record", "markLegacy", "markVersion", "saveArticle", "saveJob"}

WorkingHeld ==
    \A p \in Process : cycle[p].step \in Working => cycle[p].job \in Held(cycle[p])

(***************************************************************************)
(* Types and working state together are inductive.                         *)
(***************************************************************************)
CycleInv == StoreTypeOK /\ CycleTypeOK /\ WorkingHeld

-----------------------------------------------------------------------------
(***************************************************************************)
(* Rows of the queue: what the writes put there.                           *)
(***************************************************************************)
LEMMA UpsertType ==
    ASSUME NEW old \in JobRow, NEW new \in JobRow
    PROVE  /\ Upsert(old, new) \in JobRow
           /\ Upsert(old, new).status = new.status
           /\ Upsert(old, new).lease = new.lease
           /\ Upsert(old, new).attempts = new.attempts
BY DEF Upsert, JobRow, Status

LEMMA RowTypes ==
    ASSUME NEW row \in JobRow, NEW t \in Nat
    PROVE  /\ Claimed(row, t) \in JobRow
           /\ Recovered(row) \in JobRow
           /\ DeadLetter(row) \in JobRow
           /\ Succeeded(row) \in JobRow
           /\ Failed(row, t) \in JobRow
<1>1. Claimed(row, t) \in JobRow
  <2>1. t + Lease \in Nat /\ row.attempts + 1 \in Nat
    BY StoreAssumption DEF StoreAssumption, JobRow
  <2> QED
    BY <2>1 DEF Claimed, JobRow, Status
<1>2. Recovered(row) \in JobRow
  BY DEF Recovered, JobRow, Status
<1>3. DeadLetter(row) \in JobRow /\ Succeeded(row) \in JobRow
  BY DEF DeadLetter, Succeeded, JobRow, Status
<1>4. Failed(row, t) \in JobRow
  <2>1. CASE row.attempts >= MaxAttempts
    BY <2>1, <1>3 DEF Failed
  <2>2. CASE ~(row.attempts >= MaxAttempts)
    <3>1. row.attempts \in 0 .. MaxAttempts
      BY <2>2, StoreAssumption DEF StoreAssumption, JobRow
    <3>2. Backoff(row.attempts) \in Nat
      BY <3>1, BackoffAssumption DEF BackoffAssumption
    <3>3. \A due \in Nat : [row EXCEPT !.status = "retrying", !.lease = 0, !.next = due] \in JobRow
      BY DEF JobRow, Status
    <3>4. t + Backoff(row.attempts) \in Nat
      BY <3>2
    <3> QED
      BY <2>2, <3>3, <3>4 DEF Failed
  <2> QED
    BY <2>1, <2>2
<1> QED
  BY <1>1, <1>2, <1>3, <1>4

LEMMA SaveJobType ==
    ASSUME StoreTypeOK, NEW j \in Job, NEW row \in JobRow, SaveJob(j, row)
    PROVE  jobs' \in [Job -> JobRow]
BY UpsertType DEF SaveJob, StoreTypeOK

LEMMA RecoverType ==
    ASSUME StoreTypeOK, NEW t \in Nat, RecoverExpiredLeases(t)
    PROVE  jobs' \in [Job -> JobRow]
BY UpsertType, RowTypes DEF RecoverExpiredLeases, StoreTypeOK

LEMMA NoRowType == NoRow \in JobRow /\ NoArticle \in ArticleRow
BY DEF NoRow, NoArticle, JobRow, ArticleRow, Status

(***************************************************************************)
(* The record type of a cycle, and the values a cycle takes.               *)
(***************************************************************************)
CycleType ==
    [step : CycleStep, at : Nat, batch : [Job -> JobRow], job : Job \cup {NoJob},
     article : ArticleRow, success : BOOLEAN]

LEMMA IdleType == Idle \in CycleType /\ Held(Idle) = {}
<1>1. NoBatch \in [Job -> JobRow] /\ \A j \in Job : NoBatch[j].status = "absent"
  BY NoRowType DEF NoBatch, NoRow
<1> QED
  BY <1>1, NoRowType DEF Idle, CycleType, CycleStep, Held

LEMMA RemainingType ==
    ASSUME NEW c \in CycleType, NEW j \in Job
    PROVE  /\ Remaining(c, j) \in CycleType
           /\ Remaining(c, j).step \in {"idle", "load"}
           /\ Held(Remaining(c, j)) = Held(c) \ {j}
           /\ Remaining(c, j).step = "idle" => Held(c) = {j}
           /\ Remaining(c, j).step = "load" => Remaining(c, j).at = c.at
<1>1. CASE Held(c) = {j}
  BY <1>1, IdleType DEF Remaining, Idle
<1>2. CASE Held(c) # {j}
  <2>1. [c.batch EXCEPT ![j] = NoRow] \in [Job -> JobRow]
    BY NoRowType DEF CycleType
  <2>2. Remaining(c, j) = [Idle EXCEPT !.step = "load", !.at = c.at,
                                      !.batch = [c.batch EXCEPT ![j] = NoRow]]
    BY <1>2 DEF Remaining
  <2>3. Held(Remaining(c, j)) = Held(c) \ {j}
    BY <2>1, <2>2 DEF Held, NoRow, Idle, CycleType
  <2> QED
    BY <2>1, <2>2, <2>3, IdleType DEF CycleType, CycleStep, Idle
<1> QED
  BY <1>1, <1>2

(***************************************************************************)
(* A step that changes one cycle, and leaves it well formed.               *)
(***************************************************************************)
LEMMA CycleStepInv ==
    ASSUME CycleTypeOK, WorkingHeld, NEW p \in Process, NEW c \in CycleType,
           c.step \in Working => c.job \in Held(c),
           cycle' = [cycle EXCEPT ![p] = c]
    PROVE  CycleTypeOK' /\ WorkingHeld'
<1>1. CycleTypeOK'
  BY DEF CycleTypeOK, CycleType
<1>2. \A q \in Process : cycle'[q] = IF q = p THEN c ELSE cycle[q]
  BY DEF CycleTypeOK
<1> QED
  BY <1>1, <1>2 DEF WorkingHeld

LEMMA CycleOfType ==
    ASSUME CycleTypeOK, NEW p \in Process
    PROVE  /\ cycle[p] \in CycleType
           /\ Held(cycle[p]) \subseteq Job
BY DEF CycleTypeOK, CycleType, Held

LEMMA RecoverLeasesInv ==
    ASSUME CycleInv, NEW p \in Process, RecoverLeases(p)
    PROVE  CycleInv'
<1> DEFINE c == [Idle EXCEPT !.step = "select", !.at = now]
<1>1. c \in CycleType /\ c.step \notin Working
  BY IdleType DEF CycleInv, StoreTypeOK, CycleType, CycleStep, Working
<1>2. cycle' = [cycle EXCEPT ![p] = c]
  BY DEF RecoverLeases
<1> HIDE DEF c
<1>3. CycleTypeOK' /\ WorkingHeld'
  BY <1>1, <1>2, CycleStepInv DEF CycleInv
<1>4. StoreTypeOK'
  BY RecoverType DEF CycleInv, RecoverLeases, StoreTypeOK, channels
<1> QED
  BY <1>3, <1>4 DEF CycleInv

LEMMA SelectBatchInv ==
    ASSUME CycleInv, NEW p \in Process, SelectBatch(p)
    PROVE  CycleInv'
<1>1. PICK S \in SUBSET Candidates(cycle[p].at) :
        LET t == cycle[p].at
            claimed == Batch(S, t)
        IN  /\ jobs' = [j \in Job |-> IF j \in claimed THEN Claimed(jobs[j], t) ELSE jobs[j]]
            /\ cycle' = [cycle EXCEPT ![p] =
                  IF claimed = {} THEN Idle
                  ELSE [@ EXCEPT !.step = "load",
                                 !.batch = [j \in Job |-> IF j \in claimed
                                                          THEN Claimed(jobs[j], t)
                                                          ELSE NoRow]]]
  BY DEF SelectBatch
<1> DEFINE t == cycle[p].at
           claimed == Batch(S, t)
           batch == [j \in Job |-> IF j \in claimed THEN Claimed(jobs[j], t) ELSE NoRow]
           c == IF claimed = {} THEN Idle ELSE [cycle[p] EXCEPT !.step = "load", !.batch = batch]
<1>2. t \in Nat /\ cycle[p] \in CycleType
  BY CycleOfType DEF CycleInv, CycleType
<1>3. \A j \in Job : Claimed(jobs[j], t) \in JobRow
  BY <1>2, RowTypes DEF CycleInv, StoreTypeOK
<1>4. jobs' \in [Job -> JobRow]
  BY <1>1, <1>3 DEF CycleInv, StoreTypeOK
<1>5. batch \in [Job -> JobRow]
  BY <1>3, NoRowType
<1>6. c \in CycleType /\ c.step \notin Working
  <2> HIDE DEF batch, claimed
  <2>1. CASE claimed = {}
    BY <2>1, IdleType DEF Idle, Working
  <2>2. CASE claimed # {}
    BY <2>2, <1>2, <1>5 DEF CycleType, CycleStep, Working
  <2> QED
    BY <2>1, <2>2
<1>7. cycle' = [cycle EXCEPT ![p] = c]
  BY <1>1 DEF CycleInv, CycleTypeOK
<1> HIDE DEF c
<1>8. CycleTypeOK' /\ WorkingHeld'
  BY <1>6, <1>7, CycleStepInv DEF CycleInv
<1>9. StoreTypeOK'
  BY <1>4 DEF CycleInv, SelectBatch, StoreTypeOK, channels
<1> QED
  BY <1>8, <1>9 DEF CycleInv

LEMMA LoadArticleInv ==
    ASSUME CycleInv, NEW p \in Process, LoadArticle(p)
    PROVE  CycleInv'
<1>1. PICK j \in Heads(cycle[p]) :
        LET article == articles[j[1]]
            skip == AlreadyDelivered(j, article.ts)
        IN  IF ~article.stored \/ j[2] \notin Publisher
            THEN /\ SaveJob(j, DeadLetter(cycle[p].batch[j]))
                 /\ cycle' = [cycle EXCEPT ![p] = Remaining(@, j)]
            ELSE /\ cycle' = [cycle EXCEPT ![p].job = j,
                                           ![p].article = article,
                                           ![p].success = skip,
                                           ![p].step = IF skip THEN "record" ELSE "send"]
                 /\ UNCHANGED jobs
  BY DEF LoadArticle
<1>2. cycle[p] \in CycleType /\ j \in Held(cycle[p]) /\ j \in Job
  BY CycleOfType DEF CycleInv, Heads
<1>3. articles[j[1]] \in ArticleRow
  BY <1>2 DEF CycleInv, StoreTypeOK, Job
<1>4. CASE ~articles[j[1]].stored \/ j[2] \notin Publisher
  <2>1. cycle' = [cycle EXCEPT ![p] = Remaining(cycle[p], j)]
    BY <1>1, <1>4 DEF CycleInv, CycleTypeOK
  <2>2. CycleTypeOK' /\ WorkingHeld'
    <3>1. Remaining(cycle[p], j) \in CycleType /\ Remaining(cycle[p], j).step \notin Working
      BY <1>2, RemainingType DEF Working
    <3> QED
      BY <2>1, <3>1, CycleStepInv DEF CycleInv
  <2>3. jobs' \in [Job -> JobRow]
    <3>1. DeadLetter(cycle[p].batch[j]) \in JobRow
      BY <1>2, RowTypes DEF CycleType
    <3> QED
      BY <1>1, <1>2, <1>4, <3>1, SaveJobType DEF CycleInv
  <2> QED
    BY <2>2, <2>3 DEF CycleInv, LoadArticle, StoreTypeOK, channels
<1>5. CASE ~(~articles[j[1]].stored \/ j[2] \notin Publisher)
  <2> DEFINE skip == AlreadyDelivered(j, articles[j[1]].ts)
             c == [cycle[p] EXCEPT !.job = j, !.article = articles[j[1]], !.success = skip,
                                   !.step = IF skip THEN "record" ELSE "send"]
  <2>1. skip \in BOOLEAN
    BY DEF AlreadyDelivered
  <2>2. cycle' = [cycle EXCEPT ![p] = c] /\ UNCHANGED jobs
    BY <1>1, <1>5 DEF CycleInv, CycleTypeOK
  <2> HIDE DEF skip
  <2>3. c \in CycleType /\ c.job = j /\ c.batch = cycle[p].batch
    BY <2>1, <1>2, <1>3 DEF CycleType, CycleStep
  <2>4. c.job \in Held(c)
    BY <2>3, <1>2 DEF Held
  <2> HIDE DEF c
  <2>5. CycleTypeOK' /\ WorkingHeld'
    BY <2>2, <2>3, <2>4, CycleStepInv DEF CycleInv
  <2> QED
    BY <2>2, <2>5 DEF CycleInv, LoadArticle, StoreTypeOK, channels
<1> QED
  BY <1>4, <1>5

(***************************************************************************)
(* A cycle that goes on with the job it works on, knowing its outcome.     *)
(***************************************************************************)
LEMMA AdvanceInv ==
    ASSUME CycleTypeOK, WorkingHeld, NEW p \in Process,
           cycle[p].step \in Working, NEW s \in Working, NEW b \in BOOLEAN,
           cycle' = [cycle EXCEPT ![p] = [@ EXCEPT !.step = s, !.success = b]]
    PROVE  CycleTypeOK' /\ WorkingHeld'
<1> DEFINE c == [cycle[p] EXCEPT !.step = s, !.success = b]
<1>1. cycle[p] \in CycleType
  BY CycleOfType
<1>2. c \in CycleType /\ c.job = cycle[p].job /\ c.batch = cycle[p].batch
  BY <1>1 DEF CycleType, CycleStep, Working
<1>3. c.job \in Held(c)
  BY <1>2 DEF WorkingHeld, Held
<1>4. cycle' = [cycle EXCEPT ![p] = c]
  BY DEF CycleTypeOK
<1> HIDE DEF c
<1> QED
  BY <1>2, <1>3, <1>4, CycleStepInv

LEMMA AdvanceStep ==
    ASSUME CycleTypeOK, NEW p \in Process, NEW s \in Working,
           cycle' = [cycle EXCEPT ![p].step = s]
    PROVE  cycle' = [cycle EXCEPT ![p] = [@ EXCEPT !.step = s, !.success = cycle[p].success]]
BY DEF CycleTypeOK

LEMMA WorkingJob ==
    ASSUME CycleInv, NEW p \in Process, cycle[p].step \in Working
    PROVE  /\ cycle[p].job \in Job /\ cycle[p].job[1] \in Article
           /\ cycle[p].at \in Nat /\ cycle[p].success \in BOOLEAN
           /\ cycle[p].article \in ArticleRow
           /\ cycle[p].batch[cycle[p].job] \in JobRow
<1>1. cycle[p].job \in Job
  BY DEF CycleInv, WorkingHeld, Held
<1> QED
  BY <1>1, CycleOfType DEF CycleInv, CycleType, Job

LEMMA PublishInv ==
    ASSUME CycleInv, NEW p \in Process,
           Send(p) \/ Record(p) \/ MarkLegacy(p) \/ MarkVersion(p) \/ SaveArticle(p)
    PROVE  CycleInv'
<1>1. cycle[p].step \in Working
  BY DEF Send, Record, MarkLegacy, MarkVersion, SaveArticle, Working
<1>2. /\ cycle[p].job \in Job /\ cycle[p].job[1] \in Article
      /\ cycle[p].at \in Nat /\ cycle[p].success \in BOOLEAN
      /\ cycle[p].article \in ArticleRow
  BY <1>1, WorkingJob
<1>3. CycleTypeOK' /\ WorkingHeld'
  <2>1. CASE Send(p)
    <3>1. PICK outcome \in Outcome :
            cycle' = [cycle EXCEPT ![p].success = (outcome = "ok"), ![p].step = "record"]
      BY <2>1 DEF Send
    <3>2. cycle' = [cycle EXCEPT ![p] = [@ EXCEPT !.step = "record", !.success = (outcome = "ok")]]
      BY <3>1 DEF CycleInv, CycleTypeOK
    <3>3. "record" \in Working /\ (outcome = "ok") \in BOOLEAN
      BY DEF Working
    <3> QED
      BY <1>1, <3>2, <3>3, AdvanceInv DEF CycleInv
  <2>2. CASE ~Send(p)
    <3>1. PICK s \in Working : cycle' = [cycle EXCEPT ![p].step = s]
      BY <2>2 DEF Record, MarkLegacy, MarkVersion, SaveArticle, Working
    <3>2. cycle' = [cycle EXCEPT ![p] = [@ EXCEPT !.step = s, !.success = cycle[p].success]]
      BY <3>1, AdvanceStep DEF CycleInv
    <3> QED
      BY <1>1, <1>2, <3>2, AdvanceInv DEF CycleInv
  <2> QED
    BY <2>1, <2>2
<1>4. StoreTypeOK'
  <2>1. CASE Send(p)
    BY <1>2, <2>1 DEF CycleInv, Send, PostTo, StoreTypeOK, store, channels, ArticleRow
  <2>2. CASE Record(p)
    BY <1>2, <2>2 DEF CycleInv, Record, RecordDelivery, StoreTypeOK, channels
  <2>3. CASE MarkLegacy(p)
    BY <1>2, <2>3 DEF CycleInv, MarkLegacy, StoreTypeOK, channels
  <2>4. CASE MarkVersion(p)
    BY <1>2, <2>4 DEF CycleInv, MarkVersion, StoreTypeOK, channels, ArticleRow
  <2>5. CASE SaveArticle(p)
    <3>1. [cycle[p].article EXCEPT !.sent = cycle[p].at] \in ArticleRow
      BY <1>2 DEF ArticleRow
    <3> QED
      BY <1>2, <2>5, <3>1 DEF CycleInv, SaveArticle, StoreTypeOK, channels
  <2> QED
    BY <2>1, <2>2, <2>3, <2>4, <2>5
<1> QED
  BY <1>3, <1>4 DEF CycleInv

LEMMA FinishJobInv ==
    ASSUME CycleInv, NEW p \in Process, FinishJob(p)
    PROVE  CycleInv'
<1> DEFINE j == cycle[p].job
           row == cycle[p].batch[j]
<1>1. j \in Job /\ row \in JobRow /\ cycle[p].at \in Nat
  BY WorkingJob DEF FinishJob, Working
<1>2. /\ SaveJob(j, IF cycle[p].success THEN Succeeded(row) ELSE Failed(row, cycle[p].at))
      /\ cycle' = [cycle EXCEPT ![p] = Remaining(cycle[p], j)]
  BY DEF FinishJob, CycleInv, CycleTypeOK
<1>3. cycle[p] \in CycleType
  BY CycleOfType DEF CycleInv
<1> HIDE DEF row, j
<1>4. jobs' \in [Job -> JobRow]
  <2>1. (IF cycle[p].success THEN Succeeded(row) ELSE Failed(row, cycle[p].at)) \in JobRow
    BY <1>1, RowTypes
  <2> QED
    BY <1>1, <1>2, <2>1, SaveJobType DEF CycleInv
<1>5. CycleTypeOK' /\ WorkingHeld'
  <2>1. Remaining(cycle[p], j) \in CycleType /\ Remaining(cycle[p], j).step \notin Working
    BY <1>1, <1>3, RemainingType DEF Working
  <2> QED
    BY <1>2, <2>1, CycleStepInv DEF CycleInv
<1> QED
  BY <1>4, <1>5 DEF CycleInv, FinishJob, StoreTypeOK, channels

LEMMA PublishBatchInv ==
    ASSUME CycleInv, NEW p \in Process, PublishBatch(p)
    PROVE  CycleInv'
BY SelectBatchInv, LoadArticleInv, PublishInv, FinishJobInv DEF PublishBatch

(***************************************************************************)
(* What a process loses when it dies, and what it costs to let time pass.  *)
(***************************************************************************)
LEMMA LoseCycleInv ==
    ASSUME CycleInv, NEW p \in Process, LoseCycle(p), UNCHANGED storeVars
    PROVE  CycleInv'
<1>1. Idle.step \notin Working /\ cycle' = [cycle EXCEPT ![p] = Idle]
  BY DEF Idle, Working, LoseCycle
<1>2. CycleTypeOK' /\ WorkingHeld'
  BY <1>1, IdleType, CycleStepInv DEF CycleInv
<1> QED
  BY <1>2 DEF CycleInv, StoreTypeOK, storeVars, store, channels

LEMMA PassTimeInv ==
    ASSUME CycleInv, PassTime
    PROVE  CycleInv'
BY DEF CycleInv, PassTime, Tick, StoreTypeOK, CycleTypeOK, WorkingHeld, Held, store, channels

-----------------------------------------------------------------------------
(***************************************************************************)
(* Acknowledgement: what a cycle that is about to mark a key, or to        *)
(* acknowledge its job, can rely on.  Neither AcknowledgedHasKey nor       *)
(* KeyHasPost is inductive without it: a cycle's step says nothing of the  *)
(* keys and posts its earlier steps left.                                  *)
(***************************************************************************)
KeyProgress ==
    \A p \in Process :
        /\ \/ cycle[p].step \in {"markVersion", "saveArticle"}
           \/ cycle[p].step = "saveJob" /\ cycle[p].success
           => cycle[p].job \in legacyKeys
        /\ \/ cycle[p].step = "markLegacy"
           \/ cycle[p].step = "record" /\ cycle[p].success
           => \E post \in posts : post[1] = cycle[p].job

KeysInv == CycleInv /\ AcknowledgedHasKey /\ KeyHasPost /\ KeyProgress

LEMMA OtherCycles ==
    ASSUME CycleTypeOK, NEW p \in Process, NEW c, cycle' = [cycle EXCEPT ![p] = c]
    PROVE  \A q \in Process : cycle'[q] = IF q = p THEN c ELSE cycle[q]
BY DEF CycleTypeOK

(***************************************************************************)
(* A step that keeps the keys and posts, and leaves its cycle between two  *)
(* jobs, disturbs nothing but the acknowledged jobs.                       *)
(***************************************************************************)
LEMMA BetweenJobs ==
    ASSUME KeysInv, NEW p \in Process, NEW c, cycle' = [cycle EXCEPT ![p] = c],
           c.step \in {"idle", "select", "load"},
           UNCHANGED <<legacyKeys, versionKeys, posts>>
    PROVE  KeyHasPost' /\ KeyProgress'
<1>1. \A q \in Process : cycle'[q] = IF q = p THEN c ELSE cycle[q]
  BY OtherCycles DEF KeysInv, CycleInv
<1>2. KeyHasPost'
  BY DEF KeysInv, KeyHasPost
<1>3. KeyProgress'
  BY <1>1 DEF KeysInv, KeyProgress
<1> QED
  BY <1>2, <1>3

LEMMA RecoverLeasesKeys ==
    ASSUME KeysInv, NEW p \in Process, RecoverLeases(p)
    PROVE  KeysInv'
<1>1. CycleInv'
  BY RecoverLeasesInv DEF KeysInv
<1>2. KeyHasPost' /\ KeyProgress'
  BY BetweenJobs DEF RecoverLeases, channels, Idle
<1>3. \A j \in Job : jobs'[j].status = "succeeded" => jobs[j].status = "succeeded"
  <2> SUFFICES ASSUME NEW j \in Job, jobs'[j].status = "succeeded"
               PROVE  jobs[j].status = "succeeded"
    OBVIOUS
  <2>1. now \in Nat /\ jobs[j] \in JobRow
    BY DEF KeysInv, CycleInv, StoreTypeOK
  <2>2. Recovered(jobs[j]) \in JobRow /\ Recovered(jobs[j]).status # "succeeded"
    BY <2>1, RowTypes DEF Recovered, JobRow
  <2>3. jobs'[j] = IF j \in Stale(now) THEN Upsert(jobs[j], Recovered(jobs[j])) ELSE jobs[j]
    BY DEF RecoverLeases, RecoverExpiredLeases
  <2> QED
    BY <2>1, <2>2, <2>3, UpsertType
<1>4. AcknowledgedHasKey'
  BY <1>3 DEF KeysInv, AcknowledgedHasKey, RecoverLeases
<1> QED
  BY <1>1, <1>2, <1>4 DEF KeysInv

LEMMA SelectBatchKeys ==
    ASSUME KeysInv, NEW p \in Process, SelectBatch(p)
    PROVE  KeysInv'
<1>1. CycleInv'
  BY SelectBatchInv DEF KeysInv
<1>2. KeyHasPost' /\ KeyProgress'
  <2>1. PICK c : cycle' = [cycle EXCEPT ![p] = c] /\ c.step \in {"idle", "load"}
    <3>1. PICK claimed, batch : cycle' = [cycle EXCEPT ![p] =
            IF claimed = {} THEN Idle ELSE [@ EXCEPT !.step = "load", !.batch = batch]]
      BY DEF SelectBatch
    <3>2. cycle[p] \in CycleType
      BY CycleOfType DEF KeysInv, CycleInv
    <3> WITNESS IF claimed = {} THEN Idle ELSE [cycle[p] EXCEPT !.step = "load", !.batch = batch]
    <3>3. CASE claimed = {}
      BY <3>1, <3>3 DEF Idle, KeysInv, CycleInv, CycleTypeOK
    <3>4. CASE claimed # {}
      BY <3>1, <3>2, <3>4 DEF CycleType, KeysInv, CycleInv, CycleTypeOK
    <3> QED
      BY <3>3, <3>4
  <2> QED
    BY <2>1, BetweenJobs DEF SelectBatch, channels
<1>3. AcknowledgedHasKey'
  <2>1. \A j \in Job : jobs'[j].status = "succeeded" => jobs[j].status = "succeeded"
    <3>1. PICK claimed, t : jobs' = [j \in Job |-> IF j \in claimed THEN Claimed(jobs[j], t) ELSE jobs[j]]
      BY DEF SelectBatch
    <3>2. \A j \in Job : Claimed(jobs[j], t).status = "processing"
      BY DEF Claimed, KeysInv, CycleInv, StoreTypeOK, JobRow
    <3> QED
      BY <3>1, <3>2
  <2> QED
    BY <2>1 DEF KeysInv, AcknowledgedHasKey, SelectBatch
<1> QED
  BY <1>1, <1>2, <1>3 DEF KeysInv

(***************************************************************************)
(* A row saved with a status other than succeeded, or with its key marked, *)
(* keeps the acknowledged jobs keyed.                                      *)
(***************************************************************************)
LEMMA SaveKeepsKeyed ==
    ASSUME KeysInv, NEW j \in Job, NEW row \in JobRow, SaveJob(j, row),
           row.status = "succeeded" => j \in legacyKeys,
           UNCHANGED legacyKeys
    PROVE  AcknowledgedHasKey'
<1>1. jobs[j] \in JobRow /\ jobs \in [Job -> JobRow]
  BY DEF KeysInv, CycleInv, StoreTypeOK
<1>2. \A k \in Job : jobs'[k] = IF k = j THEN Upsert(jobs[j], row) ELSE jobs[k]
  BY <1>1 DEF SaveJob
<1> QED
  BY <1>1, <1>2, UpsertType DEF KeysInv, AcknowledgedHasKey

LEMMA LoadArticleKeys ==
    ASSUME KeysInv, NEW p \in Process, LoadArticle(p)
    PROVE  KeysInv'
<1>1. CycleInv'
  BY LoadArticleInv DEF KeysInv
<1>2. PICK j \in Heads(cycle[p]) :
        LET article == articles[j[1]]
            skip == AlreadyDelivered(j, article.ts)
        IN  IF ~article.stored \/ j[2] \notin Publisher
            THEN /\ SaveJob(j, DeadLetter(cycle[p].batch[j]))
                 /\ cycle' = [cycle EXCEPT ![p] = Remaining(@, j)]
            ELSE /\ cycle' = [cycle EXCEPT ![p].job = j,
                                           ![p].article = article,
                                           ![p].success = skip,
                                           ![p].step = IF skip THEN "record" ELSE "send"]
                 /\ UNCHANGED jobs
  BY DEF LoadArticle
<1>3. cycle[p] \in CycleType /\ j \in Job /\ cycle[p].batch[j] \in JobRow
  BY CycleOfType DEF KeysInv, CycleInv, Heads, CycleType, Held
<1>4. CASE ~articles[j[1]].stored \/ j[2] \notin Publisher
  <2>1. cycle' = [cycle EXCEPT ![p] = Remaining(cycle[p], j)]
    BY <1>2, <1>4 DEF KeysInv, CycleInv, CycleTypeOK
  <2>2. KeyHasPost' /\ KeyProgress'
    BY <1>3, <2>1, RemainingType, BetweenJobs DEF LoadArticle, channels
  <2>3. AcknowledgedHasKey'
    <3>1. DeadLetter(cycle[p].batch[j]) \in JobRow /\ DeadLetter(cycle[p].batch[j]).status # "succeeded"
      BY <1>3, RowTypes DEF DeadLetter, JobRow
    <3> QED
      BY <1>2, <1>3, <1>4, <3>1, SaveKeepsKeyed DEF LoadArticle
  <2> QED
    BY <1>1, <2>2, <2>3 DEF KeysInv
<1>5. CASE ~(~articles[j[1]].stored \/ j[2] \notin Publisher)
  <2> DEFINE skip == AlreadyDelivered(j, articles[j[1]].ts)
  <2>1. PICK c : /\ cycle' = [cycle EXCEPT ![p] = c]
                 /\ c.job = j /\ c.success = skip
                 /\ c.step = IF skip THEN "record" ELSE "send"
    <3> HIDE DEF skip
    <3> DEFINE d == [cycle[p] EXCEPT !.job = j, !.article = articles[j[1]], !.success = skip,
                                     !.step = IF skip THEN "record" ELSE "send"]
    <3>1. cycle' = [cycle EXCEPT ![p] = d]
      <4> USE DEF skip
      <4> QED
        BY <1>2, <1>5 DEF KeysInv, CycleInv, CycleTypeOK
    <3>2. d.job = j /\ d.success = skip /\ d.step = IF skip THEN "record" ELSE "send"
      BY <1>3 DEF CycleType
    <3> QED
      BY <3>1, <3>2
  <2>2. skip => \E post \in posts : post[1] = j
    BY DEF AlreadyDelivered, KeysInv, KeyHasPost
  <2>3. UNCHANGED <<jobs, legacyKeys, versionKeys, posts>>
    BY <1>2, <1>5 DEF LoadArticle, channels
  <2>4. \A q \in Process : cycle'[q] = IF q = p THEN c ELSE cycle[q]
    BY <2>1, OtherCycles DEF KeysInv, CycleInv
  <2> HIDE DEF skip
  <2>5. KeyProgress'
    BY <2>1, <2>2, <2>3, <2>4 DEF KeysInv, KeyProgress
  <2> QED
    BY <1>1, <2>3, <2>5 DEF KeysInv, AcknowledgedHasKey, KeyHasPost
<1> QED
  BY <1>4, <1>5

(***************************************************************************)
(* Publishing, recording and marking, one case per step.                   *)
(***************************************************************************)
LEMMA PublishKeys ==
    ASSUME KeysInv, NEW p \in Process,
           Send(p) \/ Record(p) \/ MarkLegacy(p) \/ MarkVersion(p) \/ SaveArticle(p)
    PROVE  KeysInv'
<1>1. CycleInv'
  BY PublishInv DEF KeysInv
<1>2. cycle \in [Process -> CycleType]
  BY DEF KeysInv, CycleInv, CycleTypeOK, CycleType
<1>3. cycle[p].job \in Job /\ cycle[p].success \in BOOLEAN
  BY WorkingJob DEF KeysInv, Working, Send, Record, MarkLegacy, MarkVersion, SaveArticle
<1>4. CASE Send(p)
  <2>1. PICK outcome \in Outcome :
          /\ IF outcome = "rejected" THEN UNCHANGED channels
             ELSE PostTo(cycle[p].job, cycle[p].article.ts)
          /\ cycle' = [cycle EXCEPT ![p].success = (outcome = "ok"), ![p].step = "record"]
    BY <1>4 DEF Send
  <2>2. UNCHANGED <<jobs, legacyKeys, versionKeys>>
    BY <1>4 DEF Send, store
  <2>3. posts \subseteq posts'
    BY <2>1 DEF PostTo, channels
  <2>4. outcome = "ok" => <<cycle[p].job, cycle[p].article.ts>> \in posts'
    BY <2>1 DEF PostTo
  <2>5. /\ cycle'[p].job = cycle[p].job /\ cycle'[p].step = "record"
        /\ cycle'[p].success = (outcome = "ok")
        /\ \A q \in Process \ {p} : cycle'[q] = cycle[q]
    BY <1>2, <2>1 DEF CycleType
  <2>6. outcome = "ok" => \E post \in posts' : post[1] = cycle[p].job
    BY <2>4
  <2>7. KeyProgress'
    BY <2>2, <2>3, <2>5, <2>6 DEF KeysInv, KeyProgress
  <2>8. KeyHasPost'
    BY <2>2, <2>3 DEF KeysInv, KeyHasPost
  <2> QED
    BY <1>1, <2>2, <2>7, <2>8 DEF KeysInv, AcknowledgedHasKey
<1>5. CASE Record(p)
  <2>1. UNCHANGED <<jobs, legacyKeys, versionKeys, posts>>
    BY <1>5 DEF Record, channels
  <2>2. /\ cycle'[p].job = cycle[p].job /\ cycle'[p].success = cycle[p].success
        /\ cycle'[p].step = IF cycle[p].success THEN "markLegacy" ELSE "saveJob"
        /\ \A q \in Process \ {p} : cycle'[q] = cycle[q]
    BY <1>2, <1>5 DEF Record, CycleType
  <2>3. cycle[p].success => \E post \in posts : post[1] = cycle[p].job
    BY <1>5 DEF Record, KeysInv, KeyProgress
  <2>4. KeyProgress'
    BY <1>3, <2>1, <2>2, <2>3 DEF KeysInv, KeyProgress
  <2> QED
    BY <1>1, <2>1, <2>4 DEF KeysInv, AcknowledgedHasKey, KeyHasPost
<1>6. CASE MarkLegacy(p)
  <2>1. UNCHANGED <<jobs, versionKeys, posts>> /\ legacyKeys' = legacyKeys \cup {cycle[p].job}
    BY <1>6 DEF MarkLegacy, channels
  <2>2. /\ cycle'[p].job = cycle[p].job /\ cycle'[p].step = "markVersion"
        /\ \A q \in Process \ {p} : cycle'[q] = cycle[q]
    BY <1>2, <1>6 DEF MarkLegacy, CycleType
  <2>3. \E post \in posts : post[1] = cycle[p].job
    BY <1>6 DEF MarkLegacy, KeysInv, KeyProgress
  <2>4. KeyProgress'
    BY <2>1, <2>2 DEF KeysInv, KeyProgress
  <2> QED
    BY <1>1, <2>1, <2>3, <2>4 DEF KeysInv, AcknowledgedHasKey, KeyHasPost
<1>7. CASE MarkVersion(p)
  <2>1. /\ UNCHANGED <<jobs, legacyKeys, posts>>
        /\ versionKeys' = versionKeys \cup {<<cycle[p].job, cycle[p].article.ts>>}
    BY <1>7 DEF MarkVersion, channels
  <2>2. /\ cycle'[p].job = cycle[p].job /\ cycle'[p].step = "saveArticle"
        /\ \A q \in Process \ {p} : cycle'[q] = cycle[q]
    BY <1>2, <1>7 DEF MarkVersion, CycleType
  <2>3. cycle[p].job \in legacyKeys
    BY <1>7 DEF MarkVersion, KeysInv, KeyProgress
  <2>4. KeyProgress'
    BY <2>1, <2>2, <2>3 DEF KeysInv, KeyProgress
  <2> QED
    BY <1>1, <2>1, <2>3, <2>4 DEF KeysInv, AcknowledgedHasKey, KeyHasPost
<1>8. CASE SaveArticle(p)
  <2>1. UNCHANGED <<jobs, legacyKeys, versionKeys, posts>>
    BY <1>8 DEF SaveArticle, channels
  <2>2. /\ cycle'[p].job = cycle[p].job /\ cycle'[p].step = "saveJob"
        /\ \A q \in Process \ {p} : cycle'[q] = cycle[q]
    BY <1>2, <1>8 DEF SaveArticle, CycleType
  <2>3. cycle[p].job \in legacyKeys
    BY <1>8 DEF SaveArticle, KeysInv, KeyProgress
  <2>4. KeyProgress'
    BY <2>1, <2>2, <2>3 DEF KeysInv, KeyProgress
  <2> QED
    BY <1>1, <2>1, <2>4 DEF KeysInv, AcknowledgedHasKey, KeyHasPost
<1> QED
  BY <1>4, <1>5, <1>6, <1>7, <1>8

LEMMA FinishJobKeys ==
    ASSUME KeysInv, NEW p \in Process, FinishJob(p)
    PROVE  KeysInv'
<1> DEFINE j == cycle[p].job
           row == cycle[p].batch[j]
           saved == IF cycle[p].success THEN Succeeded(row) ELSE Failed(row, cycle[p].at)
<1>1. j \in Job /\ row \in JobRow /\ cycle[p].at \in Nat
  BY WorkingJob DEF KeysInv, FinishJob, Working
<1>2. SaveJob(j, saved) /\ cycle' = [cycle EXCEPT ![p] = Remaining(cycle[p], j)]
  BY DEF FinishJob, KeysInv, CycleInv, CycleTypeOK
<1>3. CycleInv' /\ cycle[p] \in CycleType
  BY FinishJobInv, CycleOfType DEF KeysInv, CycleInv
<1>4. cycle[p].success => j \in legacyKeys
  BY DEF FinishJob, KeysInv, KeyProgress
<1> HIDE DEF row, j
<1>5. saved \in JobRow /\ (saved.status = "succeeded" => cycle[p].success)
  BY <1>1, RowTypes DEF Failed, DeadLetter, JobRow
<1> HIDE DEF saved
<1>6. AcknowledgedHasKey'
  BY <1>1, <1>2, <1>4, <1>5, SaveKeepsKeyed DEF FinishJob
<1>7. KeyHasPost' /\ KeyProgress'
  BY <1>1, <1>2, <1>3, RemainingType, BetweenJobs DEF FinishJob, channels
<1> QED
  BY <1>3, <1>6, <1>7 DEF KeysInv

LEMMA PublishBatchKeys ==
    ASSUME KeysInv, NEW p \in Process, PublishBatch(p)
    PROVE  KeysInv'
BY SelectBatchKeys, LoadArticleKeys, PublishKeys, FinishJobKeys DEF PublishBatch

LEMMA LoseCycleKeys ==
    ASSUME KeysInv, NEW p \in Process, LoseCycle(p), UNCHANGED storeVars
    PROVE  KeysInv'
<1>1. CycleInv'
  BY LoseCycleInv DEF KeysInv
<1>2. cycle' = [cycle EXCEPT ![p] = Idle] /\ Idle.step = "idle"
  BY DEF LoseCycle, Idle
<1>3. KeyHasPost' /\ KeyProgress'
  BY <1>2, BetweenJobs DEF storeVars, store, channels
<1> QED
  BY <1>1, <1>3 DEF KeysInv, AcknowledgedHasKey, storeVars, store

LEMMA PassTimeKeys ==
    ASSUME KeysInv, PassTime
    PROVE  KeysInv'
<1>1. CycleInv'
  BY PassTimeInv DEF KeysInv
<1> QED
  BY <1>1 DEF KeysInv, PassTime, Tick, store, channels, AcknowledgedHasKey, KeyHasPost, KeyProgress

-----------------------------------------------------------------------------
(***************************************************************************)
(* What a step of one cycle does to what it sends and marks: it pauses     *)
(* between two jobs, loads the next one, or goes on with the one it has.   *)
(***************************************************************************)
Between == {"idle", "select", "load"}

Pauses(p) ==
    /\ cycle[p].step \in Between \cup {"saveJob"} /\ cycle'[p].step \in Between
    /\ UNCHANGED <<articles, delivered, legacyKeys, versionKeys, channels, now>>

Loads(p) ==
    /\ cycle[p].step = "load"
    /\ \E j \in Held(cycle[p]) :
          /\ articles[j[1]].stored
          /\ cycle'[p].job = j /\ cycle'[p].article = articles[j[1]]
          /\ cycle'[p].success = AlreadyDelivered(j, articles[j[1]].ts)
          /\ cycle'[p].step = IF AlreadyDelivered(j, articles[j[1]].ts) THEN "record" ELSE "send"
    /\ UNCHANGED <<store, channels, now>>

GoesOn(p) ==
    /\ cycle[p].step \in Working /\ cycle'[p].step \in Working
    /\ cycle'[p].job = cycle[p].job /\ cycle'[p].article = cycle[p].article
    /\ UNCHANGED <<jobs, now>>

LEMMA OneCycleMoves ==
    ASSUME CycleInv, NEW p \in Process, RecoverLeases(p) \/ PublishBatch(p) \/ LoseCycle(p)
    PROVE  \A q \in Process \ {p} : cycle'[q] = cycle[q]
<1>1. cycle \in [Process -> CycleType]
  BY DEF CycleInv, CycleTypeOK, CycleType
<1> QED
  BY <1>1 DEF RecoverLeases, PublishBatch, SelectBatch, LoadArticle, Send, Record, MarkLegacy,
     MarkVersion, SaveArticle, FinishJob, LoseCycle

LEMMA LoadOrPause ==
    ASSUME CycleInv, NEW p \in Process, LoadArticle(p)
    PROVE  Pauses(p) \/ Loads(p)
<1>1. cycle \in [Process -> CycleType] /\ cycle[p].step = "load"
  BY DEF CycleInv, CycleTypeOK, CycleType, LoadArticle
<1>2. PICK j \in Heads(cycle[p]) :
        LET article == articles[j[1]]
            skip == AlreadyDelivered(j, article.ts)
        IN  IF ~article.stored \/ j[2] \notin Publisher
            THEN /\ SaveJob(j, DeadLetter(cycle[p].batch[j]))
                 /\ cycle' = [cycle EXCEPT ![p] = Remaining(@, j)]
            ELSE /\ cycle' = [cycle EXCEPT ![p].job = j,
                                           ![p].article = article,
                                           ![p].success = skip,
                                           ![p].step = IF skip THEN "record" ELSE "send"]
                 /\ UNCHANGED jobs
  BY DEF LoadArticle
<1>3. j \in Held(cycle[p]) /\ j \in Job
  BY DEF Heads, Held
<1>4. CASE ~articles[j[1]].stored \/ j[2] \notin Publisher
  <2>1. cycle'[p] = Remaining(cycle[p], j)
    BY <1>1, <1>2, <1>4
  <2>2. cycle'[p].step \in Between
    BY <1>1, <1>3, <2>1, RemainingType DEF Between
  <2> QED
    BY <1>1, <2>2 DEF Pauses, Between, LoadArticle
<1>5. CASE ~(~articles[j[1]].stored \/ j[2] \notin Publisher)
  <2> DEFINE skip == AlreadyDelivered(j, articles[j[1]].ts)
             c == [cycle[p] EXCEPT !.job = j, !.article = articles[j[1]], !.success = skip,
                                   !.step = IF skip THEN "record" ELSE "send"]
  <2>1. cycle'[p] = c /\ UNCHANGED jobs
    BY <1>1, <1>2, <1>5
  <2> HIDE DEF skip
  <2>2. c.job = j /\ c.article = articles[j[1]] /\ c.success = skip
        /\ c.step = IF skip THEN "record" ELSE "send"
    BY <1>1 DEF CycleType
  <2>3. articles[j[1]].stored
    BY <1>5
  <2> USE DEF skip
  <2> QED
    BY <1>1, <1>3, <2>1, <2>2, <2>3 DEF Loads, LoadArticle, store
<1> QED
  BY <1>4, <1>5

LEMMA CycleMoves ==
    ASSUME CycleInv, NEW p \in Process, RecoverLeases(p) \/ PublishBatch(p)
    PROVE  \/ Pauses(p) \/ Loads(p)
           \/ /\ GoesOn(p)
              /\ Send(p) \/ Record(p) \/ MarkLegacy(p) \/ MarkVersion(p) \/ SaveArticle(p)
<1>1. cycle \in [Process -> CycleType]
  BY DEF CycleInv, CycleTypeOK, CycleType
<1>2. CASE RecoverLeases(p)
  BY <1>1, <1>2 DEF RecoverLeases, Pauses, Between
<1>3. CASE SelectBatch(p)
  <2>1. cycle'[p].step \in {"idle", "load"}
    BY <1>1, <1>3 DEF SelectBatch, Idle, CycleType
  <2> QED
    BY <1>3, <2>1 DEF SelectBatch, Pauses, Between
<1>4. CASE LoadArticle(p)
  BY <1>4, LoadOrPause
<1>5. CASE Send(p) \/ Record(p) \/ MarkLegacy(p) \/ MarkVersion(p) \/ SaveArticle(p)
  <2>1. cycle[p].step \in Working /\ UNCHANGED <<jobs, now>>
    BY <1>5 DEF Send, Record, MarkLegacy, MarkVersion, SaveArticle, Working, store
  <2>2. /\ cycle'[p].job = cycle[p].job /\ cycle'[p].article = cycle[p].article
        /\ cycle'[p].step \in Working
    <3>1. CASE Send(p)
      BY <1>1, <3>1 DEF Send, Working, CycleType
    <3>2. CASE ~Send(p)
      <4>1. PICK s \in Working : cycle' = [cycle EXCEPT ![p].step = s]
        BY <1>5, <3>2 DEF Record, MarkLegacy, MarkVersion, SaveArticle, Working
      <4> QED
        BY <1>1, <4>1 DEF CycleType
    <3> QED
      BY <3>1, <3>2
  <2> QED
    BY <1>5, <2>1, <2>2 DEF GoesOn
<1>6. CASE FinishJob(p)
  <2>1. cycle[p].job \in Job /\ cycle[p].step = "saveJob"
    BY <1>6, WorkingJob DEF FinishJob, Working
  <2>2. cycle'[p].step \in Between
    BY <1>1, <1>6, <2>1, RemainingType DEF FinishJob, Between
  <2> QED
    BY <1>6, <2>1, <2>2 DEF FinishJob, Pauses
<1> QED
  BY <1>2, <1>3, <1>4, <1>5, <1>6 DEF PublishBatch

(***************************************************************************)
(* When no two cycles work on one job, a version that a cycle is about to  *)
(* send has no key: it had none when its article was loaded, and only the  *)
(* cycle that works on a job marks its versions.                           *)
(***************************************************************************)
Apart == \A p, q \in Process : p # q => Held(cycle[p]) \cap Held(cycle[q]) = {}

UnmarkedSends ==
    \A p \in Process :
        cycle[p].step = "send" => <<cycle[p].job, cycle[p].article.ts>> \notin versionKeys

LEMMA WorkApart ==
    ASSUME CycleInv, Apart, NEW p \in Process, NEW q \in Process, p # q,
           cycle[p].step \in Working, cycle[q].step \in Working
    PROVE  cycle[p].job # cycle[q].job
BY DEF CycleInv, WorkingHeld, Apart

LEMMA CycleUnmarked ==
    ASSUME CycleInv, Apart, UnmarkedSends, NEW p \in Process, RecoverLeases(p) \/ PublishBatch(p)
    PROVE  UnmarkedSends'
<1>1. \A q \in Process \ {p} : cycle'[q] = cycle[q]
  BY OneCycleMoves
<1>2. CASE Pauses(p)
  BY <1>1, <1>2 DEF Pauses, Between, UnmarkedSends
<1>3. CASE Loads(p)
  BY <1>1, <1>3 DEF Loads, AlreadyDelivered, store, UnmarkedSends
<1>4. CASE GoesOn(p) /\ MarkVersion(p)
  <2>1. /\ versionKeys' = versionKeys \cup {<<cycle[p].job, cycle[p].article.ts>>}
        /\ cycle[p].step \in Working /\ cycle'[p].step = "saveArticle"
    BY <1>4 DEF MarkVersion, Working, CycleInv, CycleTypeOK
  <2>2. ASSUME NEW q \in Process \ {p}, cycle[q].step = "send" PROVE cycle[q].job # cycle[p].job
    BY <2>1, <2>2, WorkApart DEF Working
  <2> QED
    BY <1>1, <2>1, <2>2 DEF UnmarkedSends
<1>5. CASE GoesOn(p) /\ (Send(p) \/ Record(p) \/ MarkLegacy(p) \/ SaveArticle(p))
  <2>1. cycle'[p].step # "send" /\ UNCHANGED versionKeys
    BY <1>5 DEF Send, Record, MarkLegacy, SaveArticle, CycleInv, CycleTypeOK, store
  <2> QED
    BY <1>1, <2>1 DEF UnmarkedSends
<1> QED
  BY <1>2, <1>3, <1>4, <1>5, CycleMoves

(***************************************************************************)
(* So no marked version is posted.                                         *)
(***************************************************************************)
LEMMA MarkedStay ==
    ASSUME CycleInv, UnmarkedSends, NEW p \in Process, RecoverLeases(p) \/ PublishBatch(p)
    PROVE  ((posts' \ posts) \cup (reposts' \ reposts)) \cap versionKeys = {}
<1>1. CASE Send(p)
  <2>1. \/ UNCHANGED channels
        \/ PostTo(cycle[p].job, cycle[p].article.ts)
    BY <1>1 DEF Send
  <2> QED
    BY <1>1, <2>1 DEF Send, PostTo, UnmarkedSends, channels
<1>2. CASE ~Send(p)
  BY <1>2 DEF RecoverLeases, PublishBatch, SelectBatch, LoadArticle, Record, MarkLegacy,
     MarkVersion, SaveArticle, FinishJob, channels
<1> QED
  BY <1>1, <1>2

(***************************************************************************)
(* Without deaths and lost replies, every version that was posted has its  *)
(* key, or is in the hands of the cycle that posted it and will mark it.   *)
(***************************************************************************)
Delivering(c, post) ==
    /\ c.step \in {"record", "markLegacy", "markVersion"} /\ c.success
    /\ post = <<c.job, c.article.ts>>

PostsMarked ==
    \A post \in posts : post \in versionKeys \/ \E p \in Process : Delivering(cycle[p], post)

VersionsInv == UnmarkedSends /\ PostsMarked /\ NoReposts

LEMMA SendOnce ==
    ASSUME CycleInv, Apart, VersionsInv, "lost_reply" \notin Outcome, NEW p \in Process,
           Send(p), GoesOn(p)
    PROVE  PostsMarked' /\ NoReposts'
<1> DEFINE post == <<cycle[p].job, cycle[p].article.ts>>
<1>1. \A q \in Process \ {p} : cycle'[q] = cycle[q]
  BY OneCycleMoves DEF PublishBatch
<1>2. PICK outcome \in Outcome :
        /\ IF outcome = "rejected" THEN UNCHANGED channels
           ELSE PostTo(cycle[p].job, cycle[p].article.ts)
        /\ cycle' = [cycle EXCEPT ![p].success = (outcome = "ok"), ![p].step = "record"]
  BY DEF Send
<1>3. outcome \in {"ok", "rejected"}
  BY ProcessorAssumption DEF ProcessorAssumption
<1>4. cycle[p].step = "send" /\ UNCHANGED versionKeys
  BY DEF Send, store
<1>5. cycle'[p].step = "record" /\ (outcome = "ok" => cycle'[p].success)
  <2>1. cycle \in [Process -> CycleType]
    BY DEF CycleInv, CycleTypeOK, CycleType
  <2> QED
    BY <1>2, <2>1 DEF CycleType
<1>6. \A x \in posts : x \in versionKeys \/ \E q \in Process \ {p} : Delivering(cycle[q], x)
  BY <1>4 DEF VersionsInv, PostsMarked, Delivering
<1>7. CASE outcome = "rejected"
  BY <1>1, <1>2, <1>4, <1>6, <1>7 DEF PostsMarked, VersionsInv, NoReposts, channels
<1>8. CASE outcome = "ok"
  <2>1. posts' = posts \cup {post} /\ reposts' = reposts \cup (posts \cap {post})
    BY <1>2, <1>8 DEF PostTo
  <2>2. Delivering(cycle'[p], post)
    BY <1>5, <1>8 DEF Delivering, GoesOn
  <2>3. post \notin posts
    <3>1. post \notin versionKeys
      BY <1>4 DEF VersionsInv, UnmarkedSends
    <3>2. ASSUME NEW q \in Process \ {p}, Delivering(cycle[q], post) PROVE FALSE
      <4>1. cycle[q].step \in Working /\ cycle[p].step \in Working /\ cycle[q].job = cycle[p].job
        BY <1>4, <3>2 DEF Delivering, Working
      <4> QED
        BY <4>1, WorkApart
    <3> QED
      BY <1>6, <3>1, <3>2
  <2> QED
    BY <1>1, <1>4, <1>6, <2>1, <2>2, <2>3 DEF PostsMarked, VersionsInv, NoReposts
<1> QED
  BY <1>3, <1>7, <1>8

LEMMA CycleVersions ==
    ASSUME CycleInv, Apart, VersionsInv, "lost_reply" \notin Outcome,
           NEW p \in Process, RecoverLeases(p) \/ PublishBatch(p)
    PROVE  VersionsInv'
<1>1. \A q \in Process \ {p} : cycle'[q] = cycle[q]
  BY OneCycleMoves
<1>2. UnmarkedSends'
  BY CycleUnmarked DEF VersionsInv
<1>3. cycle \in [Process -> CycleType]
  BY DEF CycleInv, CycleTypeOK, CycleType
<1>4. CASE Pauses(p)
  BY <1>1, <1>2, <1>4 DEF Pauses, Between, VersionsInv, PostsMarked, Delivering, NoReposts, channels
<1>5. CASE Loads(p)
  BY <1>1, <1>2, <1>5 DEF Loads, VersionsInv, PostsMarked, Delivering, NoReposts, store, channels
<1>6. CASE GoesOn(p) /\ Send(p)
  BY <1>2, <1>6, SendOnce DEF VersionsInv
<1>7. CASE GoesOn(p) /\ (Record(p) \/ MarkLegacy(p))
  <2>1. UNCHANGED <<versionKeys, posts, reposts>>
    BY <1>7 DEF Record, MarkLegacy, channels
  <2>2. \A post : Delivering(cycle[p], post) => Delivering(cycle'[p], post)
    BY <1>3, <1>7 DEF Record, MarkLegacy, Delivering, GoesOn, CycleType
  <2> QED
    BY <1>1, <1>2, <2>1, <2>2 DEF VersionsInv, PostsMarked, NoReposts
<1>8. CASE GoesOn(p) /\ MarkVersion(p)
  <2>1. /\ versionKeys' = versionKeys \cup {<<cycle[p].job, cycle[p].article.ts>>}
        /\ UNCHANGED <<posts, reposts>>
    BY <1>8 DEF MarkVersion, channels
  <2>2. \A post : Delivering(cycle[p], post) => post \in versionKeys'
    BY <2>1 DEF Delivering
  <2> QED
    BY <1>1, <1>2, <2>1, <2>2 DEF VersionsInv, PostsMarked, NoReposts
<1>9. CASE GoesOn(p) /\ SaveArticle(p)
  <2>1. UNCHANGED <<versionKeys, posts, reposts>> /\ \A post : ~Delivering(cycle[p], post)
    BY <1>9 DEF SaveArticle, channels, Delivering
  <2> QED
    BY <1>1, <1>2, <2>1 DEF VersionsInv, PostsMarked, NoReposts
<1> QED
  BY <1>4, <1>5, <1>6, <1>7, <1>8, <1>9, CycleMoves

-----------------------------------------------------------------------------
(***************************************************************************)
(* Delivery.  What a step of a cycle does to the posts, the keys and the   *)
(* acknowledged jobs, if the jobs the cycle holds are its own in the table *)
(* as well: it delivers a version of a job that is not acknowledged, marks *)
(* the key of one that was posted, acknowledges one that has its key, or   *)
(* none of these; and it takes no acknowledgement back.                    *)
(***************************************************************************)
Acked == {j \in Job : jobs[j].status = "succeeded"}

Delivers(versions) ==
    \/ UNCHANGED <<posts, legacyKeys>> /\ Acked' = Acked
    \/ \E j \in Job, v \in versions :
          /\ j \notin Acked /\ posts' = posts \cup {<<j, v>>}
          /\ UNCHANGED legacyKeys /\ Acked' = Acked
    \/ \E j \in Job :
          /\ \E post \in posts : post[1] = j
          /\ legacyKeys' = legacyKeys \cup {j}
          /\ UNCHANGED posts /\ Acked' = Acked
    \/ \E j \in Job :
          /\ j \in legacyKeys /\ Acked' = Acked \cup {j}
          /\ UNCHANGED <<posts, legacyKeys>>

(***************************************************************************)
(* Articles, and what cycles work on, have dates of a given set.           *)
(***************************************************************************)
DatedBy(versions) ==
    /\ \A a \in Article : articles[a].ts \in versions
    /\ \A p \in Process : cycle[p].step \in Working => cycle[p].article.ts \in versions

LEMMA CycleDated ==
    ASSUME CycleInv, NEW versions, DatedBy(versions),
           NEW p \in Process, RecoverLeases(p) \/ PublishBatch(p)
    PROVE  DatedBy(versions)'
<1>1. \A q \in Process \ {p} : cycle'[q] = cycle[q]
  BY OneCycleMoves
<1>2. CASE Pauses(p)
  BY <1>1, <1>2 DEF Pauses, Between, Working, DatedBy
<1>3. CASE Loads(p)
  <2>1. UNCHANGED articles
    BY <1>3 DEF Loads, store
  <2>2. cycle'[p].article.ts \in versions
    BY <1>3 DEF Loads, Held, Job, DatedBy
  <2> QED
    BY <1>1, <2>1, <2>2 DEF DatedBy
<1>4. ASSUME GoesOn(p), Send(p) \/ Record(p) \/ MarkLegacy(p) \/ MarkVersion(p) \/ SaveArticle(p)
      PROVE  DatedBy(versions)'
  <2>1. cycle'[p].article = cycle[p].article /\ cycle[p].article.ts \in versions
    BY <1>4 DEF GoesOn, DatedBy
  <2>2. \A a \in Article : articles'[a].ts \in versions
    <3>1. CASE SaveArticle(p)
      <4>1. articles' = [articles EXCEPT ![cycle[p].job[1]] = [cycle[p].article EXCEPT !.sent = cycle[p].at]]
        BY <3>1 DEF SaveArticle
      <4>2. [cycle[p].article EXCEPT !.sent = cycle[p].at].ts = cycle[p].article.ts
        BY <1>4, WorkingJob DEF GoesOn, ArticleRow
      <4>3. articles \in [Article -> ArticleRow]
        BY DEF CycleInv, StoreTypeOK
      <4> QED
        BY <2>1, <4>1, <4>2, <4>3 DEF DatedBy
    <3>2. CASE ~SaveArticle(p)
      <4>1. UNCHANGED articles
        BY <1>4, <3>2 DEF Send, Record, MarkLegacy, MarkVersion, store
      <4> QED
        BY <4>1 DEF DatedBy
    <3> QED
      BY <3>1, <3>2
  <2> QED
    BY <1>1, <2>1, <2>2 DEF DatedBy
<1> QED
  BY <1>2, <1>3, <1>4, CycleMoves

LEMMA SaveAcked ==
    ASSUME CycleInv, NEW j \in Job, NEW row \in JobRow, SaveJob(j, row)
    PROVE  /\ Acked' = IF row.status = "succeeded" THEN Acked \cup {j} ELSE Acked \ {j}
           /\ \A k \in Job \ {j} : jobs'[k] = jobs[k]
<1>1. jobs \in [Job -> JobRow]
  BY DEF CycleInv, StoreTypeOK
<1>2. \A k \in Job : jobs'[k] = IF k = j THEN Upsert(jobs[j], row) ELSE jobs[k]
  BY <1>1 DEF SaveJob
<1>3. Upsert(jobs[j], row).status = row.status
  BY <1>1, UpsertType
<1> QED
  BY <1>2, <1>3 DEF Acked

LEMMA RecoverAcked ==
    ASSUME CycleInv, NEW p \in Process, RecoverLeases(p)
    PROVE  Acked' = Acked
<1> SUFFICES ASSUME NEW j \in Job
             PROVE  jobs'[j].status = "succeeded" <=> jobs[j].status = "succeeded"
  BY DEF Acked
<1>1. jobs[j] \in JobRow /\ now \in Nat
  BY DEF CycleInv, StoreTypeOK
<1>2. Recovered(jobs[j]) \in JobRow /\ Recovered(jobs[j]).status # "succeeded"
  BY <1>1, RowTypes DEF Recovered, JobRow
<1>3. jobs'[j] = IF j \in Stale(now) THEN Upsert(jobs[j], Recovered(jobs[j])) ELSE jobs[j]
  BY DEF RecoverLeases, RecoverExpiredLeases
<1>4. j \in Stale(now) => jobs[j].status # "succeeded"
  BY DEF Stale
<1> QED
  BY <1>1, <1>2, <1>3, <1>4, UpsertType

LEMMA SelectAcked ==
    ASSUME CycleInv, NEW p \in Process, SelectBatch(p)
    PROVE  Acked' = Acked
<1> DEFINE t == cycle[p].at
<1>1. PICK claimed \in SUBSET Job :
        /\ \A j \in claimed : jobs[j].status \in {"pending", "retrying"}
        /\ jobs' = [j \in Job |-> IF j \in claimed THEN Claimed(jobs[j], t) ELSE jobs[j]]
  <2>1. PICK S \in SUBSET Candidates(t) :
          jobs' = [j \in Job |-> IF j \in Batch(S, t) THEN Claimed(jobs[j], t) ELSE jobs[j]]
    BY DEF SelectBatch
  <2>2. /\ Batch(S, t) \in SUBSET Job
        /\ \A j \in Batch(S, t) : jobs[j].status \in {"pending", "retrying"}
    BY DEF Batch, Eligible
  <2> QED
    BY <2>1, <2>2
<1> HIDE DEF t
<1>2. \A j \in Job : Claimed(jobs[j], t).status = "processing"
  BY DEF Claimed, JobRow, CycleInv, StoreTypeOK
<1> QED
  BY <1>1, <1>2 DEF Acked

LEMMA LoadAcked ==
    ASSUME CycleInv, NEW p \in Process, LoadArticle(p),
           \A j \in Held(cycle[p]) : jobs[j].status = "processing"
    PROVE  Acked' = Acked
<1>1. PICK j \in Heads(cycle[p]) :
        SaveJob(j, DeadLetter(cycle[p].batch[j])) \/ UNCHANGED jobs
  BY DEF LoadArticle
<1>2. j \in Held(cycle[p]) /\ j \in Job
  BY CycleOfType DEF Heads, CycleInv
<1>3. DeadLetter(cycle[p].batch[j]) \in JobRow /\ DeadLetter(cycle[p].batch[j]).status # "succeeded"
  <2>1. cycle[p].batch[j] \in JobRow
    BY <1>2, CycleOfType DEF CycleInv, CycleType
  <2> QED
    BY <2>1, RowTypes DEF DeadLetter, JobRow
<1>4. Acked \ {j} = Acked
  BY <1>2 DEF Acked
<1> QED
  BY <1>1, <1>2, <1>3, <1>4, SaveAcked DEF Acked

LEMMA FinishAcked ==
    ASSUME KeysInv, NEW p \in Process, FinishJob(p),
           \A j \in Held(cycle[p]) : jobs[j].status = "processing"
    PROVE  \/ Acked' = Acked
           \/ \E j \in Job : j \in legacyKeys /\ Acked' = Acked \cup {j}
<1> DEFINE j == cycle[p].job
           row == cycle[p].batch[j]
           saved == IF cycle[p].success THEN Succeeded(row) ELSE Failed(row, cycle[p].at)
<1>1. j \in Held(cycle[p]) /\ j \in Job /\ row \in JobRow /\ cycle[p].at \in Nat
  BY WorkingJob DEF FinishJob, Working, KeysInv, CycleInv, WorkingHeld
<1>2. SaveJob(j, saved)
  BY DEF FinishJob
<1>3. cycle[p].success => j \in legacyKeys
  BY DEF FinishJob, KeysInv, KeyProgress
<1> HIDE DEF row, j
<1>4. saved \in JobRow /\ (saved.status = "succeeded" => cycle[p].success)
  BY <1>1, RowTypes DEF Failed, DeadLetter, JobRow
<1> HIDE DEF saved
<1>5. Acked' = IF saved.status = "succeeded" THEN Acked \cup {j} ELSE Acked \ {j}
  BY <1>1, <1>2, <1>4, SaveAcked DEF KeysInv
<1>6. Acked \ {j} = Acked
  BY <1>1 DEF Acked
<1> QED
  BY <1>1, <1>3, <1>4, <1>5, <1>6

LEMMA CycleDelivers ==
    ASSUME KeysInv, NEW p \in Process, NEW versions, DatedBy(versions),
           \A j \in Held(cycle[p]) : jobs[j].status = "processing",
           RecoverLeases(p) \/ PublishBatch(p)
    PROVE  Delivers(versions)
<1>1. CASE RecoverLeases(p)
  BY <1>1, RecoverAcked DEF KeysInv, RecoverLeases, channels, Delivers
<1>2. CASE SelectBatch(p)
  BY <1>2, SelectAcked DEF KeysInv, SelectBatch, channels, Delivers
<1>3. CASE LoadArticle(p)
  BY <1>3, LoadAcked DEF KeysInv, LoadArticle, channels, Delivers
<1>4. CASE FinishJob(p)
  <2>1. UNCHANGED <<posts, legacyKeys>>
    BY <1>4 DEF FinishJob, channels
  <2> QED
    BY <1>4, <2>1, FinishAcked DEF Delivers
<1>5. CASE Send(p)
  <2>1. cycle[p].job \in Job /\ cycle[p].job \notin Acked /\ cycle[p].article.ts \in versions
    BY <1>5, WorkingJob DEF Send, Working, KeysInv, CycleInv, WorkingHeld, Acked, DatedBy
  <2>2. UNCHANGED legacyKeys /\ Acked' = Acked
    BY <1>5 DEF Send, store, Acked
  <2>3. posts' = posts \/ posts' = posts \cup {<<cycle[p].job, cycle[p].article.ts>>}
    BY <1>5 DEF Send, PostTo, channels
  <2> QED
    BY <2>1, <2>2, <2>3 DEF Delivers
<1>6. CASE MarkLegacy(p)
  <2>1. cycle[p].job \in Job /\ \E post \in posts : post[1] = cycle[p].job
    BY <1>6, WorkingJob DEF MarkLegacy, Working, KeysInv, KeyProgress
  <2>2. UNCHANGED posts /\ legacyKeys' = legacyKeys \cup {cycle[p].job} /\ Acked' = Acked
    BY <1>6 DEF MarkLegacy, channels, Acked
  <2> QED
    BY <2>1, <2>2 DEF Delivers
<1>7. CASE Record(p) \/ MarkVersion(p) \/ SaveArticle(p)
  BY <1>7 DEF Record, MarkVersion, SaveArticle, channels, Acked, Delivers
<1> QED
  BY <1>1, <1>2, <1>3, <1>4, <1>5, <1>6, <1>7 DEF PublishBatch

=============================================================================
