-------------------------- MODULE WorkerPoolProofs --------------------------
(***************************************************************************)
(* Workers on the publication engine beside processes that ingest, for any *)
(* number of them and any articles, destinations and durations, whatever   *)
(* overlaps, crashes and expires: types and what keys vouch for; that the  *)
(* claims on a job exclude each other until another process saves its row, *)
(* and that only disturbed claims repeat a post; and the limits, when one  *)
(* worker publishes.                                                       *)
(***************************************************************************)
EXTENDS WorkerHistory, FiniteSetTheorems, TLAPS

-----------------------------------------------------------------------------
(***************************************************************************)
(* Rows: what the writes put there.                                        *)
(***************************************************************************)
LEMMA EmptyRows == NoRow \in JobRow /\ NoArticle \in ArticleRow
BY DEF NoRow, NoArticle, JobRow, ArticleRow, Status

LEMMA UpsertType ==
    ASSUME NEW old \in JobRow, NEW new \in JobRow
    PROVE  /\ Upsert(old, new) \in JobRow
           /\ Upsert(old, new).status = new.status
           /\ Upsert(old, new).lease = new.lease
           /\ Upsert(old, new).next = new.next
           /\ Upsert(old, new).attempts = new.attempts
BY DEF Upsert, JobRow, Status

LEMMA RowTypes ==
    ASSUME NEW row \in JobRow, NEW t \in Nat
    PROVE  /\ Claimed(row, t) \in JobRow
           /\ Recovered(row) \in JobRow
           /\ DeadLetter(row) \in JobRow
           /\ Succeeded(row) \in JobRow
           /\ Failed(row, t) \in JobRow
<1>1. Claimed(row, t) \in JobRow
  <2>1. t + Lease \in Nat /\ row.attempts + 1 \in Nat
    BY StoreAssumption DEF StoreAssumption, JobRow
  <2> QED
    BY <2>1 DEF Claimed, JobRow, Status
<1>2. Recovered(row) \in JobRow /\ DeadLetter(row) \in JobRow /\ Succeeded(row) \in JobRow
  BY DEF Recovered, DeadLetter, Succeeded, JobRow, Status
<1>3. Failed(row, t) \in JobRow
  <2>1. CASE row.attempts >= MaxAttempts
    BY <2>1, <1>2 DEF Failed
  <2>2. CASE ~(row.attempts >= MaxAttempts)
    <3>1. row.attempts \in 0 .. MaxAttempts
      BY <2>2, StoreAssumption DEF StoreAssumption, JobRow
    <3>2. t + Backoff(row.attempts) \in Nat
      BY <3>1, BackoffAssumption DEF BackoffAssumption
    <3>3. \A due \in Nat : [row EXCEPT !.status = "retrying", !.lease = 0, !.next = due] \in JobRow
      BY DEF JobRow, Status
    <3> QED
      BY <2>2, <3>2, <3>3 DEF Failed
  <2> QED
    BY <2>1, <2>2
<1> QED
  BY <1>1, <1>2, <1>3

(***************************************************************************)
(* A saved row, and what becomes of the others.                            *)
(***************************************************************************)
LEMMA SaveJobRow ==
    ASSUME StoreTypeOK, NEW j \in Job, NEW row \in JobRow, SaveJob(j, row)
    PROVE  /\ jobs' \in [Job -> JobRow]
           /\ \A k \in Job \ {j} : jobs'[k] = jobs[k]
           /\ jobs'[j].status = row.status /\ jobs'[j].lease = row.lease
           /\ jobs'[j].next = row.next /\ jobs'[j].attempts = row.attempts
<1>1. jobs' = [jobs EXCEPT ![j] = Upsert(jobs[j], row)] /\ jobs[j] \in JobRow
  BY DEF SaveJob, StoreTypeOK
<1>2. jobs'[j] = Upsert(jobs[j], row)
  BY <1>1 DEF StoreTypeOK
<1> QED
  BY <1>1, <1>2, UpsertType DEF StoreTypeOK

LEMMA RecoverRows ==
    ASSUME StoreTypeOK, RecoverExpiredLeases(now)
    PROVE  /\ jobs' \in [Job -> JobRow]
           /\ \A j \in Job : jobs[j].status # "processing" \/ jobs[j].lease > now => jobs'[j] = jobs[j]
           /\ \A j \in Job : jobs'[j].status = "processing" => jobs'[j] = jobs[j]
<1>1. \A j \in Job :
        /\ jobs[j] \in JobRow
        /\ Upsert(jobs[j], Recovered(jobs[j])) \in JobRow
        /\ Upsert(jobs[j], Recovered(jobs[j])).status = Recovered(jobs[j]).status
  BY UpsertType, RowTypes DEF StoreTypeOK
<1>2. \A j \in Job : Recovered(jobs[j]).status \in {"retrying", "pending"}
  BY <1>1 DEF Recovered, JobRow
<1>3. \A j \in Job : jobs'[j] = IF j \in Stale(now) THEN Upsert(jobs[j], Recovered(jobs[j]))
                                                    ELSE jobs[j]
  BY DEF RecoverExpiredLeases
<1>4. jobs' \in [Job -> JobRow]
  BY <1>1 DEF RecoverExpiredLeases
<1>5. \A j \in Job : jobs[j].lease > now => j \notin Stale(now)
  BY <1>1 DEF Stale, JobRow, StoreTypeOK
<1>6. \A j \in Job : jobs[j].status # "processing" => j \notin Stale(now)
  BY DEF Stale
<1> QED
  BY <1>1, <1>2, <1>3, <1>4, <1>5, <1>6

-----------------------------------------------------------------------------
(***************************************************************************)
(* What a claim knows: a worker that acknowledges has a post of its job,   *)
(* and one that has marked a key has it marked.                            *)
(***************************************************************************)
ClaimType ==
    [step : ClaimStep, at : Nat, job : Job \cup {NoJob}, row : JobRow, article : ArticleRow]

Knows(c) ==
    /\ c.step # "idle" => c.job \in Job /\ c.at <= now
    /\ c.step \notin {"idle", "load"} => c.article.stored /\ articles[c.job[1]].stored
    /\ c.step \in {"readSucceeded", "saveSucceeded", "markLegacy"} => \E post \in posts : post[1] = c.job
    /\ c.step \in {"markVersion", "recordSuccess", "saveArticle"} => c.job \in legacyKeys

\* A batch saves what it has read, and only articles with a success record are stored.
Listed == \A p \in Process : \A a \in intake[p].unsaved : intake[p].items[a].stored

RecordedStored == \A j \in Job : delivered[j] # 0 => articles[j[1]].stored /\ delivered[j] <= now

PoolInv ==
    /\ TypeOK
    /\ \A w \in Worker : Knows(claim[w])
    /\ Listed /\ RecordedStored
    /\ KeyHasPost

LEMMA NoClaimKnows == NoClaim \in ClaimType /\ NoClaim.step = "idle" /\ Knows(NoClaim)
BY EmptyRows DEF NoClaim, ClaimType, ClaimStep, Knows

LEMMA InitPool == Init => PoolInv
<1> SUFFICES ASSUME Init PROVE PoolInv
  OBVIOUS
<1>1. StoreTypeOK /\ KeyHasPost /\ RecordedStored
  BY EmptyRows DEF Init, StoreInit, StoreTypeOK, KeyHasPost, RecordedStored
<1>2. IntakeTypeOK
  BY EmptyRows DEF Init, IntakeInit, IntakeTypeOK, NoIntake, NoItems
<1>3. Listed
  BY DEF Init, IntakeInit, NoIntake, Listed
<1>4. ClaimTypeOK /\ \A w \in Worker : Knows(claim[w])
  BY NoClaimKnows DEF Init, ClaimInit, ClaimTypeOK, ClaimType
<1> QED
  BY <1>1, <1>2, <1>3, <1>4 DEF PoolInv, TypeOK

(***************************************************************************)
(* A step of one worker.                                                   *)
(***************************************************************************)
LEMMA ClaimMoves ==
    ASSUME PoolInv, NEW w \in Worker, NEW c \in ClaimType, claim' = [claim EXCEPT ![w] = c],
           StoreTypeOK', RecordedStored', KeyHasPost', UNCHANGED <<intake, now>>,
           posts \subseteq posts', legacyKeys \subseteq legacyKeys',
           \A a \in Article : articles[a].stored => articles'[a].stored,
           c.step # "idle" => c.job \in Job /\ c.at <= now,
           c.step \notin {"idle", "load"} => c.article.stored /\ articles'[c.job[1]].stored,
           c.step \in {"readSucceeded", "saveSucceeded", "markLegacy"} => \E post \in posts' : post[1] = c.job,
           c.step \in {"markVersion", "recordSuccess", "saveArticle"} => c.job \in legacyKeys'
    PROVE  PoolInv'
<1>1. \A v \in Worker : claim'[v] = IF v = w THEN c ELSE claim[v]
  BY DEF PoolInv, TypeOK, ClaimTypeOK
<1>2. ClaimTypeOK'
  BY DEF PoolInv, TypeOK, ClaimTypeOK, ClaimType
<1>3. IntakeTypeOK' /\ Listed'
  BY DEF PoolInv, TypeOK, IntakeTypeOK, Listed
<1>4. ASSUME NEW v \in Worker PROVE Knows(claim[v])'
  <2>1. CASE v = w
    BY <1>1, <2>1 DEF Knows
  <2>2. CASE v # w
    <3>1. claim'[v] = claim[v] /\ Knows(claim[v])
      BY <1>1, <2>2 DEF PoolInv
    <3>2. claim[v].step # "idle" => claim[v].job[1] \in Article
      BY <3>1 DEF Knows, Job
    <3> QED
      BY <3>1, <3>2 DEF Knows
  <2> QED
    BY <2>1, <2>2
<1> QED
  BY <1>2, <1>3, <1>4 DEF PoolInv, TypeOK

LEMMA ClaimOf ==
    ASSUME PoolInv, NEW w \in Worker
    PROVE  /\ claim[w] \in ClaimType /\ Knows(claim[w])
           /\ claim[w].step # "idle" => claim[w].job \in Job /\ claim[w].job[1] \in Article
BY DEF PoolInv, TypeOK, ClaimTypeOK, ClaimType, Knows, Job

-----------------------------------------------------------------------------
(***************************************************************************)
(* The steps of a worker.                                                  *)
(***************************************************************************)
LEMMA ClaimNextPool ==
    ASSUME PoolInv, NEW w \in Worker, ClaimNext(w), UNCHANGED intake PROVE PoolInv'
<1>1. PICK j \in Claimable(now) :
        /\ jobs' = [jobs EXCEPT ![j] = Claimed(jobs[j], now)]
        /\ claim' = [claim EXCEPT ![w] = [NoClaim EXCEPT !.step = "load", !.at = now, !.job = j,
                                                         !.row = Claimed(jobs[j], now)]]
  BY DEF ClaimNext
<1>2. j \in Job /\ now \in Nat /\ jobs \in [Job -> JobRow]
  BY <1>1 DEF Claimable, NextFanOut, FanOut, NextNew, Eligible, PoolInv, TypeOK, StoreTypeOK
<1> DEFINE row == Claimed(jobs[j], now)
           c == [NoClaim EXCEPT !.step = "load", !.at = now, !.job = j, !.row = row]
<1>3. row \in JobRow
  BY <1>2, RowTypes
<1> HIDE DEF row
<1>4. c \in ClaimType /\ c.step = "load" /\ c.job = j /\ c.at = now
  BY <1>2, <1>3, NoClaimKnows DEF ClaimType, ClaimStep
<1>5. claim' = [claim EXCEPT ![w] = c] /\ jobs' = [jobs EXCEPT ![j] = row]
  BY <1>1 DEF row
<1> HIDE DEF c
<1>6. UNCHANGED <<articles, delivered, legacyKeys, versionKeys, channels, now>>
  BY DEF ClaimNext
<1>7. StoreTypeOK' /\ RecordedStored' /\ KeyHasPost'
  BY <1>2, <1>3, <1>5, <1>6
  DEF PoolInv, TypeOK, StoreTypeOK, RecordedStored, KeyHasPost, channels
<1>8. /\ c.job \in Job /\ c.at <= now
      /\ posts \subseteq posts' /\ legacyKeys \subseteq legacyKeys'
      /\ \A a \in Article : articles[a].stored => articles'[a].stored
      /\ UNCHANGED <<intake, now>>
  BY <1>2, <1>4, <1>6 DEF channels
<1> QED
  BY <1>4, <1>5, <1>7, <1>8, ClaimMoves

LEMMA LoadArticlePool ==
    ASSUME PoolInv, NEW w \in Worker, LoadArticle(w), UNCHANGED intake PROVE PoolInv'
<1>1. /\ claim[w] \in ClaimType /\ claim[w].step = "load" /\ claim[w].job \in Job
      /\ claim[w].job[1] \in Article /\ claim[w].at <= now
      /\ UNCHANGED <<articles, delivered, legacyKeys, versionKeys, channels, now>>
  BY ClaimOf DEF LoadArticle, Knows
<1> DEFINE j == claim[w].job
           article == articles[j[1]]
<1>2. CASE ~article.stored \/ j[2] \notin Publisher
  <2>1. SaveJob(j, DeadLetter(claim[w].row)) /\ claim' = [claim EXCEPT ![w] = NoClaim]
    BY <1>2 DEF LoadArticle
  <2>2. DeadLetter(claim[w].row) \in JobRow
    BY <1>1, RowTypes DEF ClaimType, PoolInv, TypeOK, StoreTypeOK
  <2>3. jobs' \in [Job -> JobRow]
    BY <1>1, <2>1, <2>2, SaveJobRow DEF PoolInv, TypeOK
  <2>4. StoreTypeOK' /\ RecordedStored' /\ KeyHasPost'
    BY <1>1, <2>3 DEF PoolInv, TypeOK, StoreTypeOK, RecordedStored, KeyHasPost, channels
  <2> QED
    BY <1>1, <2>1, <2>4, NoClaimKnows, ClaimMoves DEF channels
<1>3. CASE ~(~article.stored \/ j[2] \notin Publisher)
  <2> DEFINE skip == AlreadyDelivered(j, article)
             c == [claim[w] EXCEPT !.article = article,
                                   !.step = IF skip THEN "readSucceeded" ELSE "send"]
  <2>1. claim' = [claim EXCEPT ![w] = c] /\ UNCHANGED jobs
    BY <1>3 DEF LoadArticle, PoolInv, TypeOK, ClaimTypeOK
  <2>2. skip => \E post \in posts : post[1] = j
    <3>1. skip => j \in legacyKeys
      BY DEF AlreadyDelivered, PoolInv, KeyHasPost
    <3> QED
      BY <3>1 DEF PoolInv, KeyHasPost
  <2>3. article \in ArticleRow /\ article.stored
    BY <1>1, <1>3 DEF PoolInv, TypeOK, StoreTypeOK
  <2> HIDE DEF skip
  <2>4. c \in ClaimType /\ c.job = j /\ c.article = article /\ c.at = claim[w].at
        /\ c.step = IF skip THEN "readSucceeded" ELSE "send"
    BY <1>1, <2>3 DEF ClaimType, ClaimStep
  <2> HIDE DEF c
  <2>5. StoreTypeOK' /\ RecordedStored' /\ KeyHasPost'
    BY <1>1, <2>1 DEF PoolInv, TypeOK, StoreTypeOK, RecordedStored, KeyHasPost, channels
  <2> QED
    BY <1>1, <2>1, <2>2, <2>3, <2>4, <2>5, ClaimMoves DEF channels
<1> QED
  BY <1>2, <1>3

LEMMA SendPool ==
    ASSUME PoolInv, NEW w \in Worker, Send(w), UNCHANGED intake PROVE PoolInv'
<1>1. /\ claim[w] \in ClaimType /\ claim[w].step = "send" /\ claim[w].job \in Job
      /\ claim[w].job[1] \in Article /\ claim[w].at <= now /\ claim[w].article.stored
      /\ articles[claim[w].job[1]].stored
      /\ UNCHANGED <<store, now>>
  BY ClaimOf DEF Send, Knows
<1>2. PICK outcome \in Outcome :
        /\ IF outcome = "rejected" THEN UNCHANGED channels
           ELSE PostTo(claim[w].job, claim[w].article.ts)
        /\ claim' = [claim EXCEPT ![w].step =
                        IF outcome = "ok" THEN "readSucceeded" ELSE "readFailed"]
  BY DEF Send
<1> DEFINE step == IF outcome = "ok" THEN "readSucceeded" ELSE "readFailed"
           c == [claim[w] EXCEPT !.step = step]
<1>3. claim' = [claim EXCEPT ![w] = c]
  BY <1>2 DEF PoolInv, TypeOK, ClaimTypeOK
<1>4. step \in ClaimStep /\ step \in {"readSucceeded", "readFailed"}
      /\ (step = "readSucceeded" => outcome = "ok")
  BY DEF ClaimStep
<1> HIDE DEF step
<1>5. c \in ClaimType /\ c.job = claim[w].job /\ c.article = claim[w].article /\ c.at = claim[w].at
      /\ c.step = step
  BY <1>1, <1>4 DEF ClaimType
<1> HIDE DEF c
<1>6. claim[w].article.ts \in Nat
  BY <1>1 DEF ClaimType, ArticleRow
<1>7. /\ posts' \subseteq Job \X Nat /\ lastPost' \in [Job -> Nat] /\ reposts' \subseteq Job \X Nat
      /\ posts \subseteq posts'
      /\ outcome = "ok" => <<claim[w].job, claim[w].article.ts>> \in posts'
  BY <1>1, <1>2, <1>6 DEF PostTo, channels, PoolInv, TypeOK, StoreTypeOK
<1>8. StoreTypeOK' /\ RecordedStored' /\ KeyHasPost'
  BY <1>1, <1>7 DEF PoolInv, TypeOK, StoreTypeOK, RecordedStored, KeyHasPost, store
<1>9. outcome = "ok" => \E post \in posts' : post[1] = claim[w].job
  BY <1>7
<1> QED
  BY <1>1, <1>3, <1>4, <1>5, <1>7, <1>8, <1>9, ClaimMoves DEF store

LEMMA ReadPool ==
    ASSUME PoolInv, NEW w \in Worker, ReadSucceeded(w) \/ ReadFailed(w), UNCHANGED intake
    PROVE  PoolInv'
<1>1. PICK step \in {"saveSucceeded", "saveFailed"} :
        /\ claim' = [claim EXCEPT ![w].row = jobs[claim[w].job], ![w].step = step]
        /\ step = "saveSucceeded" => claim[w].step = "readSucceeded"
        /\ claim[w].step \in {"readSucceeded", "readFailed"}
        /\ UNCHANGED storeVars
  BY DEF ReadSucceeded, ReadFailed
<1>2. /\ claim[w] \in ClaimType /\ claim[w].job \in Job /\ claim[w].job[1] \in Article
      /\ claim[w].at <= now /\ claim[w].article.stored /\ articles[claim[w].job[1]].stored
      /\ jobs[claim[w].job] \in JobRow
      /\ step = "saveSucceeded" => \E post \in posts : post[1] = claim[w].job
  BY <1>1, ClaimOf DEF Knows, PoolInv, TypeOK, StoreTypeOK
<1> DEFINE c == [claim[w] EXCEPT !.row = jobs[claim[w].job], !.step = step]
<1>3. claim' = [claim EXCEPT ![w] = c]
  BY <1>1 DEF PoolInv, TypeOK, ClaimTypeOK
<1>4. c \in ClaimType /\ c.job = claim[w].job /\ c.article = claim[w].article
      /\ c.at = claim[w].at /\ c.step = step
  BY <1>2 DEF ClaimType, ClaimStep
<1> HIDE DEF c
<1>5. UNCHANGED <<articles, jobs, delivered, legacyKeys, versionKeys, posts, lastPost, reposts, now>>
  BY <1>1 DEF storeVars, store, channels
<1>6. StoreTypeOK' /\ KeyHasPost' /\ RecordedStored'
  BY <1>5 DEF PoolInv, TypeOK, StoreTypeOK, KeyHasPost, RecordedStored
<1> QED
  BY <1>2, <1>3, <1>4, <1>5, <1>6, ClaimMoves

LEMMA AcknowledgePool ==
    ASSUME PoolInv, NEW w \in Worker, UNCHANGED intake,
           SaveSucceeded(w) \/ MarkLegacy(w) \/ MarkVersion(w) \/ SaveFailed(w)
    PROVE  PoolInv'
<1>1. /\ claim[w] \in ClaimType /\ claim[w].job \in Job /\ claim[w].job[1] \in Article
      /\ claim[w].at <= now /\ claim[w].article.stored /\ articles[claim[w].job[1]].stored
      /\ claim[w].row \in JobRow /\ claim[w].at \in Nat
      /\ UNCHANGED <<articles, delivered, channels, now>>
  BY ClaimOf DEF SaveSucceeded, MarkLegacy, MarkVersion, SaveFailed, Knows, ClaimType, PoolInv,
                 TypeOK, StoreTypeOK
<1>2. ASSUME NEW step \in {"markLegacy", "markVersion", "recordSuccess", "recordFailure"},
             claim' = [claim EXCEPT ![w].step = step], StoreTypeOK', KeyHasPost',
             legacyKeys \subseteq legacyKeys',
             step = "markLegacy" => \E post \in posts : post[1] = claim[w].job,
             step \in {"markVersion", "recordSuccess"} => claim[w].job \in legacyKeys'
      PROVE  PoolInv'
  <2> DEFINE c == [claim[w] EXCEPT !.step = step]
  <2>1. claim' = [claim EXCEPT ![w] = c]
    BY <1>2 DEF PoolInv, TypeOK, ClaimTypeOK
  <2>2. c \in ClaimType /\ c.job = claim[w].job /\ c.article = claim[w].article
        /\ c.at = claim[w].at /\ c.step = step
    BY <1>1 DEF ClaimType, ClaimStep
  <2> HIDE DEF c
  <2>3. RecordedStored'
    BY <1>1 DEF PoolInv, RecordedStored
  <2>4. /\ posts \subseteq posts' /\ UNCHANGED <<intake, now>>
        /\ \A a \in Article : articles[a].stored => articles'[a].stored
        /\ c.article.stored /\ articles'[c.job[1]].stored /\ c.job \in Job /\ c.at <= now
    BY <1>1, <2>2 DEF channels
  <2>5. /\ c.step \in {"readSucceeded", "saveSucceeded", "markLegacy"} => \E post \in posts' : post[1] = c.job
        /\ c.step \in {"markVersion", "recordSuccess", "saveArticle"} => c.job \in legacyKeys'
    BY <1>2, <2>2, <2>4
  <2> QED
    BY <1>2, <2>1, <2>2, <2>3, <2>4, <2>5, ClaimMoves
<1>3. ASSUME NEW row \in JobRow, SaveJob(claim[w].job, row), UNCHANGED <<legacyKeys, versionKeys>>
      PROVE  StoreTypeOK' /\ KeyHasPost'
  BY <1>1, <1>3, SaveJobRow DEF PoolInv, TypeOK, StoreTypeOK, KeyHasPost, channels
<1>4. CASE SaveSucceeded(w)
  <2>1. Succeeded(claim[w].row) \in JobRow
    BY <1>1, RowTypes
  <2>2. \E post \in posts : post[1] = claim[w].job
    BY <1>4, ClaimOf DEF SaveSucceeded, Knows
  <2> QED
    BY <1>2, <1>3, <1>4, <2>1, <2>2 DEF SaveSucceeded
<1>5. CASE SaveFailed(w)
  <2>1. Failed(claim[w].row, claim[w].at) \in JobRow
    BY <1>1, RowTypes
  <2> QED
    BY <1>2, <1>3, <1>5, <2>1 DEF SaveFailed
<1>6. CASE MarkLegacy(w)
  <2>1. \E post \in posts : post[1] = claim[w].job
    BY <1>6, ClaimOf DEF MarkLegacy, Knows
  <2>2. StoreTypeOK' /\ KeyHasPost' /\ legacyKeys' = legacyKeys \cup {claim[w].job}
    BY <1>1, <1>6, <2>1 DEF MarkLegacy, PoolInv, TypeOK, StoreTypeOK, KeyHasPost, channels
  <2> QED
    BY <1>2, <1>6, <2>2 DEF MarkLegacy
<1>7. CASE MarkVersion(w)
  <2>1. claim[w].job \in legacyKeys /\ UNCHANGED legacyKeys
    BY <1>7, ClaimOf DEF MarkVersion, Knows
  <2>2. versionKeys' = versionKeys \cup {<<claim[w].job, articles[claim[w].job[1]].ts>>}
        /\ articles[claim[w].job[1]].ts \in Nat
    BY <1>1, <1>7 DEF MarkVersion, PoolInv, TypeOK, StoreTypeOK, ArticleRow
  <2>3. StoreTypeOK'
    BY <1>1, <1>7, <2>2 DEF MarkVersion, PoolInv, TypeOK, StoreTypeOK, channels
  <2>4. KeyHasPost'
    BY <1>1, <2>1, <2>2 DEF PoolInv, KeyHasPost, channels
  <2> QED
    BY <1>2, <1>7, <2>1, <2>3, <2>4 DEF MarkVersion
<1> QED
  BY <1>4, <1>5, <1>6, <1>7

LEMMA RecordPool ==
    ASSUME PoolInv, NEW w \in Worker, UNCHANGED intake,
           RecordSuccess(w) \/ RecordFailure(w) \/ SaveArticle(w)
    PROVE  PoolInv'
<1>1. /\ claim[w] \in ClaimType /\ claim[w].job \in Job /\ claim[w].job[1] \in Article
      /\ claim[w].at <= now /\ claim[w].article.stored /\ articles[claim[w].job[1]].stored
      /\ claim[w].at \in Nat
      /\ UNCHANGED <<jobs, legacyKeys, versionKeys, channels, now>>
  BY ClaimOf DEF RecordSuccess, RecordFailure, SaveArticle, Knows, ClaimType
<1>2. CASE RecordSuccess(w)
  <2> DEFINE c == [claim[w] EXCEPT !.step = "saveArticle"]
  <2>1. claim' = [claim EXCEPT ![w] = c]
    BY <1>2 DEF RecordSuccess, PoolInv, TypeOK, ClaimTypeOK
  <2>2. c \in ClaimType /\ c.job = claim[w].job /\ c.article = claim[w].article
        /\ c.at = claim[w].at /\ c.step = "saveArticle"
    BY <1>1 DEF ClaimType, ClaimStep
  <2> HIDE DEF c
  <2>3. delivered' = [delivered EXCEPT ![claim[w].job] = claim[w].at] /\ UNCHANGED articles
        /\ claim[w].job \in legacyKeys
    BY <1>2, ClaimOf DEF RecordSuccess, RecordDelivery, Knows
  <2>4. StoreTypeOK' /\ KeyHasPost' /\ RecordedStored'
    BY <1>1, <2>3 DEF PoolInv, TypeOK, StoreTypeOK, KeyHasPost, RecordedStored, channels
  <2> QED
    BY <1>1, <2>1, <2>2, <2>3, <2>4, ClaimMoves DEF channels
<1>3. CASE RecordFailure(w)
  <2>1. /\ claim' = [claim EXCEPT ![w] = NoClaim] /\ UNCHANGED articles
        /\ delivered' = [delivered EXCEPT ![claim[w].job] = 0]
    BY <1>3 DEF RecordFailure, RecordDelivery
  <2>2. StoreTypeOK' /\ KeyHasPost' /\ RecordedStored'
    BY <1>1, <2>1 DEF PoolInv, TypeOK, StoreTypeOK, KeyHasPost, RecordedStored, channels
  <2> QED
    BY <1>1, <2>1, <2>2, NoClaimKnows, ClaimMoves DEF channels
<1>4. CASE SaveArticle(w)
  <2> DEFINE new == [claim[w].article EXCEPT !.sent = claim[w].at]
  <2>1. /\ claim' = [claim EXCEPT ![w] = NoClaim] /\ UNCHANGED delivered
        /\ articles' = [articles EXCEPT ![claim[w].job[1]] = new]
    BY <1>4 DEF SaveArticle
  <2>2. new \in ArticleRow /\ new.stored
    BY <1>1 DEF ArticleRow, ClaimType
  <2> HIDE DEF new
  <2>3. articles' \in [Article -> ArticleRow]
        /\ \A a \in Article : articles[a].stored => articles'[a].stored
    BY <2>1, <2>2 DEF PoolInv, TypeOK, StoreTypeOK
  <2>4. StoreTypeOK' /\ KeyHasPost' /\ RecordedStored'
    BY <1>1, <2>1, <2>3
    DEF PoolInv, TypeOK, StoreTypeOK, KeyHasPost, RecordedStored, channels, Job
  <2> QED
    BY <1>1, <2>1, <2>3, <2>4, NoClaimKnows, ClaimMoves DEF channels
<1> QED
  BY <1>2, <1>3, <1>4

LEMMA WorkStepPool == ASSUME PoolInv, NEW w \in Worker, WorkStep(w) PROVE PoolInv'
<1>1. CASE RecoverLeases(w)
  <2>1. jobs' \in [Job -> JobRow]
    BY <1>1, RecoverRows DEF RecoverLeases, PoolInv, TypeOK
  <2>2. UNCHANGED <<articles, delivered, legacyKeys, versionKeys, channels, now, claim, intake>>
    BY <1>1 DEF RecoverLeases, WorkStep
  <2>3. \A v \in Worker : Knows(claim[v])'
    BY <2>2 DEF PoolInv, Knows, channels
  <2>4. TypeOK'
    BY <2>1, <2>2 DEF PoolInv, TypeOK, StoreTypeOK, IntakeTypeOK, ClaimTypeOK, channels
  <2> QED
    BY <2>2, <2>3, <2>4 DEF PoolInv, Listed, RecordedStored, KeyHasPost, channels
<1>2. CASE LoseClaim(w)
  <2>1. claim' = [claim EXCEPT ![w] = NoClaim] /\ UNCHANGED storeVars /\ UNCHANGED intake
    BY <1>2 DEF LoseClaim, WorkStep
  <2>2. UNCHANGED <<articles, jobs, delivered, legacyKeys, versionKeys, posts, lastPost, reposts, now>>
    BY <2>1 DEF storeVars, store, channels
  <2>3. StoreTypeOK' /\ KeyHasPost' /\ RecordedStored'
    BY <2>2 DEF PoolInv, TypeOK, StoreTypeOK, KeyHasPost, RecordedStored
  <2> QED
    BY <2>1, <2>2, <2>3, NoClaimKnows, ClaimMoves
<1> QED
  BY <1>1, <1>2, ClaimNextPool, LoadArticlePool, SendPool, ReadPool,
     AcknowledgePool, RecordPool
  DEF WorkStep, RunOnce, Publish

-----------------------------------------------------------------------------
(***************************************************************************)
(* The steps of an ingestion.                                              *)
(***************************************************************************)
LEMMA IntakeMoves ==
    ASSUME PoolInv, IntakeTypeOK', Listed', StoreTypeOK',
           \A a \in Article : articles[a].stored => articles'[a].stored,
           UNCHANGED <<claim, delivered, legacyKeys, versionKeys, channels, now>>
    PROVE  PoolInv'
<1>1. \A w \in Worker : Knows(claim[w])'
  <2> SUFFICES ASSUME NEW w \in Worker PROVE Knows(claim[w])'
    OBVIOUS
  <2> QED
    BY ClaimOf DEF Knows, channels
<1>2. RecordedStored' /\ KeyHasPost'
  BY DEF PoolInv, RecordedStored, KeyHasPost, channels, Job
<1>3. ClaimTypeOK'
  BY DEF PoolInv, TypeOK, ClaimTypeOK
<1> QED
  BY <1>1, <1>2, <1>3 DEF PoolInv, TypeOK

LEMMA NormalizeType ==
    ASSUME StoreTypeOK, NEW a \in Article, NEW ts \in Nat
    PROVE  Normalize(a, ts) \in ArticleRow /\ Normalize(a, ts).stored
BY DEF Normalize, ArticleRow, StoreTypeOK

BatchType ==
    [step : {"idle", "filter", "queue", "save", "done"}, items : [Article -> ArticleRow],
     todo : SUBSET Job, unsaved : SUBSET Article]

LEMMA BatchMoves ==
    ASSUME PoolInv, NEW p \in Process, NEW b \in BatchType, intake' = [intake EXCEPT ![p] = b],
           \A a \in b.unsaved : b.items[a].stored
    PROVE  IntakeTypeOK' /\ Listed'
<1>1. \A q \in Process : intake'[q] = IF q = p THEN b ELSE intake[q]
  BY DEF PoolInv, TypeOK, IntakeTypeOK
<1>2. IntakeTypeOK'
  BY DEF PoolInv, TypeOK, IntakeTypeOK, BatchType
<1> QED
  BY <1>1, <1>2 DEF PoolInv, Listed

LEMMA BatchOf ==
    ASSUME PoolInv, NEW p \in Process
    PROVE  intake[p] \in BatchType /\ \A a \in intake[p].unsaved : intake[p].items[a].stored
BY DEF PoolInv, TypeOK, IntakeTypeOK, BatchType, Listed

LEMMA NoIntakeType == NoIntake \in BatchType /\ NoIntake.unsaved = {}
BY EmptyRows DEF NoIntake, NoItems, BatchType

LEMMA StoreRests ==
    ASSUME PoolInv, IntakeTypeOK', Listed', UNCHANGED storeVars, UNCHANGED claim
    PROVE  PoolInv'
<1>1. UNCHANGED <<articles, jobs, delivered, legacyKeys, versionKeys, channels, now>>
  BY DEF storeVars, store
<1>2. StoreTypeOK'
  BY <1>1 DEF PoolInv, TypeOK, StoreTypeOK, channels
<1> QED
  BY <1>1, <1>2, IntakeMoves

LEMMA FetchPool == ASSUME PoolInv, NEW p \in Process, Fetch(p), UNCHANGED claim PROVE PoolInv'
<1>1. PICK S \in (SUBSET Article) \ {{}} : \E ts \in FetchMany(S) :
        intake' = [intake EXCEPT ![p] =
            [step    |-> "filter",
             items   |-> [a \in Article |-> IF a \in S THEN Normalize(a, ts[a]) ELSE NoArticle],
             todo    |-> {j \in Job : j[1] \in S /\ Fresh(ts[j[1]])},
             unsaved |-> S]]
  BY DEF Fetch
<1>2. PICK ts \in FetchMany(S), todo \in SUBSET Job :
        intake' = [intake EXCEPT ![p] =
            [step    |-> "filter",
             items   |-> [a \in Article |-> IF a \in S THEN Normalize(a, ts[a]) ELSE NoArticle],
             todo    |-> todo,
             unsaved |-> S]]
  <2>1. \A ts : {j \in Job : j[1] \in S /\ Fresh(ts[j[1]])} \in SUBSET Job
    OBVIOUS
  <2> QED
    BY <1>1, <2>1
<1> DEFINE items == [a \in Article |-> IF a \in S THEN Normalize(a, ts[a]) ELSE NoArticle]
           b == [step |-> "filter", items |-> items, todo |-> todo, unsaved |-> S]
<1>3. \A a \in S : ts[a] \in Nat
  BY IngestionAssumption DEF IngestionAssumption, FetchMany
<1>4. \A a \in S : items[a] \in ArticleRow /\ items[a].stored
  BY <1>3, NormalizeType DEF PoolInv, TypeOK
<1>5. items \in [Article -> ArticleRow]
  BY <1>4, EmptyRows
<1>6. intake' = [intake EXCEPT ![p] = b]
  BY <1>2
<1> HIDE DEF items
<1>7. b \in BatchType /\ \A a \in b.unsaved : b.items[a].stored
  BY <1>4, <1>5 DEF BatchType
<1> HIDE DEF b
<1>8. IntakeTypeOK' /\ Listed'
  BY <1>6, <1>7, BatchMoves
<1> QED
  BY <1>8, StoreRests DEF Fetch

LEMMA FilterPool == ASSUME PoolInv, NEW p \in Process, Filter(p), UNCHANGED claim PROVE PoolInv'
<1>1. PICK todo \in SUBSET intake[p].todo :
        intake' = [intake EXCEPT ![p].todo = todo,
                                 ![p].step = IF todo = {} THEN "save" ELSE "queue"]
  <2>1. {j \in intake[p].todo : ~FullyDelivered(j[1], intake[p].items[j[1]])} \in SUBSET intake[p].todo
    OBVIOUS
  <2> QED
    BY <2>1 DEF Filter
<1> DEFINE b == [intake[p] EXCEPT !.todo = todo, !.step = IF todo = {} THEN "save" ELSE "queue"]
<1>2. intake' = [intake EXCEPT ![p] = b]
  BY <1>1 DEF PoolInv, TypeOK, IntakeTypeOK
<1>3. b \in BatchType /\ b.unsaved = intake[p].unsaved /\ b.items = intake[p].items
  BY BatchOf DEF BatchType
<1> HIDE DEF b
<1>4. IntakeTypeOK' /\ Listed'
  BY <1>2, <1>3, BatchOf, BatchMoves
<1> QED
  BY <1>4, StoreRests DEF Filter

LEMMA NewRowType == ASSUME StoreTypeOK PROVE NewRow \in JobRow /\ NewRow.status = "pending"
BY DEF NewRow, NoRow, JobRow, Status, StoreTypeOK

LEMMA QueueJobPool == ASSUME PoolInv, NEW p \in Process, QueueJob(p), UNCHANGED claim PROVE PoolInv'
<1>1. PICK j \in intake[p].todo :
        /\ SaveJob(j, NewRow) \/ UNCHANGED jobs
        /\ intake' = [intake EXCEPT ![p].todo = @ \ {j},
                                    ![p].step = IF intake[p].todo = {j} THEN "save" ELSE @]
  BY DEF QueueJob
<1> DEFINE b == [intake[p] EXCEPT !.todo = @ \ {j},
                                  !.step = IF intake[p].todo = {j} THEN "save" ELSE @]
<1>2. intake' = [intake EXCEPT ![p] = b]
  BY <1>1 DEF PoolInv, TypeOK, IntakeTypeOK
<1>3. intake[p] \in BatchType /\ j \in Job
  BY <1>1, BatchOf DEF BatchType
<1>4. b \in BatchType /\ b.unsaved = intake[p].unsaved /\ b.items = intake[p].items
  BY <1>3 DEF BatchType
<1> HIDE DEF b
<1>5. IntakeTypeOK' /\ Listed'
  BY <1>2, <1>4, BatchOf, BatchMoves
<1>6. jobs' \in [Job -> JobRow]
  BY <1>1, <1>3, SaveJobRow, NewRowType DEF PoolInv, TypeOK, StoreTypeOK
<1>7. UNCHANGED <<articles, delivered, legacyKeys, versionKeys, channels, now>>
  BY DEF QueueJob
<1>8. StoreTypeOK'
  BY <1>6, <1>7 DEF PoolInv, TypeOK, StoreTypeOK, channels
<1> QED
  BY <1>5, <1>7, <1>8, IntakeMoves

LEMMA SaveItemPool == ASSUME PoolInv, NEW p \in Process, SaveItem(p), UNCHANGED claim PROVE PoolInv'
<1>1. PICK a \in intake[p].unsaved :
        /\ articles' = [articles EXCEPT ![a] = intake[p].items[a]]
        /\ intake' = [intake EXCEPT ![p] = Unsaved(intake[p], a)]
  BY DEF SaveItem, PoolInv, TypeOK, IntakeTypeOK
<1>2. /\ intake[p] \in BatchType /\ a \in Article /\ intake[p].items[a] \in ArticleRow
      /\ intake[p].items[a].stored
  BY <1>1, BatchOf DEF BatchType
<1>3. Unsaved(intake[p], a) \in BatchType
      /\ \A x \in Unsaved(intake[p], a).unsaved : Unsaved(intake[p], a).items[x].stored
  <2>1. CASE intake[p].unsaved = {a}
    BY <2>1, NoIntakeType DEF Unsaved, BatchType, NoIntake
  <2>2. CASE intake[p].unsaved # {a}
    BY <1>2, <2>2, BatchOf DEF Unsaved, BatchType
  <2> QED
    BY <2>1, <2>2
<1>4. IntakeTypeOK' /\ Listed'
  BY <1>1, <1>3, BatchMoves
<1>5. UNCHANGED <<jobs, delivered, legacyKeys, versionKeys, channels, now>>
  BY DEF SaveItem
<1>6. StoreTypeOK' /\ \A x \in Article : articles[x].stored => articles'[x].stored
  BY <1>1, <1>2, <1>5 DEF PoolInv, TypeOK, StoreTypeOK, channels
<1> QED
  BY <1>4, <1>5, <1>6, IntakeMoves

LEMMA NextPool == PoolInv /\ [Next]_vars => PoolInv'
<1> SUFFICES ASSUME PoolInv, [Next]_vars PROVE PoolInv'
  OBVIOUS
<1>1. CASE TickStep
  <2>1. /\ now' = now + 1 /\ now \in Nat
        /\ UNCHANGED <<articles, jobs, delivered, legacyKeys, versionKeys, channels, claim, intake>>
    BY <1>1 DEF TickStep, PassTime, Tick, store, PoolInv, TypeOK, StoreTypeOK
  <2>2. TypeOK'
    BY <2>1 DEF PoolInv, TypeOK, StoreTypeOK, IntakeTypeOK, ClaimTypeOK, channels
  <2>3. \A w \in Worker : Knows(claim[w])'
    BY <2>1, ClaimOf DEF Knows, ClaimType, channels
  <2>4. RecordedStored'
    BY <2>1 DEF PoolInv, RecordedStored, TypeOK, StoreTypeOK
  <2> QED
    BY <2>1, <2>2, <2>3, <2>4 DEF PoolInv, Listed, KeyHasPost, channels
<1>2. ASSUME NEW p \in Ingester, IngestStep(p) PROVE PoolInv'
  <2>0. p \in Process
    BY PoolAssumption DEF PoolAssumption
  <2>1. CASE Ingest(p)
    BY <1>2, <2>0, <2>1, FetchPool, FilterPool, QueueJobPool, SaveItemPool DEF IngestStep, Ingest
  <2>2. CASE intake' = [intake EXCEPT ![p] = NoIntake] /\ UNCHANGED storeVars
    <3>1. IntakeTypeOK' /\ Listed'
      BY <2>0, <2>2, NoIntakeType, BatchMoves
    <3> QED
      BY <1>2, <2>2, <3>1, StoreRests DEF IngestStep
  <2> QED
    BY <1>2, <2>1, <2>2 DEF IngestStep
<1>3. CASE UNCHANGED vars
  <2>1. UNCHANGED <<articles, jobs, delivered, legacyKeys, versionKeys, channels, now, claim, intake>>
    BY <1>3 DEF vars, storeVars, store
  <2>2. TypeOK' /\ Listed'
    BY <2>1 DEF PoolInv, TypeOK, StoreTypeOK, IntakeTypeOK, ClaimTypeOK, channels, Listed
  <2> QED
    BY <2>1, <2>2, IntakeMoves DEF TypeOK
<1> QED
  BY <1>1, <1>2, <1>3, WorkStepPool DEF Next

LEMMA PoolHolds == Spec => []PoolInv
BY InitPool, NextPool, PTL DEF Spec

(***************************************************************************)
(* Types hold, whatever overlaps, crashes and expires.                     *)
(***************************************************************************)
THEOREM WorkerTypeCorrect == Spec => []TypeOK
<1>1. PoolInv => TypeOK
  BY DEF PoolInv
<1> QED
  BY <1>1, PoolHolds, PTL

(***************************************************************************)
(* No key is marked for a destination that never received the article,     *)
(* whoever crashes, retries, skips and re-queues meanwhile.                *)
(***************************************************************************)
THEOREM WorkerKeysArePosted == Spec => []KeyHasPost
<1>1. PoolInv => KeyHasPost
  BY DEF PoolInv
<1> QED
  BY <1>1, PoolHolds, PTL

-----------------------------------------------------------------------------
(***************************************************************************)
(* Claims left alone.  A worker keeps its claim until another process has  *)
(* saved the row of the job or, the lease having run out, taken it back.   *)
(* While it keeps it the row is as the worker last left it, so no other    *)
(* worker finds the job eligible.                                          *)
(***************************************************************************)
Claiming(w) == claim[w].step # "idle"

Early == {"load", "send", "readSucceeded", "saveSucceeded", "readFailed", "saveFailed"}

Kept(w) ==
    /\ Working(w)
    /\ <<claim[w].job, "overwritten">> \notin disturbed
    /\ Running(w) \/ <<claim[w].job, "expired">> \notin disturbed

Owned(w) ==
    LET row == jobs[claim[w].job]
    IN  /\ claim[w].step \in Early =>
              row.status = "processing" /\ row.lease = claim[w].at + Lease
        /\ claim[w].step \notin Early => row.status = "succeeded"

\* The version that was loaded is the one that is stored.
Current(w) ==
    /\ claim[w].step \notin {"idle", "load"}
    /\ <<claim[w].job, "redated">> \notin disturbed
    => claim[w].article.ts = articles[claim[w].job[1]].ts

Exclusive ==
    \A w, v \in Worker : Kept(w) /\ Kept(v) /\ claim[w].job = claim[v].job => w = v

KeptInv ==
    /\ \A w \in Worker : (Kept(w) => Owned(w)) /\ Current(w)
    /\ Exclusive

(***************************************************************************)
(* A post of a job that was left alone has its version marked, or a worker *)
(* is about to mark it; and a version that is marked is not sent again.    *)
(***************************************************************************)
Posting == {"readSucceeded", "saveSucceeded", "markLegacy", "markVersion"}

Version(w) == <<claim[w].job, claim[w].article.ts>>

Unmarked(w) == claim[w].step = "send" /\ Calm(claim[w].job) => Version(w) \notin versionKeys

Answered(post) ==
    \/ post \in versionKeys
    \/ \E w \in Worker : claim[w].step \in Posting /\ post = Version(w)

PostsInv ==
    /\ \A w \in Worker : Unmarked(w)
    /\ \A post \in posts : Calm(post[1]) => Answered(post)
    /\ RepostsExplained

LEMMA CalmKept ==
    ASSUME NEW w \in Worker, Working(w), Calm(claim[w].job)
    PROVE  Kept(w)
BY DEF Kept, Calm, Trouble

LEMMA TroubleGrows == ASSUME NextH PROVE disturbed \subseteq disturbed'
BY DEF NextH, IngestStepH, RecoverH, ClaimH, PublishH, DieH

LEMMA HistoryInit == InitH => Init /\ KeptInv /\ PostsInv
<1> SUFFICES ASSUME InitH PROVE Init /\ KeptInv /\ PostsInv
  OBVIOUS
<1>1. Init /\ posts = {} /\ reposts = {} /\ \A w \in Worker : claim[w].step = "idle"
  BY NoClaimKnows DEF InitH, Init, StoreInit, ClaimInit
<1> QED
  BY <1>1 DEF KeptInv, PostsInv, Kept, Working, Current, Exclusive, Unmarked, RepostsExplained

LEMMA HistoryRefines == [NextH]_varsH => [Next]_vars
BY DEF NextH, varsH, IngestStepH, RecoverH, ClaimH, PublishH, DieH, Next, WorkStep, RunOnce

LEMMA HistoryPool == SpecH => []PoolInv
BY HistoryInit, HistoryRefines, InitPool, NextPool, PTL DEF SpecH

(***************************************************************************)
(* The workers whose claims a step leaves as they are: it must own up to   *)
(* each row and each version it changes for them.                          *)
(***************************************************************************)
LEMMA Bystanders ==
    ASSUME PoolInv, KeptInv, PoolInv', disturbed \subseteq disturbed', now <= now',
           NEW v \in Worker, claim'[v] = claim[v],
           Claiming(v) /\ RowSaved(v) =>
              \/ <<claim[v].job, "overwritten">> \in disturbed'
              \/ ~Running(v) /\ <<claim[v].job, "expired">> \in disturbed'
              \/ ~Kept(v),
           Claiming(v) /\ Redated(v) => <<claim[v].job, "redated">> \in disturbed'
    PROVE  /\ Kept(v)' => Kept(v) /\ claim'[v].job = claim[v].job
           /\ (Kept(v) => Owned(v))' /\ Current(v)'
<1>1. claim[v].at \in Nat /\ now \in Nat /\ now' \in Nat /\ Lease \in Nat
  BY ClaimOf, StoreAssumption DEF StoreAssumption, ClaimType, PoolInv, TypeOK, StoreTypeOK
<1>2. Kept(v)' => Kept(v)
  BY <1>1 DEF Kept, Working, Running
<1>3. Kept(v)' => ~RowSaved(v)
  BY <1>1, <1>2 DEF Kept, Working, Running, Claiming
<1>4. (Kept(v) => Owned(v))'
  BY <1>2, <1>3 DEF KeptInv, Owned, RowSaved
<1>5. Current(v)'
  BY DEF KeptInv, Current, Redated, Claiming
<1> QED
  BY <1>2, <1>4, <1>5

(***************************************************************************)
(* A step that starts no work takes no job from another worker.            *)
(***************************************************************************)
LEMMA StillExclusive ==
    ASSUME KeptInv,
           \A v \in Worker : Kept(v)' => Kept(v) /\ claim'[v].job = claim[v].job
    PROVE  Exclusive'
BY DEF KeptInv, Exclusive

(***************************************************************************)
(* What the steps that publish do to their own claim and to the rest.      *)
(***************************************************************************)
Moves ==
    {<<"load", "idle">>, <<"load", "readSucceeded">>, <<"load", "send">>,
     <<"send", "readSucceeded">>, <<"send", "readFailed">>,
     <<"readSucceeded", "saveSucceeded">>, <<"saveSucceeded", "markLegacy">>,
     <<"markLegacy", "markVersion">>, <<"markVersion", "recordSuccess">>,
     <<"recordSuccess", "saveArticle">>, <<"saveArticle", "idle">>,
     <<"readFailed", "saveFailed">>, <<"saveFailed", "recordFailure">>,
     <<"recordFailure", "idle">>}

PublishMoves(w) ==
    /\ claim[w].step # "idle" /\ <<claim[w].step, claim'[w].step>> \in Moves
    /\ \A v \in Worker \ {w} : claim'[v] = claim[v]
    /\ claim'[w].step # "idle" =>
          /\ claim'[w].job = claim[w].job /\ claim'[w].at = claim[w].at
          /\ claim'[w].article = IF claim[w].step = "load" THEN articles[claim[w].job[1]]
                                 ELSE claim[w].article
    /\ now' = now

PublishWrites(w) ==
    /\ claim'[w].step \notin {"idle", "markLegacy", "recordFailure"} => jobs' = jobs
    /\ claim'[w].step = "markLegacy" => jobs'[claim[w].job].status = "succeeded"
    /\ claim[w].step # "saveArticle" => articles' = articles
    /\ claim[w].step # "send" => UNCHANGED channels
    /\ claim[w].step # "markVersion" => versionKeys' = versionKeys
    /\ claim[w].step = "markVersion" =>
          versionKeys' = versionKeys \cup {<<claim[w].job, articles[claim[w].job[1]].ts>>}
    /\ claim'[w].step = "send" => ~AlreadyDelivered(claim[w].job, articles[claim[w].job[1]])

LEMMA PublishingMoves ==
    ASSUME PoolInv, NEW w \in Worker, Publish(w)
    PROVE  PublishMoves(w) /\ PublishWrites(w)
<1>0. /\ claim \in [Worker -> ClaimType] /\ jobs \in [Job -> JobRow]
      /\ claim[w].step # "idle" => claim[w].job \in Job
      /\ claim[w].step \notin {"idle", "load"} => articles[claim[w].job[1]].stored
  BY ClaimOf DEF PoolInv, TypeOK, ClaimTypeOK, StoreTypeOK, ClaimType, Knows
<1>1. ASSUME NEW step, claim' = [claim EXCEPT ![w].step = step], claim[w].step # "load",
             <<claim[w].step, step>> \in Moves, claim[w].step # "idle", now' = now
      PROVE  PublishMoves(w) /\ claim'[w].step = step
  BY <1>0, <1>1 DEF PublishMoves, ClaimType
<1>2. ASSUME claim' = [claim EXCEPT ![w] = NoClaim], <<claim[w].step, "idle">> \in Moves,
             claim[w].step # "idle", now' = now
      PROVE  PublishMoves(w) /\ claim'[w].step = "idle"
  BY <1>0, <1>2, NoClaimKnows DEF PublishMoves
<1>3. CASE LoadArticle(w)
  <2>1. /\ claim[w].step = "load" /\ now' = now
        /\ UNCHANGED <<articles, versionKeys, channels>>
    BY <1>3 DEF LoadArticle
  <2>2. CASE claim' = [claim EXCEPT ![w] = NoClaim]
    BY <1>2, <2>1, <2>2 DEF PublishWrites, Moves
  <2>3. CASE claim' # [claim EXCEPT ![w] = NoClaim]
    <3> DEFINE article == articles[claim[w].job[1]]
    <3>1. PICK step \in {"readSucceeded", "send"} :
            /\ claim' = [claim EXCEPT ![w].article = article, ![w].step = step]
            /\ step = "send" => ~AlreadyDelivered(claim[w].job, article)
            /\ jobs' = jobs
      BY <1>3, <2>3 DEF LoadArticle
    <3>2. PublishMoves(w) /\ claim'[w].step = step
      BY <1>0, <2>1, <3>1 DEF PublishMoves, ClaimType, Moves
    <3> QED
      BY <2>1, <3>1, <3>2 DEF PublishWrites
  <2> QED
    BY <2>2, <2>3
<1>4. CASE Send(w)
  <2>1. PICK step \in {"readSucceeded", "readFailed"} : claim' = [claim EXCEPT ![w].step = step]
    BY <1>4 DEF Send
  <2>2. claim[w].step = "send" /\ UNCHANGED <<articles, jobs, versionKeys, now>>
    BY <1>4 DEF Send, store
  <2> QED
    BY <1>1, <2>1, <2>2 DEF PublishWrites, Moves
<1>5. CASE ReadSucceeded(w) \/ ReadFailed(w)
  <2>1. PICK step \in {"saveSucceeded", "saveFailed"} :
          /\ claim' = [claim EXCEPT ![w].row = jobs[claim[w].job], ![w].step = step]
          /\ <<claim[w].step, step>> \in Moves
    BY <1>5 DEF ReadSucceeded, ReadFailed, Moves
  <2>2. claim[w].step \in {"readSucceeded", "readFailed"}
        /\ UNCHANGED <<articles, jobs, versionKeys, channels, now>>
    BY <1>5 DEF ReadSucceeded, ReadFailed, storeVars, store
  <2>3. PublishMoves(w) /\ claim'[w].step = step
    BY <1>0, <2>1, <2>2 DEF PublishMoves, ClaimType
  <2> QED
    BY <2>1, <2>2, <2>3 DEF PublishWrites
<1>6. CASE SaveSucceeded(w)
  <2>1. claim[w].step = "saveSucceeded" /\ UNCHANGED <<articles, versionKeys, channels, now>>
        /\ claim' = [claim EXCEPT ![w].step = "markLegacy"]
    BY <1>6 DEF SaveSucceeded
  <2>2. claim[w].row \in JobRow /\ claim[w].job \in Job
    BY <1>0, <2>1 DEF ClaimType
  <2>3. jobs'[claim[w].job].status = "succeeded"
    <3>1. Succeeded(claim[w].row) \in JobRow /\ Succeeded(claim[w].row).status = "succeeded"
      BY <2>2, RowTypes DEF Succeeded, JobRow, PoolInv, TypeOK, StoreTypeOK
    <3> QED
      BY <1>6, <2>2, <3>1, SaveJobRow DEF SaveSucceeded, PoolInv, TypeOK
  <2>4. PublishMoves(w) /\ claim'[w].step = "markLegacy"
    BY <1>1, <2>1 DEF Moves
  <2> QED
    BY <2>1, <2>3, <2>4 DEF PublishWrites
<1>7. CASE MarkLegacy(w) \/ RecordSuccess(w) \/ SaveFailed(w)
  <2>1. PICK step \in {"markVersion", "saveArticle", "recordFailure"} :
          /\ claim' = [claim EXCEPT ![w].step = step]
          /\ <<claim[w].step, step>> \in Moves
          /\ step # "recordFailure" => jobs' = jobs
    BY <1>7 DEF MarkLegacy, RecordSuccess, SaveFailed, Moves
  <2>2. claim[w].step \in {"markLegacy", "recordSuccess", "saveFailed"}
        /\ UNCHANGED <<articles, versionKeys, channels, now>>
    BY <1>7 DEF MarkLegacy, RecordSuccess, SaveFailed
  <2> QED
    BY <1>1, <2>1, <2>2 DEF PublishWrites
<1>8. CASE MarkVersion(w)
  <2>1. /\ claim[w].step = "markVersion" /\ UNCHANGED <<articles, jobs, channels, now>>
        /\ claim' = [claim EXCEPT ![w].step = "recordSuccess"]
        /\ versionKeys' = versionKeys \cup {<<claim[w].job, articles[claim[w].job[1]].ts>>}
    BY <1>0, <1>8 DEF MarkVersion
  <2> QED
    BY <1>1, <2>1 DEF PublishWrites, Moves
<1>9. CASE SaveArticle(w) \/ RecordFailure(w)
  <2>1. /\ claim[w].step \in {"saveArticle", "recordFailure"}
        /\ UNCHANGED <<jobs, versionKeys, channels, now>>
        /\ claim' = [claim EXCEPT ![w] = NoClaim]
        /\ claim[w].step # "saveArticle" => articles' = articles
    BY <1>9 DEF SaveArticle, RecordFailure
  <2> QED
    BY <1>2, <2>1 DEF PublishWrites, Moves
<1> QED
  BY <1>3, <1>4, <1>5, <1>6, <1>7, <1>8, <1>9 DEF Publish

(***************************************************************************)
(* Every step keeps the claims that were left alone apart.                 *)
(***************************************************************************)
LEMMA PublishKept ==
    ASSUME PoolInv, PoolInv', KeptInv, NEW w \in Worker, PublishH(w)
    PROVE  KeptInv' /\ \A v \in Worker : Kept(v)' => Kept(v) /\ claim'[v].job = claim[v].job
<1>1. PublishMoves(w) /\ PublishWrites(w)
  BY PublishingMoves DEF PublishH
<1>2. /\ disturbed \subseteq disturbed' /\ Saved(Beside(w)) \subseteq disturbed'
      /\ now \in Nat /\ now' = now
  BY <1>1 DEF PublishH, PublishMoves, PoolInv, TypeOK, StoreTypeOK
<1>3. ASSUME NEW v \in Worker \ {w}
      PROVE  /\ Kept(v)' => Kept(v) /\ claim'[v].job = claim[v].job
             /\ (Kept(v) => Owned(v))' /\ Current(v)'
  <2>0. v \in Worker /\ now <= now'
    BY <1>2
  <2>1. claim'[v] = claim[v]
    BY <1>1 DEF PublishMoves
  <2>2. /\ Claiming(v) /\ RowSaved(v) => <<claim[v].job, "overwritten">> \in disturbed'
        /\ Claiming(v) /\ Redated(v) => <<claim[v].job, "redated">> \in disturbed'
    BY <1>2 DEF Saved, JobsOf, Beside, Claiming
  <2> QED
    BY <1>2, <2>0, <2>1, <2>2, Bystanders
<1>4. Kept(w)' => Kept(w) /\ claim'[w].job = claim[w].job
  <2>1. claim'[w].step \notin {"idle", "recordFailure"} => claim[w].step \notin {"idle", "recordFailure"}
    BY <1>1 DEF PublishMoves, Moves
  <2> QED
    BY <1>1, <1>2, <2>1 DEF PublishMoves, Kept, Working, Running
<1>5. (Kept(w) => Owned(w))'
  <2> SUFFICES ASSUME Kept(w)' PROVE Owned(w)'
    OBVIOUS
  <2>1. Owned(w) /\ claim'[w].job = claim[w].job /\ claim'[w].at = claim[w].at
        /\ claim'[w].step \notin {"idle", "recordFailure"}
    BY <1>1, <1>4 DEF KeptInv, PublishMoves, Kept, Working
  <2>2. CASE claim'[w].step \in Early
    <3>1. claim[w].step \in Early
      BY <1>1, <2>2 DEF PublishMoves, Moves, Early
    <3>2. jobs' = jobs
      BY <1>1, <2>2 DEF PublishWrites, Early
    <3> QED
      BY <2>1, <2>2, <3>1, <3>2 DEF Owned
  <2>3. CASE claim'[w].step = "markLegacy"
    BY <1>1, <2>1, <2>3 DEF PublishWrites, Owned, Early
  <2>4. CASE claim'[w].step \notin Early /\ claim'[w].step # "markLegacy"
    <3>1. claim[w].step \notin Early
      BY <1>1, <2>1, <2>4 DEF PublishMoves, Moves, Early
    <3>2. jobs' = jobs
      BY <1>1, <2>1, <2>4 DEF PublishWrites
    <3> QED
      BY <2>1, <2>4, <3>1, <3>2 DEF Owned
  <2> QED
    BY <2>2, <2>3, <2>4
<1>6. Current(w)'
  <2> SUFFICES ASSUME claim'[w].step \notin {"idle", "load"},
                      <<claim'[w].job, "redated">> \notin disturbed'
               PROVE  claim'[w].article.ts = articles'[claim'[w].job[1]].ts
    BY DEF Current
  <2>1. claim[w].step # "saveArticle" /\ claim[w].step # "idle" /\ claim'[w].job = claim[w].job
    BY <1>1 DEF PublishMoves, Moves
  <2>2. articles' = articles /\ <<claim[w].job, "redated">> \notin disturbed
    BY <1>1, <1>2, <2>1 DEF PublishWrites
  <2> QED
    BY <1>1, <2>1, <2>2 DEF PublishMoves, KeptInv, Current
<1>7. \A v \in Worker : Kept(v)' => Kept(v) /\ claim'[v].job = claim[v].job
  BY <1>3, <1>4
<1>8. Exclusive'
  BY <1>7, StillExclusive
<1> QED
  BY <1>3, <1>5, <1>6, <1>7, <1>8 DEF KeptInv

LEMMA ClaimKept ==
    ASSUME PoolInv, PoolInv', KeptInv, NEW w \in Worker, ClaimH(w)
    PROVE  KeptInv'
<1>1. PICK j \in Claimable(now) :
        /\ jobs' = [jobs EXCEPT ![j] = Claimed(jobs[j], now)]
        /\ claim' = [claim EXCEPT ![w] = [NoClaim EXCEPT !.step = "load", !.at = now, !.job = j,
                                                         !.row = Claimed(jobs[j], now)]]
  BY DEF ClaimH, ClaimNext
<1>2. /\ j \in Job /\ jobs[j].status \in {"pending", "retrying"}
      /\ jobs \in [Job -> JobRow] /\ claim \in [Worker -> ClaimType] /\ now \in Nat
  BY <1>1 DEF Claimable, NextFanOut, FanOut, NextNew, Eligible, PoolInv, TypeOK, StoreTypeOK,
              ClaimTypeOK, ClaimType
<1>3. /\ UNCHANGED <<articles, now, disturbed>>
      /\ claim'[w].step = "load" /\ claim'[w].job = j /\ claim'[w].at = now
      /\ jobs'[j].status = "processing" /\ jobs'[j].lease = now + Lease
  <2>1. claim'[w] = [NoClaim EXCEPT !.step = "load", !.at = now, !.job = j,
                                    !.row = Claimed(jobs[j], now)]
    BY <1>1, <1>2
  <2>2. jobs'[j] = Claimed(jobs[j], now)
    BY <1>1, <1>2
  <2>3. jobs'[j].status = "processing" /\ jobs'[j].lease = now + Lease
    BY <1>2, <2>2 DEF Claimed, JobRow
  <2> QED
    BY <2>1, <2>3 DEF ClaimH, ClaimNext, NoClaim
<1>4. ASSUME NEW v \in Worker \ {w}
      PROVE  /\ Kept(v)' => Kept(v) /\ claim[v].job # j /\ claim'[v].job = claim[v].job
             /\ (Kept(v) => Owned(v))' /\ Current(v)'
  <2>1. claim'[v] = claim[v] /\ v \in Worker /\ now <= now' /\ disturbed \subseteq disturbed'
    BY <1>1, <1>2, <1>3
  <2>2. Kept(v) => claim[v].job # j
    BY <1>2 DEF KeptInv, Owned
  <2>3. Claiming(v) /\ RowSaved(v) => ~Kept(v)
    BY <1>1, <1>2, <2>2, ClaimOf DEF RowSaved, Claiming
  <2>4. ~Redated(v)
    BY <1>3 DEF Redated
  <2>5. /\ Kept(v)' => Kept(v) /\ claim'[v].job = claim[v].job
        /\ (Kept(v) => Owned(v))' /\ Current(v)'
    BY <2>1, <2>3, <2>4, Bystanders
  <2> QED
    BY <2>2, <2>5
<1>5. (Kept(w) => Owned(w))' /\ Current(w)'
  BY <1>3 DEF Owned, Current, Early
<1>6. Exclusive'
  BY <1>3, <1>4 DEF KeptInv, Exclusive
<1> QED
  BY <1>4, <1>5, <1>6 DEF KeptInv

LEMMA RecoverKept ==
    ASSUME PoolInv, PoolInv', KeptInv, NEW w \in Worker, RecoverH(w)
    PROVE  KeptInv'
<1>1. /\ RecoverExpiredLeases(now) /\ claim[w].step = "idle"
      /\ UNCHANGED <<articles, now, claim>> /\ now \in Nat
      /\ disturbed' = disturbed \cup
            JobsOf({v \in Beside(w) : RowSaved(v) /\ claim[v].at + Lease <= now}) \X {"expired"}
  BY DEF RecoverH, RecoverLeases, PoolInv, TypeOK, StoreTypeOK
<1>2. ASSUME NEW v \in Worker
      PROVE  /\ Kept(v)' => Kept(v) /\ claim'[v].job = claim[v].job
             /\ (Kept(v) => Owned(v))' /\ Current(v)'
  <2>1. ASSUME Claiming(v), RowSaved(v), Kept(v)
        PROVE  ~Running(v) /\ <<claim[v].job, "expired">> \in disturbed'
    <3>1. claim[v].job \in Job /\ claim[v].at + Lease \in Nat
      BY <2>1, ClaimOf, StoreAssumption DEF StoreAssumption, Claiming, ClaimType
    <3>2. jobs[claim[v].job].status = "processing" /\ ~(jobs[claim[v].job].lease > now)
      BY <1>1, <2>1, <3>1, RecoverRows DEF RowSaved, PoolInv, TypeOK
    <3>3. jobs[claim[v].job].lease = claim[v].at + Lease
      BY <2>1, <3>2 DEF KeptInv, Owned
    <3>4. claim[v].at + Lease <= now /\ ~Running(v)
      BY <1>1, <3>1, <3>2, <3>3 DEF Running
    <3>5. v \in Beside(w)
      BY <1>1, <2>1 DEF Beside, Claiming
    <3> QED
      BY <1>1, <2>1, <3>4, <3>5 DEF JobsOf
  <2>2. claim'[v] = claim[v] /\ ~Redated(v) /\ disturbed \subseteq disturbed' /\ now <= now'
    BY <1>1 DEF Redated
  <2> QED
    BY <2>1, <2>2, Bystanders
<1>3. Exclusive'
  BY <1>2, StillExclusive
<1> QED
  BY <1>2, <1>3 DEF KeptInv

LEMMA IngestKept ==
    ASSUME PoolInv, PoolInv', KeptInv, NEW p \in Ingester, IngestStepH(p)
    PROVE  KeptInv'
<1>1. /\ claim' = claim /\ now' = now /\ now \in Nat
      /\ disturbed' = disturbed \cup Saved({v \in Worker : claim[v].step # "idle"})
  BY DEF IngestStepH, IngestStep, Ingest, Fetch, Filter, QueueJob, SaveItem, storeVars, PoolInv,
         TypeOK, StoreTypeOK
<1>2. ASSUME NEW v \in Worker
      PROVE  /\ Kept(v)' => Kept(v) /\ claim'[v].job = claim[v].job
             /\ (Kept(v) => Owned(v))' /\ Current(v)'
  <2>1. /\ Claiming(v) /\ RowSaved(v) => <<claim[v].job, "overwritten">> \in disturbed'
        /\ Claiming(v) /\ Redated(v) => <<claim[v].job, "redated">> \in disturbed'
    BY <1>1 DEF Saved, JobsOf, Claiming
  <2>2. claim'[v] = claim[v] /\ disturbed \subseteq disturbed' /\ now <= now'
    BY <1>1
  <2> QED
    BY <2>1, <2>2, Bystanders
<1>3. Exclusive'
  BY <1>2, StillExclusive
<1> QED
  BY <1>2, <1>3 DEF KeptInv

\* A death, the clock, and steps that change nothing.
LEMMA RestKept ==
    ASSUME PoolInv, PoolInv', KeptInv, disturbed \subseteq disturbed', now <= now',
           UNCHANGED <<articles, jobs>>,
           \A v \in Worker : claim'[v] = claim[v] \/ claim'[v] = NoClaim
    PROVE  KeptInv'
<1>1. ASSUME NEW v \in Worker
      PROVE  /\ Kept(v)' => Kept(v) /\ claim'[v].job = claim[v].job
             /\ (Kept(v) => Owned(v))' /\ Current(v)'
  <2>1. CASE claim'[v] = NoClaim
    <3>1. claim'[v].step = "idle"
      BY <2>1, NoClaimKnows
    <3>2. ~Kept(v)' /\ Current(v)'
      BY <3>1 DEF Kept, Working, Current
    <3> QED
      BY <3>2
  <2>2. CASE claim'[v] = claim[v]
    <3>1. ~RowSaved(v) /\ ~Redated(v)
      BY DEF RowSaved, Redated
    <3> QED
      BY <2>2, <3>1, Bystanders
  <2> QED
    BY <2>1, <2>2
<1>2. Exclusive'
  BY <1>1, StillExclusive
<1> QED
  BY <1>1, <1>2 DEF KeptInv

LEMMA NextKept == PoolInv /\ PoolInv' /\ KeptInv /\ [NextH]_varsH => KeptInv'
<1> SUFFICES ASSUME PoolInv, PoolInv', KeptInv, [NextH]_varsH PROVE KeptInv'
  OBVIOUS
<1>0. now \in Nat /\ claim \in [Worker -> ClaimType]
  BY DEF PoolInv, TypeOK, StoreTypeOK, ClaimTypeOK, ClaimType
<1>1. CASE TickStep /\ UNCHANGED disturbed
  <2>1. now' = now + 1 /\ UNCHANGED <<articles, jobs, claim>>
    BY <1>1 DEF TickStep, PassTime, Tick, store
  <2> QED
    BY <1>0, <1>1, <2>1, RestKept
<1>2. ASSUME NEW w \in Worker, DieH(w) PROVE KeptInv'
  <2>1. /\ claim' = [claim EXCEPT ![w] = NoClaim] /\ disturbed \subseteq disturbed'
        /\ UNCHANGED <<articles, jobs, now>>
    BY <1>2 DEF DieH, LoseClaim, storeVars, store
  <2> QED
    BY <1>0, <2>1, RestKept
<1>3. CASE UNCHANGED varsH
  BY <1>0, <1>3, RestKept DEF varsH, vars, storeVars, store
<1> QED
  BY <1>1, <1>2, <1>3, PublishKept, ClaimKept, RecoverKept, IngestKept DEF NextH

LEMMA KeptHolds == SpecH => [](PoolInv /\ KeptInv)
BY HistoryInit, HistoryPool, NextKept, PTL DEF SpecH

(***************************************************************************)
(* Two workers never work on one job under running leases, unless another  *)
(* process saved its row: for any number of workers, deaths, recoveries    *)
(* and retries, and whatever is ingested meanwhile.                        *)
(***************************************************************************)
THEOREM ClaimsAreExclusive == SpecH => []ClaimsExclude
<1>1. KeptInv => ClaimsExclude
  BY DEF KeptInv, Exclusive, Kept, ClaimsExclude
<1> QED
  BY <1>1, KeptHolds, PTL

(***************************************************************************)
(* Every step keeps the posts of the jobs that were left alone answered.   *)
(***************************************************************************)
LEMMA CalmBefore ==
    ASSUME disturbed \subseteq disturbed'
    PROVE  \A j : Calm(j)' => Calm(j)
BY DEF Calm

LEMMA RestPosts ==
    ASSUME PostsInv, disturbed \subseteq disturbed', UNCHANGED <<versionKeys, posts, reposts>>,
           \A v \in Worker :
              \/ claim'[v] = claim[v]
              \/ /\ claim'[v].step # "send"
                 /\ claim[v].step \in Posting => <<claim[v].job, "died">> \in disturbed'
    PROVE  PostsInv'
<1>1. \A j : Calm(j)' => Calm(j)
  BY CalmBefore
<1>2. ASSUME NEW v \in Worker PROVE Unmarked(v)'
  BY <1>1 DEF PostsInv, Unmarked, Version
<1>3. ASSUME NEW post \in posts', Calm(post[1])' PROVE Answered(post)'
  <2>1. Answered(post)
    BY <1>1, <1>3 DEF PostsInv
  <2>2. ASSUME NEW v \in Worker, claim[v].step \in Posting, post = Version(v)
        PROVE  claim'[v] = claim[v]
    <3>1. <<claim[v].job, "died">> \notin disturbed'
      BY <1>3, <2>2 DEF Version, Calm, Trouble
    <3> QED
      BY <2>2, <3>1
  <2> QED
    BY <2>1, <2>2 DEF Answered, Version
<1>4. RepostsExplained'
  BY <1>1 DEF PostsInv, RepostsExplained
<1> QED
  BY <1>2, <1>3, <1>4 DEF PostsInv

\* Of two workers on a job that was left alone one is not working any more.
LEMMA OneWorks ==
    ASSUME KeptInv, NEW w \in Worker, NEW v \in Worker, Working(w), Working(v),
           claim[w].job = claim[v].job, Calm(claim[w].job)
    PROVE  w = v
BY CalmKept DEF KeptInv, Exclusive

LEMMA PublishPosts ==
    ASSUME PoolInv, KeptInv, PostsInv, NEW w \in Worker, PublishH(w)
    PROVE  PostsInv'
<1>1. PublishMoves(w) /\ PublishWrites(w)
  BY PublishingMoves DEF PublishH
<1>2. /\ disturbed \subseteq disturbed' /\ \A j : Calm(j)' => Calm(j)
      /\ versionKeys \subseteq versionKeys'
  BY <1>1, CalmBefore DEF PublishH, PublishWrites
<1>3. ASSUME NEW v \in Worker PROVE Unmarked(v)'
  <2>1. CASE v = w
    <3> SUFFICES ASSUME claim'[w].step = "send" PROVE Version(w)' \notin versionKeys'
      BY <2>1 DEF Unmarked
    <3>1. claim[w].step = "load"
      BY <1>1 DEF PublishMoves, Moves
    <3>2. /\ Version(w)' = <<claim[w].job, articles[claim[w].job[1]].ts>>
          /\ versionKeys' = versionKeys
      BY <1>1, <3>1 DEF PublishMoves, PublishWrites, Version
    <3> QED
      BY <1>1, <3>2 DEF PublishWrites, AlreadyDelivered
  <2>2. CASE v # w
    <3> SUFFICES ASSUME claim'[v].step = "send", Calm(claim[v].job)', claim'[v] = claim[v]
                 PROVE  Version(v) \notin versionKeys'
      BY <1>1, <2>2 DEF Unmarked, Version, PublishMoves
    <3>1. Calm(claim[v].job) /\ Version(v) \notin versionKeys
      BY <1>2 DEF PostsInv, Unmarked
    <3>2. claim[w].step = "markVersion" => claim[w].job # claim[v].job
      BY <2>2, <3>1, OneWorks DEF Working
    <3> QED
      BY <1>1, <3>1, <3>2 DEF PublishWrites, Version
  <2> QED
    BY <2>1, <2>2
<1>4. ASSUME NEW post \in posts, Calm(post[1])' PROVE Answered(post)'
  <2>1. Answered(post) /\ Calm(post[1])
    BY <1>2, <1>4 DEF PostsInv
  <2>2. ASSUME NEW v \in Worker, v # w, claim[v].step \in Posting, post = Version(v)
        PROVE  Answered(post)'
    BY <1>1, <2>2 DEF PublishMoves, Answered, Version
  <2>3. ASSUME claim[w].step \in Posting, post = Version(w) PROVE Answered(post)'
    <3>1. CASE claim[w].step = "markVersion"
      <4>1. claim[w].article.ts = articles[claim[w].job[1]].ts
        BY <2>1, <2>3, <3>1 DEF KeptInv, Current, Calm, Trouble, Version
      <4>2. Version(w) \in versionKeys'
        BY <1>1, <3>1, <4>1 DEF PublishWrites, Version
      <4> QED
        BY <2>3, <4>2 DEF Answered
    <3>2. CASE claim[w].step # "markVersion"
      <4>1. claim'[w].step \in Posting
        BY <1>1, <2>3, <3>2 DEF PublishMoves, Moves, Posting
      <4>2. Version(w)' = Version(w)
        BY <1>1, <2>3, <4>1 DEF PublishMoves, Version, Posting
      <4> QED
        BY <2>3, <4>1, <4>2 DEF Answered
    <3> QED
      BY <3>1, <3>2
  <2> QED
    BY <1>2, <2>1, <2>2, <2>3 DEF Answered
<1>5. CASE claim[w].step # "send"
  <2>1. posts' = posts /\ reposts' = reposts
    BY <1>1, <1>5 DEF PublishWrites, channels
  <2>2. RepostsExplained'
    BY <1>2, <2>1 DEF PostsInv, RepostsExplained
  <2> QED
    BY <1>3, <1>4, <2>1, <2>2 DEF PostsInv
<1>6. CASE claim[w].step = "send"
  <2>1. PICK outcome \in Outcome :
          /\ IF outcome = "rejected" THEN UNCHANGED channels
             ELSE PostTo(claim[w].job, claim[w].article.ts)
          /\ claim' = [claim EXCEPT ![w].step =
                          IF outcome = "ok" THEN "readSucceeded" ELSE "readFailed"]
    BY <1>6 DEF PublishH, Publish, LoadArticle, Send, ReadSucceeded, SaveSucceeded, MarkLegacy,
                MarkVersion, RecordSuccess, SaveArticle, ReadFailed, SaveFailed, RecordFailure
  <2>2. /\ posts' = posts \/ posts' = posts \cup {Version(w)}
        /\ reposts' \subseteq reposts \cup (posts \cap {Version(w)})
    BY <2>1 DEF PostTo, Version, channels
  <2>3. claim'[w].step = IF outcome = "ok" THEN "readSucceeded" ELSE "readFailed"
    BY <2>1 DEF PoolInv, TypeOK, ClaimTypeOK
  <2>4. ASSUME NEW post \in posts', Calm(post[1])' PROVE Answered(post)'
    <3>1. CASE post \in posts
      BY <1>4, <2>4, <3>1
    <3>2. CASE post \notin posts
      <4>1. post = Version(w) /\ posts' # posts
        BY <2>2, <2>4, <3>2
      <4>2. claim'[w].step # "readFailed"
        <5>1. ReplyLost(w) => <<claim[w].job, "lost">> \in disturbed'
          BY DEF PublishH, JobsOf
        <5>2. <<claim[w].job, "lost">> \notin disturbed'
          BY <2>4, <4>1 DEF Calm, Trouble, Version
        <5> QED
          BY <1>6, <4>1, <5>1, <5>2 DEF ReplyLost, channels
      <4>3. claim'[w].step = "readSucceeded"
        BY <2>3, <4>2
      <4>4. Version(w)' = post
        BY <1>1, <1>6, <4>1, <4>3 DEF PublishMoves, Version
      <4> QED
        BY <4>3, <4>4 DEF Answered, Posting
    <3> QED
      BY <3>1, <3>2
  <2>5. ASSUME Version(w) \in posts PROVE ~Calm(claim[w].job)
    <3> SUFFICES ASSUME Calm(claim[w].job) PROVE FALSE
      OBVIOUS
    <3>1. Answered(Version(w)) /\ Version(w) \notin versionKeys
      BY <1>6, <2>5 DEF PostsInv, Unmarked, Version
    <3>2. PICK v \in Worker : claim[v].step \in Posting /\ Version(w) = Version(v)
      BY <3>1 DEF Answered
    <3>3. claim[w].job = claim[v].job
      BY <3>2 DEF Version
    <3>4. Working(w) /\ Working(v)
      BY <1>6, <3>2 DEF Working, Posting
    <3>5. w = v
      BY <3>3, <3>4, OneWorks
    <3> QED
      BY <1>6, <3>2, <3>5 DEF Posting
  <2>6. RepostsExplained'
    BY <1>2, <2>2, <2>5 DEF PostsInv, RepostsExplained, Version
  <2> QED
    BY <1>3, <2>4, <2>6 DEF PostsInv
<1> QED
  BY <1>5, <1>6

LEMMA NextPosts == PoolInv /\ KeptInv /\ PostsInv /\ [NextH]_varsH => PostsInv'
<1> SUFFICES ASSUME PoolInv, KeptInv, PostsInv, [NextH]_varsH PROVE PostsInv'
  OBVIOUS
<1>0. claim \in [Worker -> ClaimType]
  BY DEF PoolInv, TypeOK, ClaimTypeOK, ClaimType
<1>1. CASE (TickStep /\ UNCHANGED disturbed) \/ UNCHANGED varsH
  <2>1. UNCHANGED <<versionKeys, posts, reposts, claim, disturbed>>
    BY <1>1 DEF TickStep, PassTime, Tick, varsH, vars, storeVars, store, channels
  <2> QED
    BY <2>1, RestPosts
<1>2. ASSUME NEW p \in Ingester, IngestStepH(p) PROVE PostsInv'
  <2>1. /\ UNCHANGED <<versionKeys, posts, reposts, claim>> /\ disturbed \subseteq disturbed'
    BY <1>2 DEF IngestStepH, IngestStep, Ingest, Fetch, Filter, QueueJob, SaveItem, storeVars,
                store, channels
  <2> QED
    BY <2>1, RestPosts
<1>3. ASSUME NEW w \in Worker, RecoverH(w) PROVE PostsInv'
  <2>1. UNCHANGED <<versionKeys, posts, reposts, claim>> /\ disturbed \subseteq disturbed'
    BY <1>3 DEF RecoverH, RecoverLeases, channels
  <2> QED
    BY <2>1, RestPosts
<1>4. ASSUME NEW w \in Worker, ClaimH(w) PROVE PostsInv'
  <2>1. /\ UNCHANGED <<versionKeys, posts, reposts, disturbed>> /\ claim[w].step = "idle"
    BY <1>4 DEF ClaimH, ClaimNext, channels
  <2>2. PICK c : claim' = [claim EXCEPT ![w] = c] /\ c.step = "load"
    <3>1. \A j : LET c == [NoClaim EXCEPT !.step = "load", !.at = now, !.job = j,
                                          !.row = Claimed(jobs[j], now)]
                 IN  c.step = "load"
      BY DEF NoClaim
    <3> QED
      BY <1>4, <3>1 DEF ClaimH, ClaimNext
  <2>3. \A v \in Worker : claim'[v] = IF v = w THEN c ELSE claim[v]
    BY <1>0, <2>2
  <2> QED
    BY <2>1, <2>2, <2>3, RestPosts DEF Posting
<1>5. ASSUME NEW w \in Worker, DieH(w) PROVE PostsInv'
  <2>1. /\ claim' = [claim EXCEPT ![w] = NoClaim] /\ UNCHANGED <<versionKeys, posts, reposts>>
        /\ disturbed' = disturbed \cup {<<claim[w].job, "died">>}
    BY <1>5 DEF DieH, LoseClaim, storeVars, store, channels
  <2>2. \A v \in Worker : claim'[v] = IF v = w THEN NoClaim ELSE claim[v]
    BY <1>0, <2>1
  <2> QED
    BY <2>1, <2>2, NoClaimKnows, RestPosts
<1> QED
  BY <1>1, <1>2, <1>3, <1>4, <1>5, PublishPosts DEF NextH

(***************************************************************************)
(* A version of an article is posted twice to a destination only if its    *)
(* row or its version was overwritten, its lease ran out, a reply was lost *)
(* or a worker died: listing it again, queueing it again, refused posts,   *)
(* retries and other workers do not do it.                                 *)
(***************************************************************************)
THEOREM WorkersPostOnce == SpecH => []RepostsExplained
<1>1. PostsInv => RepostsExplained
  BY DEF PostsInv
<1>2. SpecH => [](PoolInv /\ KeptInv /\ PostsInv)
  BY HistoryInit, KeptHolds, NextPosts, PTL DEF SpecH
<1> QED
  BY <1>1, <1>2, PTL

-----------------------------------------------------------------------------
(***************************************************************************)
(* Limits.  The reserved articles only shrink, except when a claim takes a *)
(* new one, and a claim counts the slots before it does.  With a second    *)
(* worker this is false: what that one has acknowledged and not recorded   *)
(* yet is in neither of the sets claim_next counts.                        *)
(***************************************************************************)
OneWorker == \A w, v \in Worker : w = v

Reserved ==
    Consumed(now) \cup {claim[w].job[1] : w \in {v \in Worker : claim[v].step # "idle"}}

OfSource(S, s) == {a \in S : SourceOf[a] = s}

Fits(S) ==
    /\ Cardinality(S) <= MaxGlobal
    /\ \A s \in Source : Cardinality(OfSource(S, s)) <= MaxSource

LEMMA SlotsAreReserved == SlotsWithinLimits <=> Fits(Reserved)
BY DEF SlotsWithinLimits, Fits, Reserved, OfSource

LEMMA ConsumedArticles == Consumed(now) \subseteq Article
BY DEF Consumed, RecentSuccesses, LiveClaims, Job

LEMMA ReservedArticles == PoolInv => Reserved \subseteq Article
BY ClaimOf, ConsumedArticles DEF Reserved

LEMMA SmallerFits ==
    ASSUME NEW S, IsFiniteSet(S), NEW T \in SUBSET S, Fits(S)
    PROVE  Fits(T)
<1>1. Cardinality(T) <= MaxGlobal
  <2>1. IsFiniteSet(T) /\ Cardinality(T) <= Cardinality(S)
    BY FS_Subset
  <2>2. Cardinality(T) \in Nat /\ Cardinality(S) \in Nat
    BY <2>1, FS_CardinalityType
  <2> QED
    BY <2>1, <2>2, StoreAssumption DEF StoreAssumption, Fits
<1>2. ASSUME NEW s \in Source PROVE Cardinality(OfSource(T, s)) <= MaxSource
  <2>1. OfSource(T, s) \subseteq OfSource(S, s) /\ OfSource(S, s) \subseteq S
    BY DEF OfSource
  <2>2. IsFiniteSet(OfSource(S, s))
    BY <2>1, FS_Subset
  <2>3. IsFiniteSet(OfSource(T, s)) /\ Cardinality(OfSource(T, s)) <= Cardinality(OfSource(S, s))
    BY <2>1, <2>2, FS_Subset
  <2>4. Cardinality(OfSource(T, s)) \in Nat /\ Cardinality(OfSource(S, s)) \in Nat
    BY <2>2, <2>3, FS_CardinalityType
  <2>5. Cardinality(OfSource(S, s)) <= MaxSource
    BY DEF Fits
  <2> QED
    BY <2>3, <2>4, <2>5, StoreAssumption DEF StoreAssumption
<1> QED
  BY <1>1, <1>2 DEF Fits

LEMMA OneMore ==
    ASSUME NEW S, IsFiniteSet(S), NEW x
    PROVE  Cardinality(S \cup {x}) \in Nat /\ Cardinality(S) \in Nat
           /\ Cardinality(S \cup {x}) <= Cardinality(S) + 1
<1>1. IsFiniteSet(S \cup {x}) /\ Cardinality(S \cup {x}) \in {Cardinality(S), Cardinality(S) + 1}
  BY FS_AddElement
<1>2. Cardinality(S) \in Nat
  BY FS_CardinalityType
<1> QED
  BY <1>1, <1>2

(***************************************************************************)
(* A step that claims nothing, and records a success only of a job that is *)
(* being worked on.                                                        *)
(***************************************************************************)
LEMMA Shrinks ==
    ASSUME PoolInv, IsFiniteSet(Article), Fits(Reserved), now' \in Nat, now <= now',
           \A j \in Job : jobs'[j].status = "processing" => jobs'[j] = jobs[j],
           \A j \in Job : delivered'[j] # 0 =>
              delivered'[j] = delivered[j] \/ \E w \in Worker : Claiming(w) /\ claim[w].job = j,
           \A w \in Worker : claim'[w].step # "idle" => Claiming(w) /\ claim'[w].job = claim[w].job
    PROVE  Fits(Reserved)'
<1>0. now \in Nat /\ Hour \in Nat /\ jobs \in [Job -> JobRow] /\ delivered \in [Job -> Nat]
  BY StoreAssumption DEF StoreAssumption, PoolInv, TypeOK, StoreTypeOK
<1>1. ASSUME NEW j \in Job, jobs'[j].status = "processing",
             jobs'[j].lease = 0 \/ jobs'[j].lease >= now'
      PROVE  j[1] \in Reserved
  <2>1. jobs[j].lease \in Nat /\ jobs'[j] = jobs[j]
    BY <1>0, <1>1 DEF JobRow
  <2>2. j \in LiveClaims(now)
    BY <1>0, <1>1, <2>1 DEF LiveClaims
  <2> QED
    BY <2>2 DEF Reserved, Consumed
<1>2. ASSUME NEW j \in Job, delivered'[j] # 0, delivered'[j] >= now' - Hour
      PROVE  j[1] \in Reserved
  <2>1. CASE delivered'[j] = delivered[j]
    <3>1. delivered[j] \in Nat
      BY <1>0
    <3>2. j \in RecentSuccesses(now)
      BY <1>0, <1>2, <2>1, <3>1 DEF RecentSuccesses
    <3> QED
      BY <3>2 DEF Reserved, Consumed
  <2>2. CASE \E w \in Worker : Claiming(w) /\ claim[w].job = j
    BY <2>2 DEF Reserved, Claiming
  <2> QED
    BY <1>2, <2>1, <2>2
<1>3. ASSUME NEW w \in Worker, claim'[w].step # "idle" PROVE claim'[w].job[1] \in Reserved
  BY <1>3 DEF Reserved, Claiming
<1>4. Reserved' \subseteq Reserved
  BY <1>1, <1>2, <1>3 DEF Reserved, Consumed, LiveClaims, RecentSuccesses
<1>5. IsFiniteSet(Reserved)
  BY ReservedArticles, FS_Subset
<1>6. Fits(Reserved')
  <2> DEFINE S == Reserved'
  <2> HIDE DEF S
  <2>1. S \subseteq Reserved
    BY <1>4 DEF S
  <2>2. Fits(S)
    BY <1>5, <2>1, SmallerFits
  <2> QED
    BY <2>2 DEF S
<1> QED
  BY <1>6 DEF Fits, OfSource

(***************************************************************************)
(* The claim of the only worker: one that takes a new article has counted  *)
(* fewer than the limits.                                                  *)
(***************************************************************************)
LEMMA ClaimFits ==
    ASSUME PoolInv, OneWorker, IsFiniteSet(Article), Fits(Reserved), NEW w \in Worker, ClaimNext(w)
    PROVE  Fits(Reserved)'
<1>1. PICK j \in Claimable(now) :
        /\ jobs' = [jobs EXCEPT ![j] = Claimed(jobs[j], now)]
        /\ claim' = [claim EXCEPT ![w] = [NoClaim EXCEPT !.step = "load", !.at = now, !.job = j,
                                                         !.row = Claimed(jobs[j], now)]]
  BY DEF ClaimNext
<1>2. j \in Job /\ j[1] \in Article /\ jobs \in [Job -> JobRow] /\ claim \in [Worker -> ClaimType]
  BY <1>1 DEF Claimable, NextFanOut, FanOut, NextNew, Eligible, PoolInv, TypeOK, StoreTypeOK,
              ClaimTypeOK, ClaimType, Job
<1>3. claim[w].step = "idle" /\ UNCHANGED <<delivered, now>>
  BY DEF ClaimNext
<1>4. Reserved = Consumed(now)
  BY <1>3 DEF Reserved, OneWorker
<1>5. Reserved' \subseteq Consumed(now) \cup {j[1]}
  <2>1. \A k \in Job : jobs'[k] # jobs[k] => k = j
    BY <1>1, <1>2
  <2>2. claim'[w].job = j
    BY <1>1, <1>2 DEF NoClaim
  <2>3. \A v \in Worker : v = w
    BY DEF OneWorker
  <2> QED
    BY <1>3, <2>1, <2>2, <2>3 DEF Reserved, Consumed, LiveClaims, RecentSuccesses
<1> DEFINE S == Consumed(now) \cup {j[1]}
           R == Reserved'
<1>6. IsFiniteSet(Consumed(now)) /\ IsFiniteSet(S)
  <2>1. S \subseteq Article /\ Consumed(now) \subseteq S
    BY <1>2, ConsumedArticles
  <2> QED
    BY <2>1, FS_Subset
<1>7. Fits(S)
  <2>1. CASE j[1] \in Consumed(now)
    <3>1. S = Reserved
      BY <1>4, <2>1
    <3> QED
      BY <3>1
  <2>2. CASE j[1] \notin Consumed(now)
    <3>1. Cardinality(Consumed(now)) < MaxGlobal /\ j \in NextNew(now)
      BY <1>1, <2>2 DEF Claimable, NextFanOut, FanOut
    <3>2. Cardinality(S) <= MaxGlobal
      <4>1. Cardinality(S) \in Nat /\ Cardinality(Consumed(now)) \in Nat
            /\ Cardinality(S) <= Cardinality(Consumed(now)) + 1
        BY <1>6, OneMore
      <4> QED
        BY <3>1, <4>1, StoreAssumption DEF StoreAssumption
    <3>3. ASSUME NEW s \in Source PROVE Cardinality(OfSource(S, s)) <= MaxSource
      <4>1. CASE s # SourceOf[j[1]]
        <5>1. OfSource(S, s) = OfSource(Consumed(now), s)
          BY <4>1 DEF OfSource
        <5> QED
          BY <1>4, <5>1 DEF Fits
      <4>2. CASE s = SourceOf[j[1]]
        <5> DEFINE T == OfSource(Consumed(now), s)
        <5>1. SourceCount(s, now) = Cardinality(T)
          <6> DEFINE U == {a \in Article :
                             /\ SourceOf[a] = s
                             /\ \/ articles[a].stored /\ \E k \in RecentSuccesses(now) : k[1] = a
                                \/ \E k \in LiveClaims(now) : k[1] = a}
          <6>1. \A k \in RecentSuccesses(now) : articles[k[1]].stored
            BY DEF RecentSuccesses, PoolInv, RecordedStored
          <6>2. T = U
            BY <6>1, ConsumedArticles DEF OfSource, Consumed
          <6> QED
            BY <6>2 DEF SourceCount
        <5>2. OfSource(S, s) = T \cup {j[1]}
          BY <4>2 DEF OfSource
        <5>3. IsFiniteSet(T)
          <6>1. T \subseteq Consumed(now)
            BY DEF OfSource
          <6> QED
            BY <1>6, <6>1, FS_Subset
        <5>4. ~(SourceCount(s, now) >= MaxSource)
          BY <3>1, <4>2 DEF NextNew, AtCap
        <5> HIDE DEF T
        <5>5. Cardinality(T \cup {j[1]}) \in Nat /\ Cardinality(T) \in Nat
              /\ Cardinality(T \cup {j[1]}) <= Cardinality(T) + 1
          BY <5>3, OneMore
        <5>6. MaxSource \in Nat /\ ~(Cardinality(T) >= MaxSource)
          BY <5>1, <5>4, StoreAssumption DEF StoreAssumption
        <5>7. Cardinality(T \cup {j[1]}) <= MaxSource
          BY <5>5, <5>6
        <5> QED
          BY <5>2, <5>7
      <4> QED
        BY <4>1, <4>2
    <3> QED
      BY <3>2, <3>3 DEF Fits
  <2> QED
    BY <2>1, <2>2
<1>8. R \subseteq S
  BY <1>5
<1> HIDE DEF R, S
<1>9. Fits(R)
  BY <1>6, <1>7, <1>8, SmallerFits
<1> QED
  BY <1>9 DEF R, Fits, OfSource

LEMMA NextFits ==
    ASSUME OneWorker, IsFiniteSet(Article)
    PROVE  PoolInv /\ PoolInv' /\ Fits(Reserved) /\ [Next]_vars => Fits(Reserved)'
<1> SUFFICES ASSUME PoolInv, PoolInv', Fits(Reserved), [Next]_vars PROVE Fits(Reserved)'
  OBVIOUS
<1>0. now \in Nat /\ now' \in Nat /\ claim \in [Worker -> ClaimType]
  BY DEF PoolInv, TypeOK, StoreTypeOK, ClaimTypeOK, ClaimType
<1>1. CASE TickStep
  <2>1. now' = now + 1 /\ UNCHANGED <<jobs, delivered, claim>>
    BY <1>1 DEF TickStep, PassTime, Tick, store
  <2> QED
    BY <1>0, <2>1, Shrinks DEF Claiming
<1>2. ASSUME NEW p \in Ingester, IngestStep(p) PROVE Fits(Reserved)'
  <2>0. p \in Process /\ UNCHANGED <<delivered, now, claim>>
    BY <1>2, PoolAssumption
    DEF PoolAssumption, IngestStep, Ingest, Fetch, Filter, QueueJob, SaveItem, storeVars, store
  <2>1. ASSUME NEW j \in Job, jobs'[j].status = "processing" PROVE jobs'[j] = jobs[j]
    <3>1. CASE UNCHANGED jobs
      BY <3>1
    <3>2. CASE QueueJob(p)
      <4>1. PICK k \in intake[p].todo : SaveJob(k, NewRow) \/ UNCHANGED jobs
        BY <3>2 DEF QueueJob
      <4>2. k \in Job /\ StoreTypeOK /\ NewRow \in JobRow /\ NewRow.status = "pending"
        BY <2>0, <4>1, BatchOf, NewRowType DEF BatchType, PoolInv, TypeOK
      <4> QED
        BY <2>1, <4>1, <4>2, SaveJobRow
    <3> QED
      BY <1>2, <3>1, <3>2 DEF IngestStep, Ingest, Fetch, Filter, SaveItem, storeVars, store
  <2> QED
    BY <1>0, <2>0, <2>1, Shrinks DEF Claiming
<1>3. ASSUME NEW w \in Worker, WorkStep(w) PROVE Fits(Reserved)'
  <2>0. claim[w] \in ClaimType /\ Knows(claim[w])
        /\ claim[w].row \in JobRow /\ claim[w].at \in Nat
        /\ (Claiming(w) => claim[w].job \in Job)
    BY ClaimOf DEF Claiming, ClaimType
  <2>1. CASE ClaimNext(w)
    BY <2>1, ClaimFits
  <2>2. ASSUME \A v \in Worker : claim'[v].step # "idle" => Claiming(v) /\ claim'[v].job = claim[v].job,
               UNCHANGED <<jobs, delivered, now>>
        PROVE  Fits(Reserved)'
    BY <1>0, <2>2, Shrinks
  <2>3. CASE RecoverLeases(w)
    <3>1. UNCHANGED <<delivered, now, claim>> /\ RecoverExpiredLeases(now)
      BY <2>3 DEF RecoverLeases
    <3> QED
      BY <1>0, <3>1, RecoverRows, Shrinks DEF Claiming, PoolInv, TypeOK
  <2>4. ASSUME claim' = [claim EXCEPT ![w] = NoClaim]
        PROVE  \A v \in Worker : claim'[v].step # "idle" => Claiming(v) /\ claim'[v].job = claim[v].job
    BY <1>0, <2>4, NoClaimKnows DEF Claiming
  <2>5. ASSUME NEW step, claim' = [claim EXCEPT ![w].step = step], Claiming(w)
        PROVE  \A v \in Worker : claim'[v].step # "idle" => Claiming(v) /\ claim'[v].job = claim[v].job
    BY <1>0, <2>5 DEF Claiming, ClaimType
  <2>6. ASSUME NEW row \in JobRow, row.status # "processing", Claiming(w),
               SaveJob(claim[w].job, row), UNCHANGED <<delivered, now>>,
               \A v \in Worker : claim'[v].step # "idle" => Claiming(v) /\ claim'[v].job = claim[v].job
        PROVE  Fits(Reserved)'
    <3>1. \A j \in Job : jobs'[j].status = "processing" => jobs'[j] = jobs[j]
      BY <2>0, <2>6, SaveJobRow DEF PoolInv, TypeOK
    <3> QED
      BY <1>0, <2>6, <3>1, Shrinks
  <2>7. CASE LoadArticle(w)
    <3>1. Claiming(w) /\ UNCHANGED <<delivered, now>>
      BY <2>7 DEF LoadArticle, Claiming
    <3>2. CASE UNCHANGED jobs /\ claim' # [claim EXCEPT ![w] = NoClaim]
      <4>1. PICK article, step : claim' = [claim EXCEPT ![w].article = article, ![w].step = step]
        BY <2>7, <3>2 DEF LoadArticle
      <4>2. \A v \in Worker : claim'[v].step # "idle" => Claiming(v) /\ claim'[v].job = claim[v].job
        BY <1>0, <3>1, <4>1 DEF Claiming, ClaimType
      <4> QED
        BY <2>2, <3>1, <3>2, <4>2
    <3>3. CASE SaveJob(claim[w].job, DeadLetter(claim[w].row)) /\ claim' = [claim EXCEPT ![w] = NoClaim]
      <4>1. DeadLetter(claim[w].row) \in JobRow /\ DeadLetter(claim[w].row).status # "processing"
        BY <2>0, RowTypes, <1>0 DEF ClaimType, DeadLetter, JobRow
      <4> QED
        BY <2>4, <2>6, <3>1, <3>3, <4>1
    <3>4. CASE UNCHANGED jobs /\ claim' = [claim EXCEPT ![w] = NoClaim]
      BY <2>2, <2>4, <3>1, <3>4
    <3> QED
      BY <2>7, <3>2, <3>3, <3>4 DEF LoadArticle
  <2>8. CASE ReadSucceeded(w) \/ ReadFailed(w)
    <3>1. Claiming(w) /\ UNCHANGED <<jobs, delivered, now>>
      BY <2>8 DEF ReadSucceeded, ReadFailed, Claiming, storeVars, store
    <3>2. PICK step : claim' = [claim EXCEPT ![w].row = jobs[claim[w].job], ![w].step = step]
      BY <2>8 DEF ReadSucceeded, ReadFailed
    <3>3. \A v \in Worker : claim'[v].step # "idle" => Claiming(v) /\ claim'[v].job = claim[v].job
      BY <1>0, <3>1, <3>2 DEF Claiming, ClaimType
    <3> QED
      BY <2>2, <3>1, <3>3
  <2>9. CASE Send(w)
    BY <2>2, <2>5, <2>9 DEF Send, Claiming, store
  <2>10. CASE MarkLegacy(w) \/ MarkVersion(w)
    BY <2>2, <2>5, <2>10 DEF MarkLegacy, MarkVersion, Claiming
  <2>11. CASE SaveArticle(w) \/ LoseClaim(w)
    BY <2>2, <2>4, <2>11 DEF SaveArticle, LoseClaim, storeVars, store
  <2>12. CASE SaveSucceeded(w)
    <3>1. Claiming(w)
      BY <2>12 DEF SaveSucceeded, Claiming
    <3>2. Succeeded(claim[w].row) \in JobRow
          /\ Succeeded(claim[w].row).status # "processing"
      BY <1>0, <2>0, <3>1, RowTypes DEF Succeeded, JobRow
    <3> QED
      BY <2>5, <2>6, <2>12, <3>1, <3>2 DEF SaveSucceeded
  <2>13. CASE SaveFailed(w)
    <3>1. Claiming(w)
      BY <2>13 DEF SaveFailed, Claiming
    <3>2. Failed(claim[w].row, claim[w].at) \in JobRow
          /\ Failed(claim[w].row, claim[w].at).status # "processing"
      BY <2>0, <3>1, RowTypes DEF Failed, DeadLetter, JobRow
    <3> QED
      BY <2>5, <2>6, <2>13, <3>1, <3>2 DEF SaveFailed
  <2>14. CASE RecordSuccess(w) \/ RecordFailure(w)
    <3>1. Claiming(w) /\ UNCHANGED <<jobs, now>>
      BY <2>14 DEF RecordSuccess, RecordFailure, Claiming
    <3>2. PICK at : delivered' = [delivered EXCEPT ![claim[w].job] = at]
      BY <2>14 DEF RecordSuccess, RecordFailure, RecordDelivery
    <3>3. \A v \in Worker : claim'[v].step # "idle" => Claiming(v) /\ claim'[v].job = claim[v].job
      BY <2>4, <2>5, <2>14, <3>1 DEF RecordSuccess, RecordFailure
    <3>4. \A j \in Job : delivered'[j] = delivered[j] \/ claim[w].job = j
      BY <3>2 DEF PoolInv, TypeOK, StoreTypeOK
    <3> QED
      BY <1>0, <3>1, <3>3, <3>4, Shrinks
  <2> QED
    BY <1>3, <2>1, <2>3, <2>7, <2>8, <2>9, <2>10, <2>11, <2>12, <2>13, <2>14
    DEF WorkStep, RunOnce, Publish
<1>4. CASE UNCHANGED vars
  BY <1>0, <1>4, Shrinks DEF vars, storeVars, store, Claiming
<1> QED
  BY <1>1, <1>2, <1>3, <1>4 DEF Next

LEMMA InitFits == Init => Fits(Reserved)
<1> SUFFICES ASSUME Init PROVE Fits(Reserved)
  OBVIOUS
<1>1. Reserved = {}
  BY NoClaimKnows
  DEF Init, StoreInit, ClaimInit, Reserved, Consumed, LiveClaims, RecentSuccesses, NoRow
<1>2. \A s : OfSource({}, s) = {}
  BY DEF OfSource
<1>3. Cardinality({}) = 0
  BY FS_EmptySet
<1> QED
  BY <1>1, <1>2, <1>3, StoreAssumption DEF StoreAssumption, Fits

(***************************************************************************)
(* One worker keeps the hourly limits, of all articles and of those of a   *)
(* source, counting what it works on; whatever is ingested and re-queued   *)
(* meanwhile, and wherever it dies and is started again.                   *)
(***************************************************************************)
THEOREM OneWorkerKeepsLimits ==
    ASSUME OneWorker, IsFiniteSet(Article)
    PROVE  Spec => []SlotsWithinLimits
<1>1. Spec => []Fits(Reserved)
  BY InitFits, NextFits, PoolHolds, PTL DEF Spec
<1> QED
  BY <1>1, SlotsAreReserved, PTL

=============================================================================
