----------------------------- MODULE QueueEngine -----------------------------
(***************************************************************************)
(* SQLitePublicationQueueEngine as a worker drives it: recover_expired_    *)
(* leases and claim_next are transactions, run_once then publishes the one *)
(* job it claimed and acknowledges it statement by statement.  Unlike the  *)
(* cycle of QueueProcessor it re-reads the row and the article that it     *)
(* acknowledges, and writes the row first and the history last.            *)
(***************************************************************************)
EXTENDS PublicationStore

CONSTANTS
    Worker,       \* the processes that publish
    Publisher,    \* the destinations this configuration has a publisher for
    Outcome,      \* what publish may do: "ok", "rejected", "lost_reply"
    Prompt,       \* does a claim end before the clock advances
    Crashes,      \* may a worker die
    NoJob         \* no job

ASSUME EngineAssumption ==
    /\ Worker \subseteq Process
    /\ Publisher \subseteq Destination
    /\ Outcome \subseteq {"ok", "rejected", "lost_reply"}
    /\ Prompt \in BOOLEAN /\ Crashes \in BOOLEAN
    /\ NoJob \notin Job

VARIABLE claim    \* Worker -> the claim it is working on

NoClaim ==
    [step |-> "idle", at |-> 0, job |-> NoJob, row |-> NoRow, article |-> NoArticle]

ClaimStep ==
    {"idle", "load", "send", "readSucceeded", "saveSucceeded", "markLegacy", "markVersion",
     "recordSuccess", "saveArticle", "readFailed", "saveFailed", "recordFailure"}

ClaimTypeOK ==
    claim \in [Worker -> [step : ClaimStep, at : Nat, job : Job \cup {NoJob},
                          row : JobRow, article : ArticleRow]]

ClaimInit == claim = [w \in Worker |-> NoClaim]

-----------------------------------------------------------------------------
(***************************************************************************)
(* The order claim_next tries jobs in: buckets of one priority and source, *)
(* the urgent priorities first, the sources of a priority in the order of  *)
(* their oldest job, the oldest job of a bucket first.                     *)
(***************************************************************************)
SameBucket(j, k) ==
    SourceOf[j[1]] = SourceOf[k[1]] /\ PriorityOf[j[1]] = PriorityOf[k[1]]

Bucket(j, t) == {k \in Eligible(t) : SameBucket(j, k)}

Oldest(S) == {j \in S : \A k \in S : jobs[j].created <= jobs[k].created}

(***************************************************************************)
(* The bucket of j is tried before the one of k.                           *)
(***************************************************************************)
Before(j, k, t) ==
    \/ PriorityOf[j[1]] > PriorityOf[k[1]]
    \/ /\ PriorityOf[j[1]] = PriorityOf[k[1]]
       /\ SourceOf[j[1]] # SourceOf[k[1]]
       /\ \A x \in Oldest(Bucket(j, t)), y \in Oldest(Bucket(k, t)) :
             jobs[x].created < jobs[y].created

(***************************************************************************)
(* Jobs of articles that hold a slot already, unless their destination has *)
(* a success recorded since they were queued.                              *)
(***************************************************************************)
FanOut(t) ==
    {j \in Eligible(t) :
        /\ j[1] \in Consumed(t)
        /\ j \in RecentSuccesses(t) => jobs[j].created > delivered[j]}

NextFanOut(t) ==
    {j \in FanOut(t) :
        /\ \A k \in FanOut(t) : ~Before(k, j, t)
        /\ j \in Oldest(FanOut(t) \cap Bucket(j, t))}

(***************************************************************************)
(* A success is recorded only for a stored article, so its source is found *)
(* there, and the source of a claim in its row.                            *)
(***************************************************************************)
AtCap(j, t) == SourceCount(SourceOf[j[1]], t) >= MaxSource

(***************************************************************************)
(* A new article is taken only from the head of a bucket; a head whose     *)
(* article holds a slot hides the bucket.                                  *)
(***************************************************************************)
PassedOver(j, t) ==
    AtCap(j, t) \/ \E h \in Oldest(Bucket(j, t)) : h[1] \in Consumed(t)

NextNew(t) ==
    {j \in Eligible(t) :
        /\ j \in Oldest(Bucket(j, t))
        /\ j[1] \notin Consumed(t)
        /\ ~AtCap(j, t)
        /\ \A k \in Eligible(t) : Before(k, j, t) => PassedOver(k, t)}

Claimable(t) ==
    IF FanOut(t) # {} THEN NextFanOut(t)
    ELSE IF Cardinality(Consumed(t)) < MaxGlobal THEN NextNew(t)
    ELSE {}

-----------------------------------------------------------------------------
RecoverLeases(w) ==
    /\ claim[w].step = "idle"
    /\ RecoverExpiredLeases(now)
    /\ UNCHANGED <<articles, delivered, legacyKeys, versionKeys, channels, now, claim>>

ClaimNext(w) ==
    /\ claim[w].step = "idle"
    /\ \E j \in Claimable(now) :
          LET row == Claimed(jobs[j], now)
          IN  /\ jobs' = [jobs EXCEPT ![j] = row]
              /\ claim' = [claim EXCEPT ![w] =
                    [NoClaim EXCEPT !.step = "load", !.at = now, !.job = j, !.row = row]]
    /\ UNCHANGED <<articles, delivered, legacyKeys, versionKeys, channels, now>>

\* Mutant: the key of the article alone decides, updates included.
AlreadyDeliveredLegacy(j, article) == j \in legacyKeys

(***************************************************************************)
(* The idempotency test: this version was delivered here, or the article   *)
(* was delivered here and anywhere since this version was written.         *)
(***************************************************************************)
AlreadyDelivered(j, article) ==
    \/ <<j, article.ts>> \in versionKeys
    \/ article.sent # 0 /\ article.ts <= article.sent /\ j \in legacyKeys

LoadArticle(w) ==
    /\ claim[w].step = "load"
    /\ LET j == claim[w].job
           article == articles[j[1]]
       IN  IF ~article.stored \/ j[2] \notin Publisher
           THEN /\ SaveJob(j, DeadLetter(claim[w].row))
                /\ claim' = [claim EXCEPT ![w] = NoClaim]
           ELSE /\ claim' = [claim EXCEPT ![w].article = article,
                        ![w].step = IF AlreadyDelivered(j, article) THEN "readSucceeded" ELSE "send"]
                /\ UNCHANGED jobs
    /\ UNCHANGED <<articles, delivered, legacyKeys, versionKeys, channels, now>>

\* Mutant: a rejected publish counts as a success.
SendAlways(w) ==
    /\ claim[w].step = "send"
    /\ \E outcome \in Outcome :
          IF outcome = "rejected" THEN UNCHANGED channels
          ELSE PostTo(claim[w].job, claim[w].article.ts)
    /\ claim' = [claim EXCEPT ![w].step = "readSucceeded"]
    /\ UNCHANGED <<store, now>>

Send(w) ==
    /\ claim[w].step = "send"
    /\ \E outcome \in Outcome :
          /\ IF outcome = "rejected" THEN UNCHANGED channels
             ELSE PostTo(claim[w].job, claim[w].article.ts)
          /\ claim' = [claim EXCEPT ![w].step =
                          IF outcome = "ok" THEN "readSucceeded" ELSE "readFailed"]
    /\ UNCHANGED <<store, now>>

-----------------------------------------------------------------------------
(***************************************************************************)
(* mark_success, which saves the row as it is read then, and run_once's    *)
(* save of the article it loaded.                                          *)
(***************************************************************************)
ReadSucceeded(w) ==
    /\ claim[w].step = "readSucceeded"
    /\ claim' = [claim EXCEPT ![w].row = jobs[claim[w].job], ![w].step = "saveSucceeded"]
    /\ UNCHANGED storeVars

SaveSucceeded(w) ==
    /\ claim[w].step = "saveSucceeded"
    /\ SaveJob(claim[w].job, Succeeded(claim[w].row))
    /\ claim' = [claim EXCEPT ![w].step = "markLegacy"]
    /\ UNCHANGED <<articles, delivered, legacyKeys, versionKeys, channels, now>>

MarkLegacy(w) ==
    /\ claim[w].step = "markLegacy"
    /\ legacyKeys' = legacyKeys \cup {claim[w].job}
    /\ claim' = [claim EXCEPT ![w].step = "markVersion"]
    /\ UNCHANGED <<articles, jobs, delivered, versionKeys, channels, now>>

MarkVersion(w) ==
    /\ claim[w].step = "markVersion"
    /\ LET article == articles[claim[w].job[1]]
       IN  versionKeys' = versionKeys \cup
              (IF article.stored THEN {<<claim[w].job, article.ts>>} ELSE {})
    /\ claim' = [claim EXCEPT ![w].step = "recordSuccess"]
    /\ UNCHANGED <<articles, jobs, delivered, legacyKeys, channels, now>>

RecordSuccess(w) ==
    /\ claim[w].step = "recordSuccess"
    /\ RecordDelivery(claim[w].job, TRUE, claim[w].at)
    /\ claim' = [claim EXCEPT ![w].step = "saveArticle"]
    /\ UNCHANGED <<articles, jobs, legacyKeys, versionKeys, channels, now>>

SaveArticle(w) ==
    /\ claim[w].step = "saveArticle"
    /\ articles' = [articles EXCEPT ![claim[w].job[1]] =
                       [claim[w].article EXCEPT !.sent = claim[w].at]]
    /\ claim' = [claim EXCEPT ![w] = NoClaim]
    /\ UNCHANGED <<jobs, delivered, legacyKeys, versionKeys, channels, now>>

(***************************************************************************)
(* mark_failure.                                                           *)
(***************************************************************************)
ReadFailed(w) ==
    /\ claim[w].step = "readFailed"
    /\ claim' = [claim EXCEPT ![w].row = jobs[claim[w].job], ![w].step = "saveFailed"]
    /\ UNCHANGED storeVars

SaveFailed(w) ==
    /\ claim[w].step = "saveFailed"
    /\ SaveJob(claim[w].job, Failed(claim[w].row, claim[w].at))
    /\ claim' = [claim EXCEPT ![w].step = "recordFailure"]
    /\ UNCHANGED <<articles, delivered, legacyKeys, versionKeys, channels, now>>

RecordFailure(w) ==
    /\ claim[w].step = "recordFailure"
    /\ RecordDelivery(claim[w].job, FALSE, claim[w].at)
    /\ claim' = [claim EXCEPT ![w] = NoClaim]
    /\ UNCHANGED <<articles, jobs, legacyKeys, versionKeys, channels, now>>

(***************************************************************************)
(* What run_once does with the job it claimed.                             *)
(***************************************************************************)
Publish(w) ==
    \/ LoadArticle(w) \/ Send(w)
    \/ ReadSucceeded(w) \/ SaveSucceeded(w) \/ MarkLegacy(w) \/ MarkVersion(w)
    \/ RecordSuccess(w) \/ SaveArticle(w)
    \/ ReadFailed(w) \/ SaveFailed(w) \/ RecordFailure(w)

RunOnce(w) == ClaimNext(w) \/ Publish(w)

LoseClaim(w) ==
    /\ Crashes
    /\ claim[w] # NoClaim
    /\ claim' = [claim EXCEPT ![w] = NoClaim]
    /\ UNCHANGED storeVars

PassTime ==
    /\ Prompt => \A w \in Worker : claim[w].step = "idle"
    /\ Tick
    /\ UNCHANGED claim

=============================================================================
