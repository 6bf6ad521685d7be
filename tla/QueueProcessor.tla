--------------------------- MODULE QueueProcessor ---------------------------
(***************************************************************************)
(* PublicationQueueProcessor: process_cycle as a process runs it, one      *)
(* action per transaction or commit.  A cycle recovers expired leases,     *)
(* claims a rate limited batch in one transaction, and publishes the batch *)
(* job by job; the rows it claimed stay in its memory until each is saved. *)
(* The cycle reads the clock once, when it starts.                         *)
(***************************************************************************)
EXTENDS PublicationSlots

CONSTANTS
    Publisher,    \* the destinations this configuration has a publisher for
    Outcome,      \* what publish may do: "ok", "rejected", "lost_reply"
    Prompt,       \* do cycles end before the clock advances
    Crashes,      \* may a process die
    NoJob         \* no job

ASSUME ProcessorAssumption ==
    /\ Publisher \subseteq Destination
    /\ Outcome \subseteq {"ok", "rejected", "lost_reply"}
    /\ Prompt \in BOOLEAN /\ Crashes \in BOOLEAN
    /\ NoJob \notin Job

VARIABLE cycle    \* Process -> the cycle it is running

(***************************************************************************)
(* The batch of a cycle: its copies of the rows it claimed and has not     *)
(* finished.                                                               *)
(***************************************************************************)
NoBatch == [j \in Job |-> NoRow]

Held(c) == {j \in Job : c.batch[j].status # "absent"}

Idle ==
    [step |-> "idle", at |-> 0, batch |-> NoBatch, job |-> NoJob,
     article |-> NoArticle, success |-> FALSE]

CycleStep ==
    {"idle", "select", "load", "send", "record", "markLegacy", "markVersion",
     "saveArticle", "saveJob"}

CycleTypeOK ==
    cycle \in [Process -> [step : CycleStep, at : Nat, batch : [Job -> JobRow],
                           job : Job \cup {NoJob}, article : ArticleRow,
                           success : BOOLEAN]]

CycleInit == cycle = [p \in Process |-> Idle]

-----------------------------------------------------------------------------
(***************************************************************************)
(* An eligible job whose recent delivery already covers the stored version *)
(* of its article is left in the queue.                                    *)
(***************************************************************************)
Covered(j, t) ==
    /\ j \in RecentSuccesses(t)
    /\ ~articles[j[1]].stored \/ articles[j[1]].ts <= delivered[j]

(***************************************************************************)
(* One transaction claims every eligible job of the articles that hold a   *)
(* slot or were just given one.                                            *)
(***************************************************************************)
Batch(S, t) ==
    {j \in Eligible(t) : j[1] \in Consumed(t) \cup S /\ ~Covered(j, t)}

RecoverLeases(p) ==
    /\ cycle[p].step = "idle"
    /\ RecoverExpiredLeases(now)
    /\ cycle' = [cycle EXCEPT ![p] = [Idle EXCEPT !.step = "select", !.at = now]]
    /\ UNCHANGED <<articles, delivered, legacyKeys, versionKeys, channels, now>>

SelectBatch(p) ==
    /\ cycle[p].step = "select"
    /\ \E S \in SUBSET Candidates(cycle[p].at) :
          LET t == cycle[p].at
              claimed == Batch(S, t)
          IN  /\ FairSelection(S, t)
              /\ jobs' = [j \in Job |-> IF j \in claimed THEN Claimed(jobs[j], t) ELSE jobs[j]]
              /\ cycle' = [cycle EXCEPT ![p] =
                    IF claimed = {} THEN Idle
                    ELSE [@ EXCEPT !.step = "load",
                                   !.batch = [j \in Job |-> IF j \in claimed
                                                            THEN Claimed(jobs[j], t)
                                                            ELSE NoRow]]]
    /\ UNCHANGED <<articles, delivered, legacyKeys, versionKeys, channels, now>>

-----------------------------------------------------------------------------
(***************************************************************************)
(* The batch is sorted by priority, then age, then source and destination  *)
(* (whose order by name is left open).                                     *)
(***************************************************************************)
Precedes(j, k, c) ==
    \/ PriorityOf[j[1]] > PriorityOf[k[1]]
    \/ /\ PriorityOf[j[1]] = PriorityOf[k[1]]
       /\ c.batch[j].created < c.batch[k].created

Heads(c) == {j \in Held(c) : \A k \in Held(c) : ~Precedes(k, j, c)}

(***************************************************************************)
(* The cycle after the job it worked on: the next one, or the end.         *)
(***************************************************************************)
Remaining(c, j) ==
    IF Held(c) = {j} THEN Idle
    ELSE [Idle EXCEPT !.step = "load", !.at = c.at,
                      !.batch = [c.batch EXCEPT ![j] = NoRow]]

\* Mutant: only the key of this very version counts.
AlreadyDeliveredVersion(j, ts) == <<j, ts>> \in versionKeys

\* Mutant: the success record stands for the keys.
AlreadyDeliveredRecorded(j, ts) == delivered[j] # 0 /\ ts <= delivered[j]

(***************************************************************************)
(* The idempotency test: this version was delivered, or the article was    *)
(* and no success record says that was before this version was written.    *)
(***************************************************************************)
AlreadyDelivered(j, ts) ==
    \/ <<j, ts>> \in versionKeys
    \/ j \in legacyKeys /\ (delivered[j] = 0 \/ ts <= delivered[j])

LoadArticle(p) ==
    /\ cycle[p].step = "load"
    /\ \E j \in Heads(cycle[p]) :
          LET article == articles[j[1]]
              skip == AlreadyDelivered(j, article.ts)
          IN  IF ~article.stored \/ j[2] \notin Publisher
              THEN /\ SaveJob(j, DeadLetter(cycle[p].batch[j]))
                   /\ cycle' = [cycle EXCEPT ![p] = Remaining(@, j)]
              ELSE /\ cycle' = [cycle EXCEPT ![p].job = j,
                                             ![p].article = article,
                                             ![p].success = skip,
                                             ![p].step = IF skip THEN "record" ELSE "send"]
                   /\ UNCHANGED jobs
    /\ UNCHANGED <<articles, delivered, legacyKeys, versionKeys, channels, now>>

Send(p) ==
    /\ cycle[p].step = "send"
    /\ \E outcome \in Outcome :
          /\ IF outcome = "rejected" THEN UNCHANGED channels
             ELSE PostTo(cycle[p].job, cycle[p].article.ts)
          /\ cycle' = [cycle EXCEPT ![p].success = (outcome = "ok"), ![p].step = "record"]
    /\ UNCHANGED <<store, now>>

\* Mutant: the job is acknowledged without marking its keys.
RecordUnmarked(p) ==
    /\ cycle[p].step = "record"
    /\ RecordDelivery(cycle[p].job, cycle[p].success, cycle[p].at)
    /\ cycle' = [cycle EXCEPT ![p].step = "saveJob"]
    /\ UNCHANGED <<articles, jobs, legacyKeys, versionKeys, channels, now>>

\* Mutant: the keys are marked whatever the result.
RecordAlways(p) ==
    /\ cycle[p].step = "record"
    /\ RecordDelivery(cycle[p].job, cycle[p].success, cycle[p].at)
    /\ cycle' = [cycle EXCEPT ![p].step = "markLegacy"]
    /\ UNCHANGED <<articles, jobs, legacyKeys, versionKeys, channels, now>>

Record(p) ==
    /\ cycle[p].step = "record"
    /\ RecordDelivery(cycle[p].job, cycle[p].success, cycle[p].at)
    /\ cycle' = [cycle EXCEPT ![p].step = IF cycle[p].success THEN "markLegacy" ELSE "saveJob"]
    /\ UNCHANGED <<articles, jobs, legacyKeys, versionKeys, channels, now>>

MarkLegacy(p) ==
    /\ cycle[p].step = "markLegacy"
    /\ legacyKeys' = legacyKeys \cup {cycle[p].job}
    /\ cycle' = [cycle EXCEPT ![p].step = "markVersion"]
    /\ UNCHANGED <<articles, jobs, delivered, versionKeys, channels, now>>

MarkVersion(p) ==
    /\ cycle[p].step = "markVersion"
    /\ versionKeys' = versionKeys \cup {<<cycle[p].job, cycle[p].article.ts>>}
    /\ cycle' = [cycle EXCEPT ![p].step = "saveArticle"]
    /\ UNCHANGED <<articles, jobs, delivered, legacyKeys, channels, now>>

(***************************************************************************)
(* replace(article, published_to_channel_at=current): the copy loaded      *)
(* before publishing is written back.                                      *)
(***************************************************************************)
SaveArticle(p) ==
    /\ cycle[p].step = "saveArticle"
    /\ articles' = [articles EXCEPT ![cycle[p].job[1]] =
                       [cycle[p].article EXCEPT !.sent = cycle[p].at]]
    /\ cycle' = [cycle EXCEPT ![p].step = "saveJob"]
    /\ UNCHANGED <<jobs, delivered, legacyKeys, versionKeys, channels, now>>

\* Mutant: the result is not looked at.
FinishJobAlways(p) ==
    /\ cycle[p].step = "saveJob"
    /\ SaveJob(cycle[p].job, Succeeded(cycle[p].batch[cycle[p].job]))
    /\ cycle' = [cycle EXCEPT ![p] = Remaining(@, cycle[p].job)]
    /\ UNCHANGED <<articles, delivered, legacyKeys, versionKeys, channels, now>>

FinishJob(p) ==
    /\ cycle[p].step = "saveJob"
    /\ LET j == cycle[p].job
           row == cycle[p].batch[j]
       IN  /\ SaveJob(j, IF cycle[p].success THEN Succeeded(row) ELSE Failed(row, cycle[p].at))
           /\ cycle' = [cycle EXCEPT ![p] = Remaining(@, j)]
    /\ UNCHANGED <<articles, delivered, legacyKeys, versionKeys, channels, now>>

PublishBatch(p) ==
    \/ SelectBatch(p) \/ LoadArticle(p) \/ Send(p) \/ Record(p) \/ MarkLegacy(p)
    \/ MarkVersion(p) \/ SaveArticle(p) \/ FinishJob(p)

(***************************************************************************)
(* The batch a dying process held is gone; what it committed stays.        *)
(***************************************************************************)
LoseCycle(p) == Crashes /\ cycle' = [cycle EXCEPT ![p] = Idle]

PassTime ==
    /\ Prompt => \A p \in Process : cycle[p].step = "idle"
    /\ Tick
    /\ UNCHANGED cycle

-----------------------------------------------------------------------------
(***************************************************************************)
(* A job is marked succeeded only after its article:destination key was    *)
(* marked: no crash leaves an acknowledged delivery without its            *)
(* idempotency key (queue_processor.py:263-281).                           *)
(***************************************************************************)
AcknowledgedHasKey == \A j \in Job : jobs[j].status = "succeeded" => j \in legacyKeys

(***************************************************************************)
(* A key vouches for a real post: whatever skipping, failing and crashing  *)
(* went on, a destination whose key is marked received some version of the *)
(* article, and a version key is never marked without the article's key.   *)
(***************************************************************************)
KeyHasPost ==
    /\ \A j \in legacyKeys : \E post \in posts : post[1] = j
    /\ \A key \in versionKeys : key[1] \in legacyKeys

(***************************************************************************)
(* The articles the hourly limit accounts for, and those in the hands of a *)
(* cycle, together fit the global and the per source limit.                *)
(***************************************************************************)
Reserved ==
    Consumed(now) \cup {j[1] : j \in UNION {Held(cycle[p]) : p \in Process}}

SlotsWithinLimits ==
    /\ Cardinality(Reserved) <= MaxGlobal
    /\ \A s \in Source : Cardinality({a \in Reserved : SourceOf[a] = s}) <= MaxSource

(***************************************************************************)
(* What readers saw of the last hour stays within the global limit.        *)
(***************************************************************************)
HourlyRate ==
    Cardinality({j[1] : j \in {k \in Job : lastPost[k] # 0 /\ lastPost[k] >= now - Hour}})
      <= MaxGlobal

(***************************************************************************)
(* No version of an article reaches a destination twice.                   *)
(***************************************************************************)
NoReposts == reposts = {}

(***************************************************************************)
(* Two processes never hold the same job under leases that both run.       *)
(***************************************************************************)
LeasesExclude ==
    \A p, q \in Process :
        \A j \in Held(cycle[p]) \cap Held(cycle[q]) :
            cycle[p].batch[j].lease > now /\ cycle[q].batch[j].lease > now => p = q

(***************************************************************************)
(* A version whose key is marked is never posted again, whoever recovers,  *)
(* requeues or retries its job.                                            *)
(***************************************************************************)
MarkedNeverReposted ==
    [][((posts' \ posts) \cup (reposts' \ reposts)) \cap versionKeys = {}]_<<storeVars, cycle>>

=============================================================================
