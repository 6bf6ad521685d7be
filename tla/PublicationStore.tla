-------------------------- MODULE PublicationStore --------------------------
(***************************************************************************)
(* The durable state of YasinPress: the articles, publication_queue,       *)
(* delivery_history and idempotency_keys tables that every component       *)
(* shares through one SQLite database, the queries the publication paths   *)
(* run on them, and the channels the publishers post to.                   *)
(*                                                                         *)
(* Time is an integer clock.  One tick stands for more than a few seconds: *)
(* every duration is a constant counted in ticks.  Zero is "no time": a    *)
(* NULL column, and the epoch, which the code treats as an absent date.    *)
(* The version of an article is its news timestamp.                        *)
(***************************************************************************)
EXTENDS Integers, FiniteSets

CONSTANTS
    Process,      \* the processes that share the database
    Article,      \* article ids (stable: looked up by url)
    Destination,  \* the publishers an article fans out to
    Source,       \* feed hostnames
    SourceOf,     \* the source of each article
    PriorityOf,   \* the priority computed for each article
    Hour,         \* length of the rate limiting window
    Lease,        \* duration of a claim on a job
    BaseBackoff,  \* delay before the first retry
    MaxAttempts,  \* attempts before a failing job is a dead letter
    MaxGlobal,    \* unique articles per window
    MaxSource,    \* unique articles per window and source
    MaxTime       \* bound of the clock

Job == Article \X Destination

(***************************************************************************)
(* base_backoff_seconds * 2 ** (attempts - 1); attempts is zero when the   *)
(* row was queued afresh while it was being published.                     *)
(***************************************************************************)
Backoff(attempts) ==
    IF attempts = 0 THEN BaseBackoff \div 2 ELSE BaseBackoff * 2 ^ (attempts - 1)

ASSUME StoreAssumption ==
    /\ SourceOf \in [Article -> Source]
    /\ PriorityOf \in [Article -> Nat]
    /\ Hour \in Nat /\ Lease \in Nat \ {0} /\ BaseBackoff \in Nat
    /\ MaxAttempts \in Nat \ {0}
    /\ MaxGlobal \in Nat /\ MaxSource \in Nat /\ MaxTime \in Nat

ASSUME BackoffAssumption ==
    \A attempts \in 0 .. MaxAttempts : Backoff(attempts) \in Nat

VARIABLES
    articles,     \* Article -> [stored, ts, sent]; sent is published_to_channel_at
    jobs,         \* Job -> row of publication_queue
    delivered,    \* Job -> created_at of its success record in delivery_history, or 0
    legacyKeys,   \* the jobs whose "article:destination" key is marked
    versionKeys,  \* the <<job, version>> whose "article:destination:version" key is marked
    posts,        \* the <<job, version>> a channel received
    lastPost,     \* Job -> when its channel last received it, or 0
    reposts,      \* the <<job, version>> a channel received more than once
    now           \* the clock

store == <<articles, jobs, delivered, legacyKeys, versionKeys>>
channels == <<posts, lastPost, reposts>>
storeVars == <<store, channels, now>>

Status == {"absent", "pending", "processing", "retrying", "succeeded", "dead_letter"}

ArticleRow == [stored : BOOLEAN, ts : Nat, sent : Nat]
JobRow == [status : Status, attempts : Nat, lease : Nat, next : Nat, created : Nat]

NoArticle == [stored |-> FALSE, ts |-> 0, sent |-> 0]
NoRow == [status |-> "absent", attempts |-> 0, lease |-> 0, next |-> 0, created |-> 0]

StoreTypeOK ==
    /\ articles \in [Article -> ArticleRow]
    /\ jobs \in [Job -> JobRow]
    /\ delivered \in [Job -> Nat]
    /\ legacyKeys \subseteq Job
    /\ versionKeys \subseteq Job \X Nat
    /\ posts \subseteq Job \X Nat
    /\ lastPost \in [Job -> Nat]
    /\ reposts \subseteq Job \X Nat
    /\ now \in Nat

StoreInit ==
    /\ articles = [a \in Article |-> NoArticle]
    /\ jobs = [j \in Job |-> NoRow]
    /\ delivered = [j \in Job |-> 0]
    /\ legacyKeys = {}
    /\ versionKeys = {}
    /\ posts = {}
    /\ lastPost = [j \in Job |-> 0]
    /\ reposts = {}
    /\ now = 1

(***************************************************************************)
(* A database that ingestion left a backlog in, queued at the given ages:  *)
(* an ingestion that died may have queued an article for some destinations *)
(* only, or without saving it.                                             *)
(***************************************************************************)
BacklogInit(ages) ==
    /\ articles \in [Article -> {NoArticle, [stored |-> TRUE, ts |-> 1, sent |-> 0]}]
    /\ \E created \in [Article -> ages] :
       \E queued \in SUBSET Job :
          jobs = [j \in Job |-> IF j \in queued
                               THEN [NoRow EXCEPT !.status = "pending", !.created = created[j[1]]]
                               ELSE NoRow]
    /\ delivered = [j \in Job |-> 0]
    /\ legacyKeys = {} /\ versionKeys = {}
    /\ posts = {} /\ reposts = {}
    /\ lastPost = [j \in Job |-> 0]
    /\ now \in {t \in ages : \A age \in ages : age <= t}

Tick ==
    /\ now < MaxTime
    /\ now' = now + 1
    /\ UNCHANGED <<store, channels>>

-----------------------------------------------------------------------------
(***************************************************************************)
(* Queries.                                                                *)
(***************************************************************************)

Eligible(t) ==
    {j \in Job : /\ jobs[j].status \in {"pending", "retrying"}
                 /\ jobs[j].next <= t
                 /\ jobs[j].lease <= t}

\* Mutant: recovery takes claims whose lease still runs.
StaleUnexpired(t) == {j \in Job : jobs[j].status = "processing" /\ jobs[j].lease # 0}

\* Mutant: recovery skips the jobs that used up their attempts.
StaleSpent(t) ==
    {j \in Job : /\ jobs[j].status = "processing"
                 /\ jobs[j].lease # 0 /\ jobs[j].lease <= t
                 /\ jobs[j].attempts < MaxAttempts}

Stale(t) ==
    {j \in Job : /\ jobs[j].status = "processing"
                 /\ jobs[j].lease # 0
                 /\ jobs[j].lease <= t}

LiveClaims(t) ==
    {j \in Job : /\ jobs[j].status = "processing"
                 /\ jobs[j].lease = 0 \/ jobs[j].lease >= t}

\* Mutant: a delivery exactly one window old is not counted.
RecentSuccessesExclusive(t) == {j \in Job : delivered[j] # 0 /\ delivered[j] > t - Hour}

RecentSuccesses(t) ==
    {j \in Job : delivered[j] # 0 /\ delivered[j] >= t - Hour}

(***************************************************************************)
(* The articles that hold a publication slot of the window that ends at t, *)
(* and how many of them count against a source: a recent success counts    *)
(* while its article is stored, a claim always.                            *)
(***************************************************************************)
Consumed(t) == {j[1] : j \in RecentSuccesses(t) \cup LiveClaims(t)}

\* Mutant: claims do not count against their source.
SourceCountSuccesses(s, t) ==
    Cardinality({a \in Article : /\ SourceOf[a] = s /\ articles[a].stored
                                /\ \E j \in RecentSuccesses(t) : j[1] = a})

SourceCount(s, t) ==
    Cardinality({a \in Article :
        /\ SourceOf[a] = s
        /\ \/ articles[a].stored /\ \E j \in RecentSuccesses(t) : j[1] = a
           \/ \E j \in LiveClaims(t) : j[1] = a})

-----------------------------------------------------------------------------
(***************************************************************************)
(* Writes.                                                                 *)
(***************************************************************************)

(***************************************************************************)
(* The upsert of add_job and save_job: a conflicting row keeps its         *)
(* created_at unless a finished job becomes pending again.                 *)
(***************************************************************************)
Upsert(old, new) ==
    [new EXCEPT !.created =
        IF \/ old.status = "absent"
           \/ old.status \in {"succeeded", "dead_letter"} /\ new.status = "pending"
        THEN new.created ELSE old.created]

SaveJob(j, row) == jobs' = [jobs EXCEPT ![j] = Upsert(jobs[j], row)]

(***************************************************************************)
(* The rows a failed and a finished publication leave behind.              *)
(***************************************************************************)
DeadLetter(row) == [row EXCEPT !.status = "dead_letter", !.lease = 0]

Succeeded(row) == [row EXCEPT !.status = "succeeded", !.lease = 0]

Failed(row, at) ==
    IF row.attempts >= MaxAttempts
    THEN DeadLetter(row)
    ELSE [row EXCEPT !.status = "retrying", !.lease = 0,
                     !.next = at + Backoff(row.attempts)]

Claimed(row, at) ==
    [row EXCEPT !.status = "processing", !.lease = at + Lease, !.attempts = @ + 1]

(***************************************************************************)
(* recover_expired_leases, one transaction: every stale claim goes back to *)
(* the queue.                                                              *)
(***************************************************************************)
Recovered(row) ==
    [row EXCEPT !.status = IF row.attempts > 0 THEN "retrying" ELSE "pending",
                !.lease = 0]

RecoverExpiredLeases(t) ==
    jobs' = [j \in Job |-> IF j \in Stale(t) THEN Upsert(jobs[j], Recovered(jobs[j]))
                                             ELSE jobs[j]]

(***************************************************************************)
(* DeliveryRecord upsert, one row per article and destination: a failure   *)
(* record replaces an earlier success record.                              *)
(***************************************************************************)
RecordDelivery(j, success, at) ==
    delivered' = [delivered EXCEPT ![j] = IF success THEN at ELSE 0]

(***************************************************************************)
(* A publisher puts version ts of an article on its channel.               *)
(***************************************************************************)
PostTo(j, ts) ==
    /\ posts' = posts \cup {<<j, ts>>}
    /\ lastPost' = [lastPost EXCEPT ![j] = now]
    /\ reposts' = reposts \cup (posts \cap {<<j, ts>>})

=============================================================================
