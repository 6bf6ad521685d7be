---------------------------- MODULE FeedIngestion ----------------------------
(***************************************************************************)
(* process_items: one batch of feed items is normalised against the stored *)
(* articles, filtered for freshness, queued for every destination and only *)
(* then saved.  Every add_job and every article save is a commit of its    *)
(* own, so another process, or a crash, can come between any two of them.  *)
(*                                                                         *)
(* The items a feed lists are external: any stored or new article with any *)
(* date of NewsTime, old copies and dates that are yet to come included.   *)
(***************************************************************************)
EXTENDS PublicationStore

CONSTANTS
    NewsTime,     \* the dates feeds print (0: no date)
    MaxItems,     \* bound: articles of one batch
    MaxAge,       \* freshness window
    Tolerance     \* how much later than a delivery an update must be dated

ASSUME IngestionAssumption ==
    /\ NewsTime \subseteq Nat
    /\ MaxItems \in Nat /\ MaxAge \in Nat /\ Tolerance \in Nat

VARIABLE intake   \* Process -> the batch it is ingesting

(***************************************************************************)
(* The normalised rows of the articles a batch lists.                      *)
(***************************************************************************)
NoItems == [a \in Article |-> NoArticle]

NoIntake == [step |-> "idle", items |-> NoItems, todo |-> {}, unsaved |-> {}]

IntakeTypeOK ==
    intake \in [Process -> [step : {"idle", "filter", "queue", "save", "done"},
                            items : [Article -> ArticleRow],
                            todo : SUBSET Job, unsaved : SUBSET Article]]

IntakeInit == intake = [p \in Process |-> NoIntake]

-----------------------------------------------------------------------------
(***************************************************************************)
(* An item takes over the id and the delivery time of the stored article.  *)
(* A later date makes it an update, which has not been delivered; an item  *)
(* without a date keeps the stored one.                                    *)
(***************************************************************************)
IsUpdate(a, ts) ==
    /\ ts # 0
    /\ articles[a].stored
    /\ articles[a].ts = 0 \/ ts > articles[a].ts + Tolerance

Normalize(a, ts) ==
    [stored |-> TRUE,
     ts     |-> IF ts = 0 THEN articles[a].ts ELSE ts,
     sent   |-> IF IsUpdate(a, ts) THEN 0 ELSE articles[a].sent]

(***************************************************************************)
(* The date that counts is the one the item itself carries.                *)
(***************************************************************************)
Fresh(ts) == ts # 0 /\ ts >= now - MaxAge

Outdated(row) == row.sent # 0 /\ row.ts > row.sent + Tolerance

FullyDelivered(a, row) ==
    /\ row.sent # 0
    /\ ~Outdated(row)
    /\ Destination # {}
    /\ \A d \in Destination : <<a, d>> \in legacyKeys

NeedsQueue(j, row) ==
    jobs[j].status = "absent" \/ row.sent = 0 \/ Outdated(row)

NewRow == [NoRow EXCEPT !.status = "pending", !.created = now]

-----------------------------------------------------------------------------
(***************************************************************************)
(* The dates the feeds print for the articles of S.  A feed that cannot be *)
(* fetched or parsed lists nothing, and update times are not passed on.    *)
(***************************************************************************)
FetchMany(S) == [S -> NewsTime]

Fetch(p) ==
    /\ intake[p].step = "idle"
    /\ \E S \in (SUBSET Article) \ {{}} :
       \E ts \in FetchMany(S) :
          /\ Cardinality(S) <= MaxItems
          /\ intake' = [intake EXCEPT ![p] =
                [step    |-> "filter",
                 items   |-> [a \in Article |-> IF a \in S THEN Normalize(a, ts[a]) ELSE NoArticle],
                 todo    |-> {j \in Job : j[1] \in S /\ Fresh(ts[j[1]])},
                 unsaved |-> S]]
    /\ UNCHANGED storeVars

(***************************************************************************)
(* Once the fresh articles are enriched, those that every destination has  *)
(* already are left out.                                                   *)
(***************************************************************************)
Filter(p) ==
    /\ intake[p].step = "filter"
    /\ LET todo == {j \in intake[p].todo : ~FullyDelivered(j[1], intake[p].items[j[1]])}
       IN  intake' = [intake EXCEPT ![p].todo = todo,
                                    ![p].step = IF todo = {} THEN "save" ELSE "queue"]
    /\ UNCHANGED storeVars

(***************************************************************************)
(* add_job for one article and destination, if it needs queueing.          *)
(***************************************************************************)
QueueJob(p) ==
    /\ intake[p].step = "queue"
    /\ \E j \in intake[p].todo :
          /\ IF NeedsQueue(j, intake[p].items[j[1]])
             THEN SaveJob(j, NewRow)
             ELSE UNCHANGED jobs
          /\ intake' = [intake EXCEPT ![p].todo = @ \ {j},
                                      ![p].step = IF intake[p].todo = {j} THEN "save" ELSE @]
    /\ UNCHANGED <<articles, delivered, legacyKeys, versionKeys, channels, now>>

(***************************************************************************)
(* The batch once a is saved; with the last of them it is done.            *)
(***************************************************************************)
Unsaved(batch, a) ==
    IF batch.unsaved = {a} THEN [NoIntake EXCEPT !.step = "done"]
    ELSE [batch EXCEPT !.unsaved = @ \ {a}]

(***************************************************************************)
(* save_many writes every normalised article, delivered or stale ones too. *)
(***************************************************************************)
SaveItem(p) ==
    /\ intake[p].step = "save"
    /\ \E a \in intake[p].unsaved :
          /\ articles' = [articles EXCEPT ![a] = intake[p].items[a]]
          /\ intake' = [intake EXCEPT ![p] = Unsaved(@, a)]
    /\ UNCHANGED <<jobs, delivered, legacyKeys, versionKeys, channels, now>>

Ingest(p) == Fetch(p) \/ Filter(p) \/ QueueJob(p) \/ SaveItem(p)

=============================================================================
