-------------------------- MODULE DirectPublishing --------------------------
(***************************************************************************)
(* ProcessingService without a publication queue, and the application on   *)
(* top of it: one process takes a batch of items from its sources or from  *)
(* its caller, normalises them against the stored articles, has the fresh  *)
(* ones enriched, publishes a fair and rate limited choice of them to      *)
(* every destination, and saves them all.                                  *)
(*                                                                         *)
(* The process may die between any two steps.  Articles and feed files     *)
(* survive that; delivery history and idempotency keys do when the service *)
(* was given the tables, and not when it was left to its defaults.         *)
(***************************************************************************)
EXTENDS SourceHealth, FeedFile, Enrichment

CONSTANTS
    Article,       \* article ids (stable: looked up by url)
    SourceOf,      \* the source of each article; callers pass items of any source
    Publishers,    \* the destinations, in the order of the configuration
    DatesOf,       \* the <<published_at, updated_at>> an article is listed with (0: no date)
    MaxItems,      \* bound: articles of one batch
    MaxPerHour,    \* max_publications_per_hour
    MaxAttempts,   \* attempts of the reliable publisher
    Hour, MaxAge, Tolerance,
    StaleFeed,     \* the age at which all of a feed is stale
    MaxTime        \* bound of the clock

Destination == {Publishers[k] : k \in DOMAIN Publishers}

ASSUME DirectAssumption ==
    /\ IsFiniteSet(Article) /\ IsFiniteSet(Source)
    /\ Publishers \in Seq(Destination) /\ FileDestination \subseteq Destination
    /\ DatesOf \in [Article -> SUBSET (Nat \X Nat)]
    /\ MaxItems \in Nat /\ MaxPerHour \in Nat /\ MaxAttempts \in Nat \ {0}
    /\ Hour \in Nat /\ MaxAge \in Nat /\ Tolerance \in Nat /\ StaleFeed \in Nat
    /\ MaxTime \in Nat \ {0}

VARIABLES
    durable,     \* are history and keys tables, or memory of the process
    rows,        \* Article -> [stored, pub, upd, sent]
    delivered,   \* <<a, d>> -> created_at of its success record, or 0
    keys,        \* the <<a, d, version>> marked; version 0 is the legacy key
    posts,       \* the <<a, d, version>> a channel received
    unsettled,   \* those whose key was not marked after that, or is lost
    reposts,     \* those a channel received again though their key was marked
    batch,       \* the batch in progress
    now

ledger == <<delivered, keys>>
channelVars == <<posts, reposts, unsettled>>
vars == <<healthVars, fileVars, durable, rows, ledger, channelVars, batch, now>>

Row == [stored : BOOLEAN, pub : Nat, upd : Nat, sent : Nat]
NoRow == [stored |-> FALSE, pub |-> 0, upd |-> 0, sent |-> 0]
NoItems == [a \in Article |-> NoRow]

(***************************************************************************)
(* items: the articles of the batch, normalised when all sources are       *)
(* polled; sources: those left to poll; todo: the articles left to enrich, *)
(* or to save; chosen: the articles to publish, the current one first;     *)
(* place: the position of the current destination; result: how the publish *)
(* ended; success: has the current article reached a destination.          *)
(***************************************************************************)
Idle ==
    [step |-> "idle", at |-> 0, items |-> NoItems, fresh |-> {}, sources |-> {}, todo |-> {},
     call |-> NoCall, chosen |-> <<>>, place |-> 0, attempt |-> 0, result |-> FALSE,
     success |-> FALSE]

BatchStep == {"idle", "poll", "filter", "enrich", "select", "visit", "send", "record",
              "markVersion", "markLegacy", "save"}

TypeOK ==
    /\ HealthTypeOK
    /\ durable \in BOOLEAN
    /\ rows \in [Article -> Row]
    /\ delivered \in [Article \X Destination -> 0 .. MaxTime]
    /\ keys \subseteq Article \X Destination \X Nat
    /\ unsettled \subseteq posts /\ reposts \subseteq posts
    /\ batch.step \in BatchStep
    /\ batch.items \in [Article -> Row]
    /\ batch.call \in Call
    /\ batch.place \in 0 .. Len(Publishers) + 1
    /\ batch.attempt \in 0 .. MaxAttempts

Init ==
    /\ HealthInit /\ FeedInit
    /\ durable \in BOOLEAN
    /\ rows = NoItems
    /\ delivered = [j \in Article \X Destination |-> 0]
    /\ keys = {} /\ posts = {} /\ reposts = {} /\ unsettled = {}
    /\ batch = Idle
    /\ now = 1

-----------------------------------------------------------------------------
(***************************************************************************)
(* A batch begins with the items of a caller, or by polling the sources    *)
(* that are enabled; polled items have lost their update times.            *)
(***************************************************************************)
Item(date) == [NoRow EXCEPT !.stored = TRUE, !.pub = date[1], !.upd = date[2]]

(***************************************************************************)
(* What may be listed: any of an article's dates, also ones yet to come.   *)
(***************************************************************************)
Listings(S) ==
    {[a \in Article |-> IF a \in S THEN Item(dates[a]) ELSE NoRow] :
        dates \in {f \in [S -> UNION {DatesOf[a] : a \in S}] :
                     \A a \in S : f[a] \in DatesOf[a]}}

Receive ==
    /\ batch.step = "idle"
    /\ \E S \in (SUBSET Article) \ {{}} : \E items \in Listings(S) :
          /\ Cardinality(S) <= MaxItems
          /\ batch' = [Idle EXCEPT !.step = "filter", !.items = items]
    /\ UNCHANGED <<healthVars, fileVars, durable, rows, ledger, channelVars, now>>

PollSources ==
    /\ batch.step = "idle" /\ Enabled # {}
    /\ batch' = [Idle EXCEPT !.step = "poll", !.sources = Enabled]
    /\ UNCHANGED <<healthVars, fileVars, durable, rows, ledger, channelVars, now>>

Listed(items) == {a \in Article : items[a].stored}

(***************************************************************************)
(* What the listed items make of a reply: dates that are missing do not    *)
(* make a feed stale.                                                      *)
(***************************************************************************)
ReplyOf(items) ==
    LET dated == {a \in Listed(items) : items[a].pub # 0}
    IN  IF Listed(items) = {} THEN "empty"
        ELSE IF dated # {} /\ \A a \in dated : now - items[a].pub > StaleFeed THEN "stale"
        ELSE "live"

IngestSource ==
    /\ batch.step = "poll"
    /\ \E s \in batch.sources : \E S \in SUBSET {a \in Article : SourceOf[a] = s} :
       \E items \in Listings(S) :
          /\ \/ Poll(s, ReplyOf(items))
             \/ S = {} /\ (Poll(s, "unreachable") \/ Poll(s, "malformed"))
          /\ batch' = [batch EXCEPT
                !.sources = @ \ {s},
                !.step = IF batch.sources = {s} THEN "filter" ELSE @,
                !.items = [a \in Article |-> IF a \in S THEN [items[a] EXCEPT !.upd = 0] ELSE @[a]]]
    /\ UNCHANGED <<fileVars, durable, rows, ledger, channelVars, now>>

-----------------------------------------------------------------------------
(***************************************************************************)
(* normalize: the stored update time wins over an older or missing one; a  *)
(* later news time than the stored one clears the delivery time.           *)
(***************************************************************************)
NewsTime(row) == IF row.upd # 0 THEN row.upd ELSE row.pub

Normalize(a, item) ==
    LET old == rows[a]
        new == [item EXCEPT !.upd = IF @ < old.upd THEN old.upd ELSE @]
        isUpdate == /\ old.stored /\ NewsTime(new) # 0
                    /\ NewsTime(old) = 0 \/ NewsTime(new) > NewsTime(old) + Tolerance
    IN  [new EXCEPT !.pub = IF @ = 0 THEN old.pub ELSE @,
                    !.sent = IF isUpdate THEN 0 ELSE old.sent]

Normalized(items) ==
    [a \in Article |-> IF a \in Listed(items) THEN Normalize(a, items[a]) ELSE NoRow]

(***************************************************************************)
(* The date that counts is the item's own, or the stored update time.      *)
(***************************************************************************)
Fresh(a, item) ==
    LET ts == IF rows[a].upd > item.upd THEN rows[a].upd ELSE NewsTime(item)
    IN  ts # 0 /\ ts >= now - MaxAge

Filter ==
    /\ batch.step = "filter"
    /\ LET fresh == {a \in Listed(batch.items) : Fresh(a, batch.items[a])}
           asked == IF Providers = 0 THEN {} ELSE fresh
       IN  batch' = [batch EXCEPT !.at = now,
                        !.items = Normalized(batch.items),
                        !.fresh = fresh,
                        !.todo = asked,
                        !.call = IF asked = {} THEN NoCall ELSE FirstCall,
                        !.step = IF asked = {} THEN "select" ELSE "enrich"]
    /\ UNCHANGED <<healthVars, fileVars, durable, rows, ledger, channelVars, now>>

(***************************************************************************)
(* Every fresh article is enriched, delivered ones as well.                *)
(***************************************************************************)
Enrich ==
    /\ batch.step = "enrich"
    /\ \E outcome \in CallOutcome, a \in batch.todo :
          LET decided == Decided(batch.call, outcome)
              last == decided /\ batch.todo = {a}
          IN  batch' = [batch EXCEPT
                 !.todo = IF decided THEN @ \ {a} ELSE @,
                 !.call = IF last THEN NoCall ELSE IF decided THEN FirstCall ELSE NextCall(@, outcome),
                 !.step = IF last THEN "select" ELSE @]
    /\ UNCHANGED <<healthVars, fileVars, durable, rows, ledger, channelVars, now>>

-----------------------------------------------------------------------------
FullyDelivered(a) ==
    LET row == batch.items[a]
    IN  /\ row.sent # 0
        /\ NewsTime(row) <= row.sent + Tolerance
        /\ Destination # {}
        /\ \A d \in Destination : <<a, d, 0>> \in keys

\* Mutant: a delivery exactly one window old is not counted.
PublishedLastHourExclusive(t) ==
    IF durable THEN Cardinality({j \in DOMAIN delivered : delivered[j] # 0 /\ delivered[j] > t - Hour})
    ELSE 0

(***************************************************************************)
(* Success records of the window, each destination of an article counted;  *)
(* without a history table, none.                                          *)
(***************************************************************************)
PublishedLastHour(t) ==
    IF durable THEN Cardinality({j \in DOMAIN delivered : delivered[j] # 0 /\ delivered[j] >= t - Hour})
    ELSE 0

FreeSlots(t) ==
    LET used == PublishedLastHour(t) IN IF used < MaxPerHour THEN MaxPerHour - used ELSE 0

(***************************************************************************)
(* The turn the source of the n-th article is at.                          *)
(***************************************************************************)
Turn(order, n) == Cardinality({m \in 1 .. n : SourceOf[order[m]] = SourceOf[order[n]]})

Newest(order, n) ==
    LET s == SourceOf[order[n]]
        first == CHOOSE m \in DOMAIN order : SourceOf[order[m]] = s /\ Turn(order, m) = 1
    IN  NewsTime(batch.items[order[first]])

(***************************************************************************)
(* The sources take turns in the order of their newest article, each with  *)
(* its newest first.  Articles of the same time are left in any order.     *)
(***************************************************************************)
InTurns(order) ==
    \A m, n \in DOMAIN order : m < n =>
        IF SourceOf[order[m]] = SourceOf[order[n]]
        THEN NewsTime(batch.items[order[m]]) >= NewsTime(batch.items[order[n]])
        ELSE \/ Turn(order, m) < Turn(order, n)
             \/ Turn(order, m) = Turn(order, n) /\ Newest(order, m) >= Newest(order, n)

Prefix(order, n) == SubSeq(order, 1, IF Len(order) < n THEN Len(order) ELSE n)

(***************************************************************************)
(* The batch with the chosen articles left: the next of them, or saving.   *)
(***************************************************************************)
Publishing(chosen) ==
    IF chosen = <<>>
    THEN [batch EXCEPT !.step = "save", !.chosen = <<>>, !.place = 0, !.success = FALSE,
                       !.todo = Listed(batch.items), !.fresh = {}]
    ELSE [batch EXCEPT !.step = "visit", !.chosen = chosen, !.place = 1, !.success = FALSE]

Select ==
    /\ batch.step = "select"
    /\ \E order \in SetToSeqs({a \in batch.fresh : ~FullyDelivered(a)}) :
          /\ InTurns(order)
          /\ batch' = IF Listed(batch.items) = {} THEN Idle
                      ELSE Publishing(Prefix(order, FreeSlots(batch.at)))
    /\ UNCHANGED <<healthVars, fileVars, durable, rows, ledger, channelVars, now>>

-----------------------------------------------------------------------------
(***************************************************************************)
(* The current article, destination and delivery version.                  *)
(***************************************************************************)
Current == Head(batch.chosen)
Target == Publishers[batch.place]
Version == <<Current, Target, batch.items[Current].upd>>

\* Mutant: only an explicit update is looked up.
SkippedUpdatesOnly == Version \in keys /\ batch.items[Current].upd # 0

(***************************************************************************)
(* The idempotency test: the key of this update, or for an article without *)
(* one the legacy key.                                                     *)
(***************************************************************************)
Skipped == Version \in keys

Visit ==
    /\ batch.step = "visit" /\ batch.place <= Len(Publishers)
    /\ batch' = IF Skipped THEN [batch EXCEPT !.place = @ + 1, !.success = TRUE]
                ELSE [batch EXCEPT !.step = "send", !.attempt = 1]
    /\ UNCHANGED <<healthVars, fileVars, durable, rows, ledger, channelVars, now>>

\* Mutant: a failed attempt is not counted.
TriedUncounted(ok) ==
    IF ~ok /\ batch.attempt < MaxAttempts THEN batch
    ELSE [batch EXCEPT !.step = "record", !.result = ok]

\* Mutant: one attempt more than the policy allows.
TriedOnceMore(ok) ==
    IF ~ok /\ batch.attempt <= MaxAttempts THEN [batch EXCEPT !.attempt = @ + 1]
    ELSE [batch EXCEPT !.step = "record", !.result = ok]

(***************************************************************************)
(* The batch after an attempt.                                             *)
(***************************************************************************)
Tried(ok) ==
    IF ~ok /\ batch.attempt < MaxAttempts THEN [batch EXCEPT !.attempt = @ + 1]
    ELSE [batch EXCEPT !.step = "record", !.result = ok]

(***************************************************************************)
(* The file is replaced, or the disk refuses; the channel takes the post   *)
(* and says so, or its reply is lost or no success, or it takes nothing.   *)
(***************************************************************************)
WriteFile ==
    /\ batch.step = "send" /\ Target \in FileDestination
    /\ Replace(Target, Current)
    /\ batch' = Tried(TRUE)
    /\ UNCHANGED <<healthVars, durable, rows, ledger, channelVars, now>>

Post ==
    /\ batch.step = "send" /\ Target \notin FileDestination
    /\ posts' = posts \cup {Version}
    /\ reposts' = reposts \cup ({Version} \cap (posts \ unsettled))
    /\ unsettled' = unsettled \cup {Version}
    /\ \E ok \in BOOLEAN : batch' = Tried(ok)
    /\ UNCHANGED <<healthVars, fileVars, durable, rows, ledger, now>>

FailToSend ==
    /\ batch.step = "send"
    /\ batch' = Tried(FALSE)
    /\ UNCHANGED <<healthVars, fileVars, durable, rows, ledger, channelVars, now>>

\* Mutant: the keys are marked whatever the publish returned.
RecordAlways ==
    /\ batch.step = "record"
    /\ delivered' = [delivered EXCEPT ![<<Current, Target>>] = IF batch.result THEN now ELSE 0]
    /\ batch' = [batch EXCEPT !.attempt = 0, !.result = FALSE, !.success = TRUE,
                              !.step = IF batch.items[Current].upd = 0 THEN "markLegacy" ELSE "markVersion"]
    /\ UNCHANGED <<healthVars, fileVars, durable, rows, keys, channelVars, now>>

(***************************************************************************)
(* One record per article and destination: a failure replaces a success.   *)
(***************************************************************************)
Record ==
    /\ batch.step = "record"
    /\ delivered' = [delivered EXCEPT ![<<Current, Target>>] = IF batch.result THEN now ELSE 0]
    /\ batch' = IF batch.result
                THEN [batch EXCEPT !.attempt = 0, !.result = FALSE, !.success = TRUE,
                         !.step = IF batch.items[Current].upd = 0 THEN "markLegacy" ELSE "markVersion"]
                ELSE [batch EXCEPT !.attempt = 0, !.step = "visit", !.place = @ + 1]
    /\ UNCHANGED <<healthVars, fileVars, durable, rows, keys, channelVars, now>>

MarkVersion ==
    /\ batch.step = "markVersion"
    /\ keys' = keys \cup {Version}
    /\ unsettled' = unsettled \ {Version}
    /\ batch' = [batch EXCEPT !.step = "markLegacy"]
    /\ UNCHANGED <<healthVars, fileVars, durable, rows, delivered, posts, reposts, now>>

MarkLegacy ==
    /\ batch.step = "markLegacy"
    /\ keys' = keys \cup {<<Current, Target, 0>>}
    /\ unsettled' = unsettled \ {Version}
    /\ batch' = [batch EXCEPT !.step = "visit", !.place = @ + 1]
    /\ UNCHANGED <<healthVars, fileVars, durable, rows, delivered, posts, reposts, now>>

-----------------------------------------------------------------------------
(***************************************************************************)
(* After its last destination an article that succeeded somewhere, a       *)
(* skipped delivery included, is saved as delivered.                       *)
(***************************************************************************)
FinishArticle ==
    /\ batch.step = "visit" /\ batch.place > Len(Publishers)
    /\ LET row == [batch.items[Current] EXCEPT !.sent = now]
       IN  IF batch.success
           THEN /\ rows' = [rows EXCEPT ![Current] = row]
                /\ batch' = [Publishing(Tail(batch.chosen)) EXCEPT !.items[Current] = row]
           ELSE /\ batch' = Publishing(Tail(batch.chosen))
                /\ UNCHANGED rows
    /\ UNCHANGED <<healthVars, fileVars, durable, ledger, channelVars, now>>

(***************************************************************************)
(* save_many, one commit for each article of the batch.                    *)
(***************************************************************************)
SaveItem ==
    /\ batch.step = "save"
    /\ \E a \in batch.todo :
          /\ rows' = [rows EXCEPT ![a] = batch.items[a]]
          /\ batch' = IF batch.todo = {a} THEN Idle ELSE [batch EXCEPT !.todo = @ \ {a}]
    /\ UNCHANGED <<healthVars, fileVars, durable, ledger, channelVars, now>>

(***************************************************************************)
(* The process dies and a new one starts with what is left.                *)
(***************************************************************************)
Crash ==
    /\ Forget
    /\ batch' = Idle
    /\ IF durable THEN UNCHANGED <<ledger, unsettled>>
       ELSE /\ delivered' = [j \in DOMAIN delivered |-> 0]
            /\ keys' = {}
            /\ unsettled' = posts
    /\ UNCHANGED <<fileVars, durable, rows, posts, reposts, now>>

PassTime ==
    /\ now < MaxTime
    /\ now' = now + 1
    /\ UNCHANGED <<healthVars, fileVars, durable, rows, ledger, channelVars, batch>>

Work ==
    \/ IngestSource \/ Filter \/ Enrich \/ Select
    \/ Visit \/ WriteFile \/ Post \/ FailToSend \/ Record \/ MarkVersion \/ MarkLegacy
    \/ FinishArticle \/ SaveItem

Next == Receive \/ PollSources \/ Work \/ Crash \/ PassTime

Spec == Init /\ [][Next]_vars

-----------------------------------------------------------------------------
(***************************************************************************)
(* No channel gets an update, or an article without one, again after its   *)
(* key was marked, whichever destination the retries are for; unless keys  *)
(* were left to memory and lost with it.                                   *)
(***************************************************************************)
NoReposts == reposts = {}

Received(a, d) ==
    IF d \in FileDestination THEN a \in ToSet(written[d])
    ELSE \E post \in posts : post[1] = a /\ post[2] = d

(***************************************************************************)
(* Every key, and every delivery time, is owed to a destination that has   *)
(* the article; the key of an update, to a channel that has that update.   *)
(***************************************************************************)
AcknowledgedReceived ==
    /\ \A key \in keys : /\ Received(key[1], key[2])
                         /\ key[3] # 0 /\ key[2] \notin FileDestination => key \in posts
    /\ \A a \in Article : rows[a].sent # 0 => \E d \in Destination : Received(a, d)

(***************************************************************************)
(* Where a history table counts them, the articles recorded as delivered   *)
(* within any window stay within the hourly limit, the batch in progress   *)
(* included.                                                               *)
(***************************************************************************)
RecordedRate ==
    durable => Cardinality({a \in Article : \E d \in Destination :
                               delivered[<<a, d>>] # 0 /\ delivered[<<a, d>>] >= now - Hour}) <= MaxPerHour

(***************************************************************************)
(* What is left of the batch, the most significant part first: phases;     *)
(* sources or articles; AI providers and their calls; destinations, their  *)
(* commits and attempts.                                                   *)
(***************************************************************************)
Phase ==
    [idle |-> 0, save |-> 1, visit |-> 2, send |-> 2, record |-> 2, markVersion |-> 2,
     markLegacy |-> 2, select |-> 3, enrich |-> 4, filter |-> 5, poll |-> 6]

CommitsLeft == [visit |-> 4, send |-> 3, record |-> 2, markVersion |-> 1, markLegacy |-> 0]

Remainder ==
    <<Phase[batch.step],
      Cardinality(batch.sources) + Cardinality(batch.todo) + Len(batch.chosen),
      Providers - batch.call.provider, CallAttempts - batch.call.attempt,
      Len(Publishers) + 1 - batch.place,
      IF Phase[batch.step] = 2 THEN CommitsLeft[batch.step] ELSE 0,
      MaxAttempts - batch.attempt>>

Less(r, q) == \E n \in DOMAIN q : r[n] < q[n] /\ \A m \in 1 .. n - 1 : r[m] = q[m]

(***************************************************************************)
(* Whatever sources, AI providers and publishers do, every step of a batch *)
(* brings it nearer to its end: no retry is without a limit.               *)
(***************************************************************************)
BatchAdvances == [][batch.step # "idle" /\ now' = now => Less(Remainder', Remainder)]_vars

=============================================================================
