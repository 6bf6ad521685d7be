----------------------- MODULE DirectPublishingProofs -----------------------
(***************************************************************************)
(* Direct publishing, for any finite set of articles and sources, any      *)
(* destinations, dates, limits and attempts, with durable or volatile      *)
(* tables, crashes included.                                               *)
(***************************************************************************)
EXTENDS DirectPublishing, FiniteSetTheorems, SequenceTheorems, TLAPS

(***************************************************************************)
(* A batch, and what each of its steps takes for granted.                  *)
(***************************************************************************)
BatchType ==
    [step : BatchStep, at : Nat, items : [Article -> Row], fresh : SUBSET Article,
     sources : SUBSET Source, todo : SUBSET Article, call : Call, chosen : Seq(Article),
     place : 0 .. Len(Publishers) + 1, attempt : 0 .. MaxAttempts, result : BOOLEAN,
     success : BOOLEAN]

Sending == {"send", "record", "markVersion", "markLegacy"}

BatchFits(b) ==
    /\ b.step = "enrich" => Providers # 0
    /\ b.step \in Sending \cup {"visit"} => b.chosen # <<>> /\ b.place # 0
    /\ b.step \in Sending => b.place <= Len(Publishers)

BatchInv == batch \in BatchType /\ BatchFits(batch) /\ batch.at <= now

(***************************************************************************)
(* An enabled source has failures left; each of its failures in a row was  *)
(* a poll in a row that raised.                                            *)
(***************************************************************************)
HealthInv ==
    /\ HealthTypeOK
    /\ \A s \in Source :
          /\ health[s].failures <= raised[s]
          /\ health[s].enabled <=> health[s].failures < GiveUp

LedgerInv ==
    /\ durable \in BOOLEAN
    /\ rows \in [Article -> Row]
    /\ delivered \in [Article \X Destination -> 0 .. MaxTime]
    /\ keys \subseteq Article \X Destination \X Nat
    /\ posts \subseteq Article \X Destination \X Nat
    /\ unsettled \subseteq posts /\ reposts \subseteq posts
    /\ now \in 1 .. MaxTime

DirectInv == HealthInv /\ LedgerInv /\ BatchInv

USE DirectAssumption, EnrichmentAssumption, SourceAssumption, FeedAssumption

-----------------------------------------------------------------------------
LEMMA NoRowType == NoRow \in Row
BY DEF NoRow, Row

LEMMA IdleType == Idle \in BatchType /\ BatchFits(Idle) /\ Idle.at = 0 /\ Idle.step = "idle"
<1>1. NoItems \in [Article -> Row]
  BY NoRowType DEF NoItems
<1>2. NoCall \in Call /\ <<>> \in Seq(Article)
  BY DEF NoCall, Call, EnrichmentAssumption
<1>3. 0 \in 0 .. Len(Publishers) + 1 /\ 0 \in 0 .. MaxAttempts
  BY DEF DirectAssumption
<1> QED
  BY <1>1, <1>2, <1>3 DEF Idle, BatchType, BatchStep, BatchFits, Sending

LEMMA DirectInit == Init => DirectInv
<1> SUFFICES ASSUME Init PROVE DirectInv
  OBVIOUS
<1>1. HealthInv
  BY DEF Init, HealthInit, HealthInv, HealthTypeOK, NewSource, SourceAssumption
<1>2. LedgerInv
  BY NoRowType DEF Init, LedgerInv, NoItems, DirectAssumption
<1>3. BatchInv
  BY IdleType DEF Init, BatchInv
<1> QED
  BY <1>1, <1>2, <1>3 DEF DirectInv

LEMMA DirectTypes == DirectInv => TypeOK
<1> SUFFICES ASSUME DirectInv PROVE TypeOK
  OBVIOUS
<1>1. /\ batch.step \in BatchStep /\ batch.items \in [Article -> Row] /\ batch.call \in Call
      /\ batch.place \in 0 .. Len(Publishers) + 1 /\ batch.attempt \in 0 .. MaxAttempts
  BY DEF DirectInv, BatchInv, BatchType
<1> QED
  BY <1>1 DEF DirectInv, LedgerInv, HealthInv, TypeOK

-----------------------------------------------------------------------------
LEMMA ItemTypes ==
    ASSUME NEW S \in SUBSET Article, NEW items \in Listings(S)
    PROVE  /\ items \in [Article -> Row]
           /\ \A a \in Article : items[a].sent = 0
<1>1. PICK dates \in [S -> UNION {DatesOf[a] : a \in S}] :
         /\ \A a \in S : dates[a] \in DatesOf[a]
         /\ items = [a \in Article |-> IF a \in S THEN Item(dates[a]) ELSE NoRow]
  BY DEF Listings
<1>2. ASSUME NEW a \in S PROVE Item(dates[a]) \in Row /\ Item(dates[a]).sent = 0
  <2>1. dates[a] \in Nat \X Nat
    BY <1>1 DEF DirectAssumption
  <2> QED
    BY <2>1 DEF Item, NoRow, Row
<1> QED
  BY <1>1, <1>2, NoRowType DEF NoRow

LEMMA PollHealth ==
    ASSUME HealthInv, NEW s \in Source, NEW reply \in Reply, Poll(s, reply)
    PROVE  HealthInv'
<1> DEFINE h == HealthAfter(s, reply)
           r == IF ~Raises(reply) THEN 0 ELSE IF raised[s] < GiveUp THEN raised[s] + 1 ELSE raised[s]
<1>1. /\ health[s].enabled /\ health[s].failures \in Nat /\ health[s].failures < GiveUp
      /\ raised[s] \in 0 .. GiveUp /\ health[s].failures <= raised[s] /\ GiveUp \in Nat \ {0}
  BY DEF HealthInv, HealthTypeOK, Poll, Enabled, SourceAssumption
<1>2. health' = [health EXCEPT ![s] = h] /\ raised' = [raised EXCEPT ![s] = r]
  BY DEF Poll
<1>3. /\ h.failures = FailuresAfter(s, reply)
      /\ h.enabled <=> (Raises(reply) => FailuresAfter(s, reply) < GiveUp)
      /\ h.enabled \in BOOLEAN /\ h.status \in {"healthy", "degraded", "failed"}
      /\ h = [enabled |-> h.enabled, status |-> h.status, failures |-> h.failures]
  BY DEF HealthAfter
<1>4. r \in 0 .. GiveUp
  BY <1>1
<1>5. /\ FailuresAfter(s, reply) \in 0 .. GiveUp /\ FailuresAfter(s, reply) <= r
      /\ ~Raises(reply) => FailuresAfter(s, reply) = 0
  <2>1. CASE reply = "unreachable"
    <3>1. FailuresAfter(s, reply) = health[s].failures + 1 /\ Raises(reply)
      BY <2>1 DEF FailuresAfter, Raises
    <3>2. r = IF raised[s] < GiveUp THEN raised[s] + 1 ELSE raised[s]
      BY <3>1
    <3> HIDE DEF h, r
    <3> QED
      BY <1>1, <3>1, <3>2
  <2>2. CASE reply = "malformed"
    BY <1>1, <2>2 DEF FailuresAfter, Raises
  <2>3. CASE reply \in {"empty", "stale", "live"}
    BY <1>1, <2>3 DEF FailuresAfter, Raises
  <2>4. reply = "unreachable" \/ reply = "malformed" \/ reply \in {"empty", "stale", "live"}
    BY DEF Reply
  <2> HIDE DEF r
  <2> QED
    BY <2>1, <2>2, <2>3, <2>4
<1> HIDE DEF h, r
<1>6. h.enabled <=> h.failures < GiveUp
  <2>1. CASE Raises(reply)
    BY <1>3, <2>1
  <2>2. CASE ~Raises(reply)
    BY <1>1, <1>3, <1>5, <2>2
  <2> QED
    BY <2>1, <2>2
<1>7. h \in [enabled : BOOLEAN, status : {"healthy", "degraded", "failed"}, failures : 0 .. GiveUp]
  BY <1>3, <1>5
<1>8. HealthTypeOK'
  BY <1>2, <1>4, <1>7 DEF HealthInv, HealthTypeOK
<1>9. ASSUME NEW t \in Source
      PROVE  /\ health'[t].failures <= raised'[t]
             /\ health'[t].enabled <=> health'[t].failures < GiveUp
  <2>1. health'[t] = (IF t = s THEN h ELSE health[t]) /\ raised'[t] = (IF t = s THEN r ELSE raised[t])
    BY <1>2 DEF HealthInv, HealthTypeOK
  <2> QED
    BY <1>3, <1>5, <1>6, <2>1 DEF HealthInv
<1> QED
  BY <1>8, <1>9 DEF HealthInv

-----------------------------------------------------------------------------
(***************************************************************************)
(* The batches that steps make of a batch.                                 *)
(***************************************************************************)
LEMMA NormalizeType ==
    ASSUME LedgerInv, NEW a \in Article, NEW item \in Row
    PROVE  /\ Normalize(a, item) \in Row
           /\ Normalize(a, item).sent \in {0, rows[a].sent}
<1> DEFINE old == rows[a]
           new == [item EXCEPT !.upd = IF @ < old.upd THEN old.upd ELSE @]
<1>1. old \in Row
  BY DEF LedgerInv
<1>2. new \in Row
  BY <1>1 DEF Row
<1> DEFINE isUpdate == /\ old.stored /\ NewsTime(new) # 0
                       /\ NewsTime(old) = 0 \/ NewsTime(new) > NewsTime(old) + Tolerance
<1>3. Normalize(a, item) = [new EXCEPT !.pub = IF @ = 0 THEN old.pub ELSE @,
                                       !.sent = IF isUpdate THEN 0 ELSE old.sent]
  BY DEF Normalize
<1> HIDE DEF old, new, isUpdate
<1>4. [new EXCEPT !.pub = IF @ = 0 THEN old.pub ELSE @,
                  !.sent = IF isUpdate THEN 0 ELSE old.sent] \in Row
  BY <1>1, <1>2 DEF Row
<1>5. Normalize(a, item).sent \in {0, old.sent}
  BY <1>2, <1>3 DEF Row
<1> QED
  BY <1>3, <1>4, <1>5 DEF old

LEMMA NormalizedType ==
    ASSUME LedgerInv, NEW items \in [Article -> Row]
    PROVE  /\ Normalized(items) \in [Article -> Row]
           /\ \A a \in Article : Normalized(items)[a].sent \in {0, rows[a].sent}
<1>1. \A a \in Article : Normalize(a, items[a]) \in Row
                         /\ Normalize(a, items[a]).sent \in {0, rows[a].sent}
  BY NormalizeType
<1> QED
  BY <1>1, NoRowType DEF Normalized, NoRow

LEMMA PublishingType ==
    ASSUME BatchInv, NEW chosen \in Seq(Article)
    PROVE  /\ Publishing(chosen) \in BatchType /\ BatchFits(Publishing(chosen))
           /\ Publishing(chosen).at = batch.at /\ Publishing(chosen).items = batch.items
           /\ Publishing(chosen).chosen = chosen /\ Publishing(chosen).success = FALSE
<1>1. batch \in BatchType /\ Listed(batch.items) \subseteq Article
  BY DEF BatchInv, Listed
<1>2. 0 \in 0 .. Len(Publishers) + 1 /\ 1 \in 0 .. Len(Publishers) + 1
  BY DEF DirectAssumption
<1>3. CASE chosen = <<>>
  <2>1. Publishing(chosen) = [batch EXCEPT !.step = "save", !.chosen = <<>>, !.place = 0,
           !.success = FALSE, !.todo = Listed(batch.items), !.fresh = {}]
    BY <1>3 DEF Publishing
  <2>2. /\ Publishing(chosen).step = "save" /\ Publishing(chosen).at = batch.at
        /\ Publishing(chosen).items = batch.items /\ Publishing(chosen).chosen = chosen
        /\ Publishing(chosen).success = FALSE
    BY <1>1, <1>3, <2>1 DEF BatchType
  <2>3. Publishing(chosen) \in BatchType
    BY <1>1, <1>2, <1>3, <2>1 DEF BatchType, BatchStep
  <2>4. BatchFits(Publishing(chosen))
    BY <2>2 DEF BatchFits, Sending
  <2> QED
    BY <2>2, <2>3, <2>4
<1>4. CASE chosen # <<>>
  <2>1. Publishing(chosen) = [batch EXCEPT !.step = "visit", !.chosen = chosen, !.place = 1,
                                           !.success = FALSE]
    BY <1>4 DEF Publishing
  <2>2. /\ Publishing(chosen).step = "visit" /\ Publishing(chosen).at = batch.at
        /\ Publishing(chosen).items = batch.items /\ Publishing(chosen).chosen = chosen
        /\ Publishing(chosen).success = FALSE /\ Publishing(chosen).place = 1
    BY <1>1, <1>2, <2>1 DEF BatchType
  <2>3. Publishing(chosen) \in BatchType
    BY <1>1, <1>2, <2>1 DEF BatchType, BatchStep
  <2>4. BatchFits(Publishing(chosen))
    BY <1>4, <2>2 DEF BatchFits, Sending
  <2> QED
    BY <2>2, <2>3, <2>4
<1> QED
  BY <1>3, <1>4

LEMMA TriedType ==
    ASSUME BatchInv, batch.step = "send", NEW ok \in BOOLEAN
    PROVE  /\ Tried(ok) \in BatchType /\ BatchFits(Tried(ok))
           /\ \E step \in {"send", "record"}, attempt \in 0 .. MaxAttempts, result \in BOOLEAN :
                 /\ Tried(ok) = [batch EXCEPT !.step = step, !.attempt = attempt, !.result = result]
                 /\ step = "record" => result = ok
<1>1. batch \in BatchType /\ BatchFits(batch)
  BY DEF BatchInv
<1>2. CASE ~ok /\ batch.attempt < MaxAttempts
  <2>1. Tried(ok) = [batch EXCEPT !.step = "send", !.attempt = batch.attempt + 1,
                                  !.result = batch.result]
    BY <1>1, <1>2 DEF Tried, BatchType
  <2>2. batch.attempt + 1 \in 0 .. MaxAttempts /\ batch.result \in BOOLEAN
    BY <1>1, <1>2 DEF BatchType, DirectAssumption
  <2>3. Tried(ok) \in BatchType /\ BatchFits(Tried(ok))
    BY <1>1, <2>1, <2>2 DEF BatchType, BatchFits, BatchStep, Sending
  <2> QED
    BY <2>1, <2>2, <2>3
<1>3. CASE ~(~ok /\ batch.attempt < MaxAttempts)
  <2>1. Tried(ok) = [batch EXCEPT !.step = "record", !.attempt = batch.attempt, !.result = ok]
    BY <1>1, <1>3 DEF Tried, BatchType
  <2>2. batch.attempt \in 0 .. MaxAttempts
    BY <1>1 DEF BatchType
  <2>3. Tried(ok) \in BatchType /\ BatchFits(Tried(ok))
    BY <1>1, <2>1, <2>2 DEF BatchType, BatchFits, BatchStep, Sending
  <2> QED
    BY <2>1, <2>2, <2>3
<1> QED
  BY <1>2, <1>3

LEMMA OrderType ==
    ASSUME NEW S \in SUBSET Article, NEW order \in SetToSeqs(S)
    PROVE  /\ order \in Seq(Article) /\ \A n \in 1 .. Len(order) : order[n] \in S
           /\ \A n \in Nat : /\ Prefix(order, n) \in Seq(Article)
                             /\ Len(Prefix(order, n)) <= n
                             /\ ToSet(Prefix(order, n)) \subseteq S
<1>1. IsFiniteSet(S) /\ Cardinality(S) \in Nat
  BY FS_Subset, FS_CardinalityType DEF DirectAssumption
<1>2. order \in [1 .. Cardinality(S) -> S]
  BY DEF SetToSeqs
<1>3. order \in Seq(S) /\ Len(order) = Cardinality(S)
  BY <1>1, <1>2
<1>4. order \in Seq(Article) /\ \A n \in 1 .. Len(order) : order[n] \in S
  BY <1>2, <1>3
<1>5. ASSUME NEW n \in Nat
      PROVE  /\ Prefix(order, n) \in Seq(S) /\ Len(Prefix(order, n)) <= n
  <2>1. PICK m \in Nat : m = IF Len(order) < n THEN Len(order) ELSE n
    BY <1>1, <1>3
  <2>2. Prefix(order, n) = SubSeq(order, 1, m) /\ m <= n /\ m <= Len(order)
    BY <1>1, <1>3, <2>1 DEF Prefix
  <2>3. SubSeq(order, 1, m) \in Seq(S) /\ Len(SubSeq(order, 1, m)) = m
    BY <1>3, <2>2
  <2> QED
    BY <2>2, <2>3
<1>6. ASSUME NEW n \in Nat PROVE Prefix(order, n) \in Seq(Article) /\ ToSet(Prefix(order, n)) \subseteq S
  <2> DEFINE p == Prefix(order, n)
  <2>1. p \in Seq(S)
    BY <1>5
  <2> HIDE DEF p
  <2>2. \A k \in 1 .. Len(p) : p[k] \in S
    BY <2>1
  <2>3. p \in Seq(Article) /\ DOMAIN p = 1 .. Len(p)
    BY <2>1, <2>2
  <2>4. ToSet(p) \subseteq S
    BY <2>2, <2>3 DEF ToSet
  <2> QED
    BY <2>3, <2>4 DEF p
<1> QED
  BY <1>4, <1>5, <1>6

-----------------------------------------------------------------------------
(***************************************************************************)
(* Every step keeps the types.                                             *)
(***************************************************************************)
LEMMA CurrentType ==
    ASSUME BatchInv, batch.step \in Sending \cup {"visit"}
    PROVE  /\ Current \in Article /\ batch.items[Current] \in Row
           /\ batch.chosen # <<>> /\ Tail(batch.chosen) \in Seq(Article)
<1>1. batch.chosen \in Seq(Article) /\ batch.chosen # <<>> /\ batch.items \in [Article -> Row]
  BY DEF BatchInv, BatchType, BatchFits
<1>2. Current \in Article /\ Tail(batch.chosen) \in Seq(Article)
  BY <1>1 DEF Current
<1> QED
  BY <1>1, <1>2

LEMMA TargetType ==
    ASSUME BatchInv, batch.place <= Len(Publishers), batch.step \in Sending \cup {"visit"}
    PROVE  /\ Target \in Destination
           /\ Version \in Article \X Destination \X Nat
           /\ <<Current, Target, 0>> \in Article \X Destination \X Nat
<1>1. batch.place \in 1 .. Len(Publishers)
  BY DEF BatchInv, BatchType, BatchFits, DirectAssumption
<1>2. Target \in Destination
  BY <1>1 DEF Target, DirectAssumption
<1> QED
  BY <1>2, CurrentType DEF Version, Row

LEMMA SendingPlace ==
    ASSUME BatchInv, batch.step \in Sending
    PROVE  batch.place <= Len(Publishers)
BY DEF BatchInv, BatchFits

LEMMA ReceiveInv == ASSUME DirectInv, Receive PROVE DirectInv'
<1>1. PICK S \in SUBSET Article : \E items \in Listings(S) :
         batch' = [Idle EXCEPT !.step = "filter", !.items = items]
  BY DEF Receive
<1>2. PICK items \in [Article -> Row] : batch' = [Idle EXCEPT !.step = "filter", !.items = items]
  BY <1>1, ItemTypes
<1>3. /\ batch' \in BatchType /\ batch'.step = "filter" /\ batch'.at = 0
  BY <1>1, <1>2, IdleType DEF BatchType, BatchStep
<1>4. BatchInv' /\ now' = now
  BY <1>3 DEF Receive, BatchInv, BatchFits, Sending, DirectInv, LedgerInv
<1> QED
  BY <1>4 DEF Receive, DirectInv, HealthInv, HealthTypeOK, LedgerInv, healthVars, ledger, channelVars

LEMMA PollSourcesInv == ASSUME DirectInv, PollSources PROVE DirectInv'
<1>1. batch' = [Idle EXCEPT !.step = "poll", !.sources = Enabled]
  BY DEF PollSources
<1>2. /\ batch' \in BatchType /\ batch'.step = "poll" /\ batch'.at = 0
  BY <1>1, IdleType DEF BatchType, BatchStep, Enabled
<1>3. BatchInv' /\ now' = now
  BY <1>2 DEF PollSources, BatchInv, BatchFits, Sending, DirectInv, LedgerInv
<1> QED
  BY <1>3 DEF PollSources, DirectInv, HealthInv, HealthTypeOK, LedgerInv, healthVars, ledger, channelVars

(***************************************************************************)
(* The reply of a poll is one that the manager knows.                      *)
(***************************************************************************)
LEMMA IngestSourceStep ==
    ASSUME DirectInv, IngestSource
    PROVE  \E s \in batch.sources, S \in SUBSET Article :
           \E items \in Listings(S), reply \in Reply :
              /\ s \in Source /\ Poll(s, reply)
              /\ batch' = [batch EXCEPT
                    !.sources = @ \ {s},
                    !.step = IF batch.sources = {s} THEN "filter" ELSE @,
                    !.items = [a \in Article |-> IF a \in S THEN [items[a] EXCEPT !.upd = 0] ELSE @[a]]]
<1>1. PICK s \in batch.sources : \E S \in SUBSET {a \in Article : SourceOf[a] = s} :
      \E items \in Listings(S) :
         /\ \/ Poll(s, ReplyOf(items))
            \/ S = {} /\ (Poll(s, "unreachable") \/ Poll(s, "malformed"))
         /\ batch' = [batch EXCEPT
               !.sources = @ \ {s},
               !.step = IF batch.sources = {s} THEN "filter" ELSE @,
               !.items = [a \in Article |-> IF a \in S THEN [items[a] EXCEPT !.upd = 0] ELSE @[a]]]
  BY DEF IngestSource
<1>2. PICK S \in SUBSET {a \in Article : SourceOf[a] = s} : \E items \in Listings(S) :
         /\ \/ Poll(s, ReplyOf(items))
            \/ S = {} /\ (Poll(s, "unreachable") \/ Poll(s, "malformed"))
         /\ batch' = [batch EXCEPT
               !.sources = @ \ {s},
               !.step = IF batch.sources = {s} THEN "filter" ELSE @,
               !.items = [a \in Article |-> IF a \in S THEN [items[a] EXCEPT !.upd = 0] ELSE @[a]]]
  BY <1>1
<1>3. PICK items \in Listings(S) :
         /\ \/ Poll(s, ReplyOf(items))
            \/ S = {} /\ (Poll(s, "unreachable") \/ Poll(s, "malformed"))
         /\ batch' = [batch EXCEPT
               !.sources = @ \ {s},
               !.step = IF batch.sources = {s} THEN "filter" ELSE @,
               !.items = [a \in Article |-> IF a \in S THEN [items[a] EXCEPT !.upd = 0] ELSE @[a]]]
  BY <1>2
<1>4. PICK reply \in Reply : Poll(s, reply)
  BY <1>3 DEF ReplyOf, Reply
<1>5. s \in Source /\ S \in SUBSET Article
  BY DEF DirectInv, BatchInv, BatchType
<1> QED
  BY <1>3, <1>4, <1>5

LEMMA IngestSourceInv == ASSUME DirectInv, IngestSource PROVE DirectInv'
<1>1. PICK s \in batch.sources, S \in SUBSET Article :
      \E items \in Listings(S), reply \in Reply :
         /\ s \in Source /\ Poll(s, reply)
         /\ batch' = [batch EXCEPT
               !.sources = @ \ {s},
               !.step = IF batch.sources = {s} THEN "filter" ELSE @,
               !.items = [a \in Article |-> IF a \in S THEN [items[a] EXCEPT !.upd = 0] ELSE @[a]]]
  BY IngestSourceStep
<1>2. PICK items \in Listings(S), reply \in Reply :
         /\ s \in Source /\ Poll(s, reply)
         /\ batch' = [batch EXCEPT
               !.sources = @ \ {s},
               !.step = IF batch.sources = {s} THEN "filter" ELSE @,
               !.items = [a \in Article |-> IF a \in S THEN [items[a] EXCEPT !.upd = 0] ELSE @[a]]]
  BY <1>1
<1>3. batch \in BatchType /\ batch.step = "poll" /\ batch.items \in [Article -> Row]
  BY DEF IngestSource, DirectInv, BatchInv, BatchType
<1> DEFINE merged == [a \in Article |-> IF a \in S THEN [items[a] EXCEPT !.upd = 0] ELSE batch.items[a]]
<1>4. merged \in [Article -> Row]
  <2>1. items \in [Article -> Row]
    BY <1>2, ItemTypes
  <2>2. \A a \in Article : [items[a] EXCEPT !.upd = 0] \in Row
    BY <2>1 DEF Row
  <2> QED
    BY <1>3, <2>2
<1>5. PICK step \in {"filter", "poll"} :
         batch' = [batch EXCEPT !.sources = @ \ {s}, !.step = step, !.items = merged]
  BY <1>2, <1>3
<1> HIDE DEF merged
<1>6. batch' \in BatchType /\ batch'.step \in {"filter", "poll"} /\ batch'.at = batch.at
  BY <1>3, <1>4, <1>5 DEF BatchType, BatchStep
<1>7. BatchInv' /\ now' = now
  BY <1>6 DEF IngestSource, BatchInv, BatchFits, Sending, DirectInv
<1>8. HealthInv'
  BY <1>2, PollHealth DEF DirectInv
<1> QED
  BY <1>7, <1>8 DEF IngestSource, DirectInv, LedgerInv, ledger, channelVars

LEMMA FilterInv == ASSUME DirectInv, Filter PROVE DirectInv'
<1>1. batch \in BatchType /\ batch.items \in [Article -> Row] /\ LedgerInv
  BY DEF DirectInv, BatchInv, BatchType
<1>2. PICK fresh \in SUBSET Article, asked \in SUBSET Article, call \in {NoCall, FirstCall},
           step \in {"select", "enrich"} :
         /\ batch' = [batch EXCEPT !.at = now, !.items = Normalized(batch.items),
                                   !.fresh = fresh, !.todo = asked, !.call = call, !.step = step]
         /\ step = "enrich" => Providers # 0
         /\ call = FirstCall => Providers # 0
  <2> DEFINE fresh == {a \in Listed(batch.items) : Fresh(a, batch.items[a])}
             asked == IF Providers = 0 THEN {} ELSE fresh
  <2>1. batch' = [batch EXCEPT !.at = now, !.items = Normalized(batch.items),
                    !.fresh = fresh, !.todo = asked,
                    !.call = IF asked = {} THEN NoCall ELSE FirstCall,
                    !.step = IF asked = {} THEN "select" ELSE "enrich"]
    BY DEF Filter
  <2>2. fresh \in SUBSET Article /\ asked \in SUBSET Article
    BY DEF Listed
  <2>3. asked # {} => Providers # 0
    OBVIOUS
  <2> HIDE DEF fresh, asked
  <2>4. CASE asked = {}
    <3>1. batch' = [batch EXCEPT !.at = now, !.items = Normalized(batch.items),
                      !.fresh = fresh, !.todo = asked, !.call = NoCall, !.step = "select"]
      BY <2>1, <2>4
    <3>2. NoCall # FirstCall
      BY DEF NoCall, FirstCall
    <3> QED
      BY <2>2, <3>1, <3>2
  <2>5. CASE asked # {}
    <3>1. batch' = [batch EXCEPT !.at = now, !.items = Normalized(batch.items),
                      !.fresh = fresh, !.todo = asked, !.call = FirstCall, !.step = "enrich"]
      BY <2>1, <2>5
    <3> QED
      BY <2>2, <2>3, <2>5, <3>1
  <2> QED
    BY <2>4, <2>5
<1>3. call \in Call
  BY <1>2 DEF Call, NoCall, FirstCall, EnrichmentAssumption
<1>4. Normalized(batch.items) \in [Article -> Row]
  BY <1>1, NormalizedType
<1>5. batch' \in BatchType /\ batch'.step = step /\ batch'.at = now
  <2>1. now \in Nat
    BY <1>1 DEF LedgerInv, DirectAssumption
  <2> QED
    BY <1>1, <1>2, <1>3, <1>4, <2>1 DEF BatchType, BatchStep
<1>6. BatchInv' /\ now' = now
  BY <1>2, <1>5 DEF Filter, BatchInv, BatchFits, Sending, DirectInv, LedgerInv
<1> QED
  BY <1>6 DEF Filter, DirectInv, HealthInv, HealthTypeOK, LedgerInv, healthVars, ledger, channelVars

LEMMA CallTypes ==
    ASSUME NEW call \in Call, NEW outcome \in CallOutcome, Providers # 0
    PROVE  /\ FirstCall \in Call /\ NoCall \in Call
           /\ ~Decided(call, outcome) => NextCall(call, outcome) \in Call
<1>1. FirstCall \in Call /\ NoCall \in Call
  BY DEF FirstCall, NoCall, Call, EnrichmentAssumption
<1>2. CASE AskedAgain(call, outcome)
  <2>1. NextCall(call, outcome) = [call EXCEPT !.attempt = @ + 1] /\ call.attempt < CallAttempts
    BY <1>2 DEF NextCall, AskedAgain
  <2>2. call.attempt + 1 \in 0 .. CallAttempts
    BY <2>1 DEF Call, EnrichmentAssumption
  <2>3. NextCall(call, outcome) \in Call
    BY <2>1, <2>2 DEF Call
  <2> QED
    BY <1>1, <2>3
<1>3. CASE ~AskedAgain(call, outcome) /\ ~Decided(call, outcome)
  <2>1. call.provider # Providers /\ call.provider \in 0 .. Providers
    BY <1>3 DEF Decided, Call
  <2>2. NextCall(call, outcome) = [provider |-> call.provider + 1, attempt |-> 1]
    BY <1>3 DEF NextCall, FirstCall
  <2>3. call.provider + 1 \in 0 .. Providers /\ 1 \in 0 .. CallAttempts
    BY <2>1 DEF EnrichmentAssumption
  <2>4. NextCall(call, outcome) \in Call
    BY <2>2, <2>3 DEF Call
  <2> QED
    BY <1>1, <2>4
<1> QED
  BY <1>1, <1>2, <1>3

LEMMA EnrichInv == ASSUME DirectInv, Enrich PROVE DirectInv'
<1>1. batch \in BatchType /\ batch.step = "enrich" /\ Providers # 0 /\ batch.call \in Call
  BY DEF Enrich, DirectInv, BatchInv, BatchType, BatchFits
<1>2. PICK outcome \in CallOutcome, a \in batch.todo :
         LET decided == Decided(batch.call, outcome)
             last == decided /\ batch.todo = {a}
         IN  batch' = [batch EXCEPT
                !.todo = IF decided THEN @ \ {a} ELSE @,
                !.call = IF last THEN NoCall ELSE IF decided THEN FirstCall ELSE NextCall(@, outcome),
                !.step = IF last THEN "select" ELSE @]
  BY DEF Enrich
<1>3. PICK todo \in SUBSET Article, call \in Call, step \in {"select", "enrich"} :
         batch' = [batch EXCEPT !.todo = todo, !.call = call, !.step = step]
  <2>1. batch.todo \in SUBSET Article
    BY <1>1 DEF BatchType
  <2> QED
    BY <1>1, <1>2, <2>1, CallTypes
<1>4. batch' \in BatchType /\ batch'.step = step /\ batch'.at = batch.at
  BY <1>1, <1>3 DEF BatchType, BatchStep
<1>5. BatchInv' /\ now' = now
  BY <1>1, <1>4 DEF Enrich, BatchInv, BatchFits, Sending, DirectInv
<1> QED
  BY <1>5 DEF Enrich, DirectInv, HealthInv, HealthTypeOK, LedgerInv, healthVars, ledger, channelVars

LEMMA DeliveredFinite ==
    ASSUME LedgerInv
    PROVE  IsFiniteSet(DOMAIN delivered)
<1>1. IsFiniteSet(Destination)
  <2> DEFINE D == DOMAIN Publishers
             f == [k \in D |-> Publishers[k]]
  <2>1. D = 1 .. Len(Publishers) /\ Len(Publishers) \in Nat
    BY DEF DirectAssumption
  <2>2. IsFiniteSet(D)
    BY <2>1, FS_Interval
  <2>3. f \in Surjection(D, Destination)
    BY DEF Surjection, Destination
  <2> HIDE DEF D, f
  <2> QED
    BY <2>2, <2>3, FS_Surjection
<1> QED
  BY <1>1, FS_Product DEF DirectAssumption, LedgerInv

LEMMA FreeSlotsType == ASSUME LedgerInv, NEW t \in Nat PROVE FreeSlots(t) \in Nat
<1> DEFINE recent == {j \in DOMAIN delivered : delivered[j] # 0 /\ delivered[j] >= t - Hour}
<1>1. IsFiniteSet(recent)
  BY DeliveredFinite, FS_Subset
<1>2. Cardinality(recent) \in Nat
  BY <1>1, FS_CardinalityType
<1>3. PublishedLastHour(t) \in Nat
  BY <1>2 DEF PublishedLastHour
<1> QED
  BY <1>3 DEF FreeSlots, DirectAssumption

LEMMA SelectStep ==
    ASSUME DirectInv, Select
    PROVE  /\ batch \in BatchType /\ batch.step = "select" /\ batch.at \in Nat
           /\ \E order \in SetToSeqs({a \in batch.fresh : ~FullyDelivered(a)}) :
                 /\ batch' \in {Idle, Publishing(Prefix(order, FreeSlots(batch.at)))}
                 /\ Prefix(order, FreeSlots(batch.at)) \in Seq(Article)
                 /\ Len(Prefix(order, FreeSlots(batch.at))) <= FreeSlots(batch.at)
<1>1. batch \in BatchType /\ batch.step = "select" /\ batch.at \in Nat
      /\ {a \in batch.fresh : ~FullyDelivered(a)} \in SUBSET Article
  BY DEF Select, DirectInv, BatchInv, BatchType
<1>2. FreeSlots(batch.at) \in Nat
  BY <1>1, FreeSlotsType DEF DirectInv
<1>3. PICK order \in SetToSeqs({a \in batch.fresh : ~FullyDelivered(a)}) :
         batch' \in {Idle, Publishing(Prefix(order, FreeSlots(batch.at)))}
  BY DEF Select
<1> QED
  BY <1>1, <1>2, <1>3, OrderType

LEMMA SelectInv == ASSUME DirectInv, Select PROVE DirectInv'
<1>1. BatchInv /\ now \in Nat /\ now' = now
  BY DEF Select, DirectInv, LedgerInv
<1>2. PICK chosen \in Seq(Article) : batch' \in {Idle, Publishing(chosen)}
  BY SelectStep
<1>3. batch' \in BatchType /\ BatchFits(batch') /\ batch'.at \in {0, batch.at}
  <2>1. CASE batch' = Idle
    BY <2>1, IdleType
  <2>2. CASE batch' = Publishing(chosen)
    BY <1>1, <2>2, PublishingType
  <2> QED
    BY <1>2, <2>1, <2>2
<1>4. BatchInv'
  BY <1>1, <1>3 DEF BatchInv
<1> QED
  BY <1>1, <1>4 DEF Select, DirectInv, HealthInv, HealthTypeOK, LedgerInv, healthVars, ledger, channelVars

(***************************************************************************)
(* The steps that publish change little more than the batch.               *)
(***************************************************************************)
LEMMA BatchStepInv ==
    ASSUME DirectInv, batch' \in BatchType, BatchFits(batch'), batch'.at = batch.at,
           UNCHANGED <<healthVars, durable, now>>, LedgerInv'
    PROVE  DirectInv'
BY DEF DirectInv, HealthInv, HealthTypeOK, BatchInv, healthVars

LEMMA SendingFacts ==
    ASSUME BatchInv, batch.step \in Sending
    PROVE  /\ batch \in BatchType /\ batch.chosen # <<>>
           /\ batch.place \in 1 .. Len(Publishers)
           /\ batch.place + 1 \in 0 .. Len(Publishers) + 1
<1>1. batch \in BatchType /\ batch.chosen # <<>> /\ batch.place # 0
      /\ batch.place <= Len(Publishers)
  BY DEF BatchInv, BatchFits
<1>2. batch.place \in 0 .. Len(Publishers) + 1 /\ Len(Publishers) \in Nat
  BY <1>1 DEF BatchType, DirectAssumption
<1> QED
  BY <1>1, <1>2

LEMMA VisitInv == ASSUME DirectInv, Visit PROVE DirectInv'
<1>1. batch \in BatchType /\ BatchFits(batch) /\ batch.step = "visit"
      /\ batch.place <= Len(Publishers) /\ batch.place + 1 \in 0 .. Len(Publishers) + 1
      /\ 1 \in 0 .. MaxAttempts
  <2>1. batch \in BatchType /\ BatchFits(batch) /\ batch.step = "visit"
        /\ batch.place <= Len(Publishers)
    BY DEF Visit, DirectInv, BatchInv
  <2>2. batch.place \in 0 .. Len(Publishers) + 1 /\ Len(Publishers) \in Nat
    BY <2>1 DEF BatchType, DirectAssumption
  <2> QED
    BY <2>1, <2>2 DEF DirectAssumption
<1>2. ASSUME batch' = [batch EXCEPT !.place = @ + 1, !.success = TRUE]
      PROVE  batch' \in BatchType /\ BatchFits(batch') /\ batch'.at = batch.at
  <2>1. batch' \in BatchType /\ batch'.at = batch.at /\ batch'.step = "visit"
        /\ batch'.chosen = batch.chosen /\ batch'.place = batch.place + 1
    BY <1>1, <1>2 DEF BatchType
  <2> QED
    BY <1>1, <2>1 DEF BatchFits, Sending, BatchType
<1>3. ASSUME batch' = [batch EXCEPT !.step = "send", !.attempt = 1]
      PROVE  batch' \in BatchType /\ BatchFits(batch') /\ batch'.at = batch.at
  <2>1. batch' \in BatchType /\ batch'.at = batch.at /\ batch'.step = "send"
        /\ batch'.chosen = batch.chosen /\ batch'.place = batch.place
    BY <1>1, <1>3 DEF BatchType, BatchStep
  <2> QED
    BY <1>1, <2>1 DEF BatchFits, Sending, BatchType
<1>4. batch' \in BatchType /\ BatchFits(batch') /\ batch'.at = batch.at
  BY <1>2, <1>3 DEF Visit
<1>5. LedgerInv'
  BY DEF Visit, DirectInv, LedgerInv, ledger, channelVars
<1> QED
  BY <1>4, <1>5, BatchStepInv DEF Visit

LEMMA TriedAt ==
    ASSUME BatchInv, batch.step = "send", NEW ok \in BOOLEAN
    PROVE  Tried(ok).at = batch.at
<1>1. batch \in BatchType
  BY DEF BatchInv
<1> QED
  BY <1>1 DEF Tried, BatchType

LEMMA SendInv == ASSUME DirectInv, WriteFile \/ Post \/ FailToSend PROVE DirectInv'
<1>1. BatchInv /\ batch.step = "send"
  BY DEF WriteFile, Post, FailToSend, DirectInv
<1>2. PICK ok \in BOOLEAN : batch' = Tried(ok)
  BY DEF WriteFile, Post, FailToSend
<1>3. batch' \in BatchType /\ BatchFits(batch') /\ batch'.at = batch.at
  BY <1>1, <1>2, TriedType, TriedAt
<1>4. Version \in Article \X Destination \X Nat
  BY <1>1, SendingPlace, TargetType DEF Sending
<1>5. LedgerInv'
  BY <1>4 DEF WriteFile, Post, FailToSend, DirectInv, LedgerInv, ledger, channelVars
<1> QED
  BY <1>3, <1>5, BatchStepInv DEF WriteFile, Post, FailToSend

LEMMA RecordInv == ASSUME DirectInv, Record PROVE DirectInv'
<1>0. BatchInv /\ batch.step = "record" /\ 0 \in 0 .. MaxAttempts
  BY DEF Record, DirectInv, DirectAssumption
<1>1. batch \in BatchType /\ BatchInv /\ batch.step = "record" /\ batch.chosen # <<>>
      /\ batch.place \in 1 .. Len(Publishers) /\ batch.place + 1 \in 0 .. Len(Publishers) + 1
      /\ 0 \in 0 .. MaxAttempts
  BY <1>0, SendingFacts DEF Sending
<1>2. Current \in Article /\ Target \in Destination
  BY <1>1, CurrentType, TargetType DEF Sending
<1>3. ASSUME batch.result
      PROVE  batch' \in BatchType /\ BatchFits(batch') /\ batch'.at = batch.at
  <2>1. PICK step \in {"markLegacy", "markVersion"} :
           batch' = [batch EXCEPT !.attempt = 0, !.result = FALSE, !.success = TRUE, !.step = step]
    BY <1>3 DEF Record
  <2>2. batch' \in BatchType /\ batch'.at = batch.at /\ batch'.step = step
        /\ batch'.chosen = batch.chosen /\ batch'.place = batch.place
    BY <1>1, <2>1 DEF BatchType, BatchStep
  <2>3. batch'.step # "enrich" /\ batch'.place # 0 /\ batch'.place <= Len(Publishers)
    BY <1>1, <2>1, <2>2
  <2> QED
    BY <1>1, <2>2, <2>3 DEF BatchFits
<1>4. ASSUME ~batch.result
      PROVE  batch' \in BatchType /\ BatchFits(batch') /\ batch'.at = batch.at
  <2>1. batch' = [batch EXCEPT !.attempt = 0, !.step = "visit", !.place = @ + 1]
    BY <1>4 DEF Record
  <2>2. batch' \in BatchType /\ batch'.at = batch.at /\ batch'.step = "visit"
        /\ batch'.chosen = batch.chosen /\ batch'.place = batch.place + 1
    BY <1>1, <2>1 DEF BatchType, BatchStep
  <2> QED
    BY <1>1, <2>2 DEF BatchFits, Sending
<1>5. batch' \in BatchType /\ BatchFits(batch') /\ batch'.at = batch.at
  BY <1>3, <1>4
<1>6. LedgerInv'
  <2>1. now \in 0 .. MaxTime /\ 0 \in 0 .. MaxTime
    BY DEF DirectInv, LedgerInv, DirectAssumption
  <2>2. delivered' \in [Article \X Destination -> 0 .. MaxTime]
    BY <2>1 DEF Record, DirectInv, LedgerInv
  <2> QED
    BY <2>2 DEF Record, DirectInv, LedgerInv, channelVars
<1> QED
  BY <1>5, <1>6, BatchStepInv DEF Record

LEMMA MarkInv == ASSUME DirectInv, MarkVersion \/ MarkLegacy PROVE DirectInv'
<1>1. batch \in BatchType /\ BatchInv /\ batch.step \in {"markVersion", "markLegacy"}
      /\ batch.chosen # <<>>
      /\ batch.place \in 1 .. Len(Publishers) /\ batch.place + 1 \in 0 .. Len(Publishers) + 1
  <2>1. BatchInv /\ batch.step \in {"markVersion", "markLegacy"}
    BY DEF MarkVersion, MarkLegacy, DirectInv
  <2> QED
    BY <2>1, SendingFacts DEF Sending
<1>2. Version \in Article \X Destination \X Nat
      /\ <<Current, Target, 0>> \in Article \X Destination \X Nat
  BY <1>1, TargetType DEF Sending
<1>3. ASSUME MarkVersion
      PROVE  batch' \in BatchType /\ BatchFits(batch') /\ batch'.at = batch.at
  <2>1. batch' = [batch EXCEPT !.step = "markLegacy"]
    BY <1>3 DEF MarkVersion
  <2>2. batch' \in BatchType /\ batch'.at = batch.at /\ batch'.step = "markLegacy"
        /\ batch'.chosen = batch.chosen /\ batch'.place = batch.place
    BY <1>1, <2>1 DEF BatchType, BatchStep
  <2> QED
    BY <1>1, <2>2 DEF BatchFits, Sending
<1>4. ASSUME MarkLegacy
      PROVE  batch' \in BatchType /\ BatchFits(batch') /\ batch'.at = batch.at
  <2>1. batch' = [batch EXCEPT !.step = "visit", !.place = @ + 1]
    BY <1>4 DEF MarkLegacy
  <2>2. batch' \in BatchType /\ batch'.at = batch.at /\ batch'.step = "visit"
        /\ batch'.chosen = batch.chosen /\ batch'.place = batch.place + 1
    BY <1>1, <2>1 DEF BatchType, BatchStep
  <2> QED
    BY <1>1, <2>2 DEF BatchFits, Sending
<1>5. batch' \in BatchType /\ BatchFits(batch') /\ batch'.at = batch.at
  BY <1>3, <1>4
<1>6. LedgerInv'
  BY <1>2 DEF MarkVersion, MarkLegacy, DirectInv, LedgerInv
<1> QED
  BY <1>5, <1>6, BatchStepInv DEF MarkVersion, MarkLegacy

LEMMA FinishArticleInv == ASSUME DirectInv, FinishArticle PROVE DirectInv'
<1>1. BatchInv /\ batch.step = "visit" /\ now \in Nat
  BY DEF FinishArticle, DirectInv, LedgerInv, DirectAssumption
<1>2. Current \in Article /\ batch.items[Current] \in Row /\ Tail(batch.chosen) \in Seq(Article)
  BY <1>1, CurrentType
<1> DEFINE b == Publishing(Tail(batch.chosen))
           row == [batch.items[Current] EXCEPT !.sent = now]
<1>3. b \in BatchType /\ BatchFits(b) /\ b.at = batch.at
  BY <1>1, <1>2, PublishingType
<1>4. row \in Row
  BY <1>1, <1>2 DEF Row
<1>5. \/ /\ rows' = [rows EXCEPT ![Current] = row]
         /\ batch' = [b EXCEPT !.items[Current] = row]
      \/ batch' = b /\ UNCHANGED rows
  BY DEF FinishArticle
<1> HIDE DEF b, row
<1>6. batch' \in BatchType /\ BatchFits(batch') /\ batch'.at = batch.at
  <2>1. CASE batch' = [b EXCEPT !.items[Current] = row]
    <3>1. batch' \in BatchType /\ batch'.at = b.at /\ batch'.step = b.step
          /\ batch'.chosen = b.chosen /\ batch'.place = b.place
      BY <1>2, <1>3, <1>4, <2>1 DEF BatchType
    <3> QED
      BY <1>3, <3>1 DEF BatchFits
  <2> QED
    BY <1>3, <1>5, <2>1
<1>7. LedgerInv'
  <2>1. rows' \in [Article -> Row]
    BY <1>4, <1>5 DEF DirectInv, LedgerInv
  <2> QED
    BY <2>1 DEF FinishArticle, DirectInv, LedgerInv, ledger, channelVars
<1> QED
  BY <1>6, <1>7, BatchStepInv DEF FinishArticle

LEMMA SaveItemInv == ASSUME DirectInv, SaveItem PROVE DirectInv'
<1>1. batch \in BatchType /\ batch.step = "save" /\ batch.todo \in SUBSET Article
      /\ batch.items \in [Article -> Row] /\ batch.at <= now /\ now \in Nat
  <2>1. batch \in BatchType /\ batch.step = "save" /\ batch.at <= now /\ now \in 1 .. MaxTime
    BY DEF SaveItem, DirectInv, BatchInv, LedgerInv
  <2> QED
    BY <2>1 DEF BatchType, DirectAssumption
<1>2. PICK a \in Article : /\ rows' = [rows EXCEPT ![a] = batch.items[a]]
                           /\ batch' \in {Idle, [batch EXCEPT !.todo = @ \ {a}]}
  BY <1>1 DEF SaveItem
<1>3. batch' \in BatchType /\ batch'.step \in {"idle", "save"} /\ batch'.at \in {0, batch.at}
  <2>1. CASE batch' = Idle
    BY <2>1, IdleType
  <2>2. CASE batch' = [batch EXCEPT !.todo = @ \ {a}]
    BY <1>1, <2>2 DEF BatchType
  <2> QED
    BY <1>2, <2>1, <2>2
<1>4. BatchInv'
  BY <1>1, <1>3 DEF SaveItem, BatchInv, BatchFits, Sending
<1>5. LedgerInv'
  <2>1. rows' \in [Article -> Row]
    BY <1>1, <1>2 DEF DirectInv, LedgerInv
  <2> QED
    BY <2>1 DEF SaveItem, DirectInv, LedgerInv, ledger, channelVars
<1> QED
  BY <1>4, <1>5 DEF SaveItem, DirectInv, HealthInv, HealthTypeOK, healthVars

LEMMA CrashInv == ASSUME DirectInv, Crash PROVE DirectInv'
<1>1. HealthInv'
  BY DEF Crash, Forget, HealthInv, HealthTypeOK, NewSource, SourceAssumption
<1>2. BatchInv'
  BY IdleType DEF Crash, BatchInv, DirectInv, LedgerInv
<1>3. LedgerInv'
  <2>1. CASE durable
    BY <2>1 DEF Crash, DirectInv, LedgerInv, ledger
  <2>2. CASE ~durable
    <3>1. delivered' = [j \in DOMAIN delivered |-> 0] /\ keys' = {} /\ unsettled' = posts
      BY <2>2 DEF Crash
    <3>2. delivered' \in [Article \X Destination -> 0 .. MaxTime]
      BY <3>1 DEF DirectInv, LedgerInv, DirectAssumption
    <3> QED
      BY <3>1, <3>2 DEF Crash, DirectInv, LedgerInv
  <2> QED
    BY <2>1, <2>2
<1> QED
  BY <1>1, <1>2, <1>3 DEF DirectInv

LEMMA PassTimeInv == ASSUME DirectInv, PassTime PROVE DirectInv'
<1>1. now \in 1 .. MaxTime /\ now' = now + 1 /\ now < MaxTime /\ UNCHANGED batch
  BY DEF PassTime, DirectInv, LedgerInv
<1>2. BatchInv'
  <2>1. batch.at \in Nat
    BY DEF DirectInv, BatchInv, BatchType
  <2> QED
    BY <1>1, <2>1 DEF DirectInv, BatchInv, DirectAssumption
<1>3. now' \in 1 .. MaxTime
  BY <1>1 DEF DirectAssumption
<1> QED
  BY <1>2, <1>3 DEF PassTime, DirectInv, HealthInv, HealthTypeOK, LedgerInv, healthVars, ledger, channelVars

LEMMA DirectNext == DirectInv /\ [Next]_vars => DirectInv'
<1> SUFFICES ASSUME DirectInv, [Next]_vars PROVE DirectInv'
  OBVIOUS
<1>1. CASE Receive
  BY <1>1, ReceiveInv
<1>2. CASE PollSources
  BY <1>2, PollSourcesInv
<1>3. CASE Work
  BY <1>3, IngestSourceInv, FilterInv, EnrichInv, SelectInv, VisitInv, SendInv, RecordInv, MarkInv,
     FinishArticleInv, SaveItemInv DEF Work
<1>4. CASE Crash
  BY <1>4, CrashInv
<1>5. CASE PassTime
  BY <1>5, PassTimeInv
<1>6. CASE UNCHANGED vars
  BY <1>6 DEF vars, DirectInv, HealthInv, HealthTypeOK, LedgerInv, BatchInv, healthVars, ledger, channelVars
<1> QED
  BY <1>1, <1>2, <1>3, <1>4, <1>5, <1>6 DEF Next

(***************************************************************************)
(* Types, health records and the progress of the batch are kept by every   *)
(* step of the direct path: what the theorems below start from.            *)
(***************************************************************************)
THEOREM DirectInvariance == Spec => []DirectInv
BY DirectInit, DirectNext, PTL DEF Spec

(***************************************************************************)
(* Rows, records, keys and the batch in progress have their types,         *)
(* destinations and AI providers are only asked while there are any left,  *)
(* and attempts stay within the policy.                                    *)
(***************************************************************************)
THEOREM DirectTypeCorrect == Spec => []TypeOK
BY DirectInvariance, DirectTypes, PTL

(***************************************************************************)
(* A source is disabled only after as many polls in a row as the limit     *)
(* raised: one in between that did not resets the count.                   *)
(***************************************************************************)
THEOREM SourcesAreGivenUpJustly == Spec => []GivenUpJustly
<1>1. DirectInv => GivenUpJustly
  BY DEF DirectInv, HealthInv, HealthTypeOK, GivenUpJustly, SourceAssumption
<1> QED
  BY <1>1, DirectInvariance, PTL

-----------------------------------------------------------------------------
(***************************************************************************)
(* What a channel received is unsettled until its key is marked, and a     *)
(* post is made only while its key is not.                                 *)
(***************************************************************************)
PostsInv ==
    /\ reposts = {}
    /\ posts \ unsettled \subseteq keys
    /\ batch.step = "send" => Version \notin keys
    /\ batch.step = "markLegacy" /\ batch.items[Current].upd # 0 => Version \in keys

LEMMA PostsNext == DirectInv /\ PostsInv /\ [Next]_vars => PostsInv'
<1> SUFFICES ASSUME DirectInv, PostsInv, [Next]_vars PROVE PostsInv'
  OBVIOUS
<1>0. batch \in BatchType
  BY DEF DirectInv, BatchInv
<1>1. ASSUME UNCHANGED <<keys, channelVars>>, batch'.step \notin {"send", "markLegacy"}
      PROVE  PostsInv'
  BY <1>1 DEF PostsInv, channelVars
<1>2. CASE Receive
  BY <1>1, <1>2, IdleType DEF Receive, ledger, Idle
<1>3. CASE PollSources
  BY <1>1, <1>3 DEF PollSources, ledger, Idle
<1>4. CASE IngestSource
  BY <1>0, <1>1, <1>4 DEF IngestSource, ledger, BatchType
<1>5. CASE Filter
  BY <1>0, <1>1, <1>5 DEF Filter, ledger, BatchType
<1>6. CASE Enrich
  BY <1>0, <1>1, <1>6 DEF Enrich, ledger, BatchType
<1>7. CASE Select
  BY <1>0, <1>1, <1>7 DEF Select, ledger, BatchType, Idle, Publishing
<1>8. CASE Visit
  <2>1. CASE Skipped
    BY <1>0, <1>1, <1>8, <2>1 DEF Visit, ledger, BatchType
  <2>2. CASE ~Skipped
    <3>1. batch' = [batch EXCEPT !.step = "send", !.attempt = 1] /\ UNCHANGED <<keys, channelVars>>
      BY <1>8, <2>2 DEF Visit, ledger
    <3>2. Version' = Version /\ batch'.step = "send"
      BY <1>0, <3>1 DEF Version, Current, Target, BatchType
    <3> QED
      BY <2>2, <3>1, <3>2 DEF PostsInv, Skipped, channelVars
  <2> QED
    BY <2>1, <2>2
<1>9. CASE WriteFile \/ Post \/ FailToSend
  <2>1. BatchInv /\ batch.step = "send" /\ Version \notin keys /\ UNCHANGED keys
    BY <1>9 DEF WriteFile, Post, FailToSend, DirectInv, PostsInv, ledger
  <2>2. PICK ok \in BOOLEAN : batch' = Tried(ok)
    BY <1>9 DEF WriteFile, Post, FailToSend
  <2>3. PICK step \in {"send", "record"}, attempt \in 0 .. MaxAttempts, result \in BOOLEAN :
           batch' = [batch EXCEPT !.step = step, !.attempt = attempt, !.result = result]
    BY <2>1, <2>2, TriedType
  <2>4. batch'.step \in {"send", "record"} /\ Version' = Version
    BY <1>0, <2>3 DEF Version, Current, Target, BatchType
  <2>5. Version \notin posts \ unsettled
    BY <2>1 DEF PostsInv
  <2>6. posts' \ unsettled' \subseteq keys /\ reposts' = {}
    BY <1>9, <2>5 DEF WriteFile, Post, FailToSend, PostsInv, channelVars
  <2> QED
    BY <2>1, <2>4, <2>6 DEF PostsInv
<1>10. CASE Record
  <2>1. CASE batch.result
    <3>1. PICK step \in {"markLegacy", "markVersion"} :
             /\ step = "markLegacy" => batch.items[Current].upd = 0
             /\ batch' = [batch EXCEPT !.attempt = 0, !.result = FALSE, !.success = TRUE, !.step = step]
      BY <1>10, <2>1 DEF Record
    <3>2. batch'.step = step /\ batch'.items = batch.items /\ Current' = Current
      BY <1>0, <3>1 DEF Current, BatchType
    <3> QED
      BY <1>10, <3>1, <3>2 DEF Record, PostsInv, channelVars
  <2>2. CASE ~batch.result
    BY <1>0, <1>1, <1>10, <2>2 DEF Record, BatchType
  <2> QED
    BY <2>1, <2>2
<1>11. CASE MarkVersion
  <2>1. batch' = [batch EXCEPT !.step = "markLegacy"]
    BY <1>11 DEF MarkVersion
  <2>2. Version' = Version /\ batch'.step = "markLegacy"
    BY <1>0, <2>1 DEF Version, Current, Target, BatchType
  <2> QED
    BY <1>11, <2>2 DEF MarkVersion, PostsInv
<1>12. CASE MarkLegacy
  <2>1. batch'.step = "visit"
    BY <1>0, <1>12 DEF MarkLegacy, BatchType
  <2>2. Version \in keys \cup {<<Current, Target, 0>>}
    BY <1>12 DEF MarkLegacy, PostsInv, Version
  <2> QED
    BY <1>12, <2>1, <2>2 DEF MarkLegacy, PostsInv
<1>13. CASE FinishArticle
  <2>1. batch'.step \notin {"send", "markLegacy"}
    <3> DEFINE b == Publishing(Tail(batch.chosen))
    <3>1. b.step \in {"save", "visit"}
      BY <1>0 DEF Publishing, BatchType
    <3>2. \/ batch' = b
          \/ batch' = [b EXCEPT !.items[Current] = [batch.items[Current] EXCEPT !.sent = now]]
      BY <1>13 DEF FinishArticle
    <3>3. b \in BatchType
      BY <1>13, CurrentType, PublishingType DEF FinishArticle, DirectInv
    <3> HIDE DEF b
    <3> QED
      BY <3>1, <3>2, <3>3 DEF BatchType
  <2> QED
    BY <1>1, <1>13, <2>1 DEF FinishArticle, ledger
<1>14. CASE SaveItem
  BY <1>0, <1>1, <1>14 DEF SaveItem, ledger, BatchType, Idle
<1>15. CASE Crash
  <2>1. batch'.step = "idle" /\ UNCHANGED <<posts, reposts>>
    BY <1>15, IdleType DEF Crash
  <2>2. CASE durable
    BY <1>15, <2>1, <2>2 DEF Crash, PostsInv, ledger
  <2>3. CASE ~durable
    BY <1>15, <2>1, <2>3 DEF Crash, PostsInv
  <2> QED
    BY <2>2, <2>3
<1>16. CASE PassTime \/ UNCHANGED vars
  BY <1>16 DEF PassTime, vars, ledger, channelVars, PostsInv, Version, Current, Target
<1> QED
  BY <1>2, <1>3, <1>4, <1>5, <1>6, <1>7, <1>8, <1>9, <1>10, <1>11, <1>12, <1>13, <1>14, <1>15, <1>16
  DEF Next, Work

(***************************************************************************)
(* No channel receives an update, or an article without one, again after   *)
(* its key was marked, whatever the order of retries, failures, crashes    *)
(* and updates.                                                            *)
(***************************************************************************)
THEOREM ChannelsPostOnce == Spec => []NoReposts
<1>1. Init => PostsInv
  BY IdleType DEF Init, PostsInv
<1>2. PostsInv => NoReposts
  BY DEF PostsInv, NoReposts
<1> QED
  BY <1>1, <1>2, DirectInvariance, PostsNext, PTL DEF Spec

-----------------------------------------------------------------------------
(***************************************************************************)
(* Dropping an article from a list, and putting it first.                  *)
(***************************************************************************)
LEMMA RemoveAtIs ==
    ASSUME NEW T, NEW s \in Seq(T), NEW i \in 1 .. Len(s)
    PROVE  /\ RemoveAt(s, i) \in Seq(T) /\ Len(RemoveAt(s, i)) = Len(s) - 1
           /\ \A j \in 1 .. Len(s) - 1 :
                 RemoveAt(s, i)[j] = IF j < i THEN s[j] ELSE s[j + 1]
<1> DEFINE front == SubSeq(s, 1, i - 1)
           back == SubSeq(s, i + 1, Len(s))
<1>1. /\ front \in Seq(T) /\ Len(front) = i - 1
      /\ \A j \in 1 .. i - 1 : front[j] = s[j]
  OBVIOUS
<1>2. /\ back \in Seq(T) /\ Len(back) = Len(s) - i
      /\ \A j \in 1 .. Len(s) - i : back[j] = s[i + j]
  OBVIOUS
<1>3. RemoveAt(s, i) = front \o back
  BY DEF RemoveAt
<1> HIDE DEF front, back
<1>4. /\ front \o back \in Seq(T) /\ Len(front \o back) = Len(s) - 1
      /\ \A j \in 1 .. Len(s) - 1 :
            (front \o back)[j] = IF j <= i - 1 THEN front[j] ELSE back[j - (i - 1)]
  <2>1. /\ front \o back \in Seq(T) /\ Len(front \o back) = Len(front) + Len(back)
        /\ \A j \in 1 .. Len(front) + Len(back) :
              (front \o back)[j] = IF j <= Len(front) THEN front[j] ELSE back[j - Len(front)]
    BY <1>1, <1>2, ConcatProperties
  <2>2. Len(front) + Len(back) = Len(s) - 1
    BY <1>1, <1>2
  <2> QED
    BY <1>1, <2>1, <2>2
<1>5. ASSUME NEW j \in 1 .. Len(s) - 1
      PROVE  (front \o back)[j] = IF j < i THEN s[j] ELSE s[j + 1]
  <2>0. j \in Nat \ {0} /\ i \in Nat \ {0} /\ Len(s) \in Nat /\ j <= Len(s) - 1
    OBVIOUS
  <2>1. CASE j < i
    <3>1. j <= i - 1 /\ j \in 1 .. i - 1
      BY <2>0, <2>1
    <3> QED
      BY <1>1, <1>4, <2>1, <3>1
  <2>2. CASE ~(j < i)
    <3>1. ~(j <= i - 1) /\ ~(j < i)
      BY <2>0, <2>2
    <3>2. PICK k \in 1 .. Len(s) - i : k = j - (i - 1) /\ i + k = j + 1
      BY <2>0, <2>2
    <3>3. (front \o back)[j] = back[k]
      BY <1>4, <3>1, <3>2
    <3>4. back[k] = s[j + 1]
      BY <1>2, <3>2
    <3> QED
      BY <3>1, <3>3, <3>4
  <2> QED
    BY <2>1, <2>2
<1> QED
  BY <1>3, <1>4, <1>5

LEMMA RemoveFirstIs ==
    ASSUME NEW T, NEW s \in Seq(T), IsInjective(s), NEW a
    PROVE  /\ a \notin ToSet(s) => RemoveFirst(s, a) = s
           /\ \A i \in 1 .. Len(s) : s[i] = a => RemoveFirst(s, a) = RemoveAt(s, i)
<1>1. a \notin ToSet(s) => RemoveFirst(s, a) = s
  BY DEF RemoveFirst, ToSet
<1>2. ASSUME NEW i \in 1 .. Len(s), s[i] = a PROVE RemoveFirst(s, a) = RemoveAt(s, i)
  <2> DEFINE I == {k \in 1 .. Len(s) : s[k] = a}
  <2>1. I = {i}
    BY <1>2 DEF IsInjective
  <2>2. Min(I) = i
    BY <2>1 DEF Min
  <2>3. SelectInSeq(s, LAMBDA v : v = a) = IF I # {} THEN Min(I) ELSE 0
    BY DEF SelectInSeq
  <2> HIDE DEF I
  <2>4. SelectInSeq(s, LAMBDA v : v = a) = i
    BY <2>1, <2>2, <2>3
  <2>5. RemoveFirst(s, a) = RemoveAt(s, SelectInSeq(s, LAMBDA v : v = a))
    BY <1>2 DEF RemoveFirst
  <2> QED
    BY <2>4, <2>5
<1> QED
  BY <1>1, <1>2

LEMMA RemoveFirstType ==
    ASSUME NEW T, NEW s \in Seq(T), IsInjective(s), NEW a
    PROVE  /\ RemoveFirst(s, a) \in Seq(T) /\ IsInjective(RemoveFirst(s, a))
           /\ ToSet(RemoveFirst(s, a)) = ToSet(s) \ {a}
<1>1. CASE a \notin ToSet(s)
  BY <1>1, RemoveFirstIs
<1>2. CASE a \in ToSet(s)
  <2>1. PICK i \in 1 .. Len(s) : s[i] = a
    BY <1>2 DEF ToSet
  <2> DEFINE r == RemoveAt(s, i)
  <2>2. RemoveFirst(s, a) = r
    BY <2>1, RemoveFirstIs
  <2>3. /\ r \in Seq(T) /\ Len(r) = Len(s) - 1 /\ DOMAIN r = 1 .. Len(s) - 1
        /\ \A j \in 1 .. Len(s) - 1 : r[j] = IF j < i THEN s[j] ELSE s[j + 1]
    BY RemoveAtIs
  <2> HIDE DEF r
  <2>0. \A j \in 1 .. Len(s) - 1 : (IF j < i THEN j ELSE j + 1) \in 1 .. Len(s)
    OBVIOUS
  <2>4. \A j, k \in 1 .. Len(s) : s[j] = s[k] => j = k
    BY DEF IsInjective
  <2>5. IsInjective(r)
    <3> SUFFICES ASSUME NEW j \in 1 .. Len(s) - 1, NEW k \in 1 .. Len(s) - 1, r[j] = r[k]
                 PROVE  j = k
      BY <2>3 DEF IsInjective
    <3>1. PICK jj \in 1 .. Len(s) : jj = (IF j < i THEN j ELSE j + 1) /\ r[j] = s[jj]
      BY <2>0, <2>3
    <3>2. PICK kk \in 1 .. Len(s) : kk = (IF k < i THEN k ELSE k + 1) /\ r[k] = s[kk]
      BY <2>0, <2>3
    <3>3. jj = kk
      BY <2>4, <3>1, <3>2
    <3> QED
      BY <3>1, <3>2, <3>3
  <2>6. ToSet(r) \subseteq ToSet(s) \ {a}
    <3> SUFFICES ASSUME NEW j \in 1 .. Len(s) - 1 PROVE r[j] \in ToSet(s) \ {a}
      BY <2>3 DEF ToSet
    <3>1. PICK jj \in 1 .. Len(s) : jj = (IF j < i THEN j ELSE j + 1) /\ r[j] = s[jj]
      BY <2>0, <2>3
    <3>2. jj # i
      BY <3>1
    <3> QED
      BY <2>1, <2>4, <3>1, <3>2 DEF ToSet
  <2>7. ToSet(s) \ {a} \subseteq ToSet(r)
    <3> SUFFICES ASSUME NEW j \in 1 .. Len(s), j # i PROVE s[j] \in ToSet(r)
      <4>1. \A e \in ToSet(s) \ {a} : \E j \in 1 .. Len(s) : j # i /\ e = s[j]
        BY <2>1 DEF ToSet
      <4> QED
        BY <4>1
    <3>1. PICK k \in 1 .. Len(s) - 1 : k = IF j < i THEN j ELSE j - 1
      OBVIOUS
    <3>2. r[k] = s[j]
      BY <2>3, <3>1
    <3> QED
      BY <2>3, <3>2 DEF ToSet
  <2> QED
    BY <2>2, <2>3, <2>5, <2>6, <2>7
<1> QED
  BY <1>1, <1>2

LEMMA TruncatedIs ==
    ASSUME NEW T, NEW s \in Seq(T)
    PROVE  /\ Truncated(s) \in Seq(T)
           /\ Len(Truncated(s)) = IF Len(s) < MaxFeedItems THEN Len(s) ELSE MaxFeedItems
           /\ \A j \in 1 .. Len(Truncated(s)) : Truncated(s)[j] = s[j]
<1>1. PICK m \in 0 .. Len(s) : m = IF Len(s) < MaxFeedItems THEN Len(s) ELSE MaxFeedItems
  BY DEF FeedAssumption
<1>2. Truncated(s) = SubSeq(s, 1, m)
  BY <1>1 DEF Truncated
<1>3. /\ SubSeq(s, 1, m) \in Seq(T) /\ Len(SubSeq(s, 1, m)) = m
      /\ \A j \in 1 .. m : SubSeq(s, 1, m)[j] = s[j]
  BY <1>1
<1> QED
  BY <1>1, <1>2, <1>3

LEMMA PutFirstIs ==
    ASSUME NEW T, NEW s \in Seq(T), NEW a \in T
    PROVE  /\ <<a>> \o s \in Seq(T) /\ Len(<<a>> \o s) = Len(s) + 1
           /\ (<<a>> \o s)[1] = a
           /\ \A j \in 2 .. Len(s) + 1 : (<<a>> \o s)[j] = s[j - 1]
<1>1. <<a>> \in Seq(T) /\ Len(<<a>>) = 1 /\ <<a>>[1] = a
  OBVIOUS
<1> DEFINE one == <<a>>
<1> HIDE DEF one
<1>2. one \in Seq(T) /\ Len(one) = 1 /\ one[1] = a
  BY <1>1 DEF one
<1>3. /\ one \o s \in Seq(T) /\ Len(one \o s) = 1 + Len(s)
      /\ \A j \in 1 .. 1 + Len(s) : (one \o s)[j] = IF j <= 1 THEN one[j] ELSE s[j - 1]
  <2>1. /\ one \o s \in Seq(T) /\ Len(one \o s) = Len(one) + Len(s)
        /\ \A j \in 1 .. Len(one) + Len(s) :
              (one \o s)[j] = IF j <= Len(one) THEN one[j] ELSE s[j - Len(one)]
    BY <1>2, ConcatProperties
  <2> QED
    BY <1>2, <2>1
<1>4. Len(s) \in Nat
  OBVIOUS
<1>5. /\ one \o s \in Seq(T) /\ Len(one \o s) = Len(s) + 1
      /\ (one \o s)[1] = a
      /\ \A j \in 2 .. Len(s) + 1 : (one \o s)[j] = s[j - 1]
  BY <1>2, <1>3, <1>4
<1> QED
  BY <1>5 DEF one

(***************************************************************************)
(* A file that was cut off before an insertion is the file that is cut off *)
(* only after it.                                                          *)
(***************************************************************************)
LEMMA InsertLatest ==
    ASSUME NEW T, NEW s \in Seq(T), IsInjective(s), NEW a \in T
    PROVE  Inserted(Truncated(s), a) = Truncated(<<a>> \o RemoveFirst(s, a))
<1> DEFINE N == MaxFeedItems
           t == Truncated(s)
           u == RemoveFirst(t, a)
           v == RemoveFirst(s, a)
<1>1. /\ t \in Seq(T) /\ Len(t) = (IF Len(s) < N THEN Len(s) ELSE N)
      /\ \A j \in 1 .. Len(t) : t[j] = s[j]
  BY TruncatedIs
<1>2. N \in Nat \ {0} /\ Len(s) \in Nat /\ Len(t) \in Nat
  BY <1>1 DEF FeedAssumption
<1>3. \A j, k \in 1 .. Len(s) : s[j] = s[k] => j = k
  BY DEF IsInjective
<1> HIDE DEF t
<1>4. IsInjective(t)
  <2>1. DOMAIN t = 1 .. Len(t) /\ \A j \in 1 .. Len(t) : j \in 1 .. Len(s)
    BY <1>1, <1>2
  <2> QED
    BY <1>1, <1>3, <2>1 DEF IsInjective
<1>5. u \in Seq(T) /\ v \in Seq(T)
  BY <1>1, <1>4, RemoveFirstType
<1> HIDE DEF N
<1>6. /\ Len(u) = Len(v) \/ (Len(u) >= N - 1 /\ Len(v) >= N - 1)
      /\ \A j \in 1 .. N - 1 : j <= Len(u) /\ j <= Len(v) => u[j] = v[j]
  <2>1. CASE a \notin ToSet(s)
    <3>1. a \notin ToSet(t)
      BY <1>1, <1>2, <2>1 DEF ToSet
    <3>2. u = t /\ v = s
      BY <1>1, <1>4, <2>1, <3>1, RemoveFirstIs
    <3> HIDE DEF u, v
    <3> QED
      BY <1>1, <1>2, <3>2
  <2>2. ASSUME NEW i \in 1 .. Len(s), s[i] = a, i <= Len(t)
        PROVE  /\ Len(u) = Len(v) \/ (Len(u) >= N - 1 /\ Len(v) >= N - 1)
               /\ \A j \in 1 .. N - 1 : j <= Len(u) /\ j <= Len(v) => u[j] = v[j]
    <3>1. i \in 1 .. Len(t) /\ t[i] = a
      BY <1>1, <1>2, <2>2
    <3>2. u = RemoveAt(t, i) /\ v = RemoveAt(s, i)
      BY <1>1, <1>4, <2>2, <3>1, RemoveFirstIs
    <3>3. /\ Len(u) = Len(t) - 1
          /\ \A j \in 1 .. Len(t) - 1 : u[j] = IF j < i THEN t[j] ELSE t[j + 1]
      BY <1>1, <3>1, <3>2, RemoveAtIs
    <3>4. /\ Len(v) = Len(s) - 1
          /\ \A j \in 1 .. Len(s) - 1 : v[j] = IF j < i THEN s[j] ELSE s[j + 1]
      BY <3>2, RemoveAtIs
    <3> HIDE DEF u, v
    <3>5. Len(u) = Len(v) \/ (Len(u) >= N - 1 /\ Len(v) >= N - 1)
      BY <1>1, <1>2, <3>3, <3>4
    <3>6. ASSUME NEW j \in 1 .. N - 1, j <= Len(u), j <= Len(v) PROVE u[j] = v[j]
      <4>1. j \in 1 .. Len(t) - 1 /\ j \in 1 .. Len(s) - 1 /\ j \in 1 .. Len(t) /\ j + 1 \in 1 .. Len(t)
        BY <1>2, <3>3, <3>4, <3>6
      <4>2. t[j] = s[j] /\ t[j + 1] = s[j + 1]
        BY <1>1, <4>1
      <4> QED
        BY <3>3, <3>4, <4>1, <4>2
    <3> QED
      BY <3>5, <3>6
  <2>3. ASSUME NEW i \in 1 .. Len(s), s[i] = a, ~(i <= Len(t))
        PROVE  /\ Len(u) = Len(v) \/ (Len(u) >= N - 1 /\ Len(v) >= N - 1)
               /\ \A j \in 1 .. N - 1 : j <= Len(u) /\ j <= Len(v) => u[j] = v[j]
    <3>1. Len(t) = N /\ N < i
      BY <1>1, <1>2, <2>3
    <3>2. a \notin ToSet(t)
      <4>1. \A j \in 1 .. Len(t) : t[j] # a
        BY <1>1, <1>2, <1>3, <2>3
      <4> QED
        BY <1>1, <4>1 DEF ToSet
    <3>3. u = t /\ v = RemoveAt(s, i)
      BY <1>1, <1>4, <2>3, <3>2, RemoveFirstIs
    <3>4. /\ Len(v) = Len(s) - 1
          /\ \A j \in 1 .. Len(s) - 1 : v[j] = IF j < i THEN s[j] ELSE s[j + 1]
      BY <3>3, RemoveAtIs
    <3> HIDE DEF u, v
    <3>5. Len(u) >= N - 1 /\ Len(v) >= N - 1
      BY <1>2, <3>1, <3>3, <3>4
    <3>6. ASSUME NEW j \in 1 .. N - 1 PROVE u[j] = v[j]
      <4>1. j \in 1 .. Len(s) - 1 /\ j < i /\ j \in 1 .. Len(t)
        BY <1>2, <3>1
      <4> QED
        BY <1>1, <3>3, <3>4, <4>1
    <3> QED
      BY <3>5, <3>6
  <2> HIDE DEF u, v
  <2> QED
    BY <2>1, <2>2, <2>3 DEF ToSet
<1> HIDE DEF u, v
<1> DEFINE x == <<a>> \o u
           y == <<a>> \o v
<1>7. /\ x \in Seq(T) /\ Len(x) = Len(u) + 1 /\ x[1] = a
      /\ \A j \in 2 .. Len(u) + 1 : x[j] = u[j - 1]
  BY <1>5, PutFirstIs
<1>8. /\ y \in Seq(T) /\ Len(y) = Len(v) + 1 /\ y[1] = a
      /\ \A j \in 2 .. Len(v) + 1 : y[j] = v[j - 1]
  BY <1>5, PutFirstIs
<1> HIDE DEF x, y
<1>9. /\ Truncated(x) \in Seq(T) /\ Len(Truncated(x)) = (IF Len(x) < N THEN Len(x) ELSE N)
      /\ \A j \in 1 .. Len(Truncated(x)) : Truncated(x)[j] = x[j]
  BY <1>7, TruncatedIs DEF N
<1>10. /\ Truncated(y) \in Seq(T) /\ Len(Truncated(y)) = (IF Len(y) < N THEN Len(y) ELSE N)
       /\ \A j \in 1 .. Len(Truncated(y)) : Truncated(y)[j] = y[j]
  BY <1>8, TruncatedIs DEF N
<1>11. Len(u) \in Nat /\ Len(v) \in Nat
  BY <1>5
<1>12. Len(Truncated(x)) = Len(Truncated(y))
  BY <1>2, <1>6, <1>7, <1>8, <1>9, <1>10, <1>11
<1>13. ASSUME NEW j \in 1 .. Len(Truncated(x)) PROVE Truncated(x)[j] = Truncated(y)[j]
  <2>1. j <= N /\ j <= Len(u) + 1 /\ j <= Len(v) + 1 /\ j \in Nat \ {0}
    BY <1>2, <1>7, <1>8, <1>9, <1>10, <1>11, <1>12
  <2>2. Truncated(x)[j] = x[j] /\ Truncated(y)[j] = y[j]
    BY <1>9, <1>10, <1>12
  <2>3. CASE j = 1
    BY <1>7, <1>8, <2>2, <2>3
  <2>4. CASE j # 1
    <3>1. PICK k \in 1 .. N - 1 : k = j - 1 /\ k <= Len(u) /\ k <= Len(v)
      BY <1>2, <1>11, <2>1, <2>4
    <3>2. x[j] = u[k] /\ y[j] = v[k]
      BY <1>7, <1>8, <1>11, <2>1, <2>4, <3>1
    <3> QED
      BY <1>6, <2>2, <3>1, <3>2
  <2> QED
    BY <2>3, <2>4
<1>14. Truncated(x) = Truncated(y)
  BY <1>9, <1>10, <1>12, <1>13
<1> QED
  BY <1>14 DEF x, y, u, v, t, Inserted

LEMMA LatestFirst ==
    ASSUME NEW T, NEW s \in Seq(T), IsInjective(s), NEW a \in T
    PROVE  /\ <<a>> \o RemoveFirst(s, a) \in Seq(T)
           /\ IsInjective(<<a>> \o RemoveFirst(s, a))
           /\ ToSet(<<a>> \o RemoveFirst(s, a)) = ToSet(s) \cup {a}
<1> DEFINE v == RemoveFirst(s, a)
           w == <<a>> \o v
<1>1. v \in Seq(T) /\ IsInjective(v) /\ ToSet(v) = ToSet(s) \ {a}
  BY RemoveFirstType
<1> HIDE DEF v
<1>2. /\ w \in Seq(T) /\ Len(w) = Len(v) + 1 /\ w[1] = a
      /\ \A j \in 2 .. Len(v) + 1 : w[j] = v[j - 1]
  BY <1>1, PutFirstIs
<1> HIDE DEF w
<1>3. Len(v) \in Nat /\ DOMAIN v = 1 .. Len(v) /\ DOMAIN w = 1 .. Len(v) + 1
  BY <1>1, <1>2
<1>4. \A j \in 2 .. Len(v) + 1 : j - 1 \in 1 .. Len(v) /\ w[j] \in ToSet(v)
  <2> TAKE j \in 2 .. Len(v) + 1
  <2>1. j - 1 \in 1 .. Len(v)
    BY <1>3
  <2> QED
    BY <1>2, <1>3, <2>1 DEF ToSet
<1>5. IsInjective(w)
  <2> SUFFICES ASSUME NEW j \in 1 .. Len(v) + 1, NEW k \in 1 .. Len(v) + 1, w[j] = w[k]
               PROVE  j = k
    BY <1>3 DEF IsInjective
  <2>1. CASE j = 1 \/ k = 1
    BY <1>1, <1>2, <1>3, <1>4, <2>1
  <2>2. CASE j # 1 /\ k # 1
    <3>1. j \in 2 .. Len(v) + 1 /\ k \in 2 .. Len(v) + 1
      BY <1>3, <2>2
    <3>2. v[j - 1] = v[k - 1] /\ j - 1 \in DOMAIN v /\ k - 1 \in DOMAIN v
      BY <1>2, <1>3, <1>4, <3>1
    <3>3. j - 1 = k - 1
      BY <1>1, <3>2 DEF IsInjective
    <3> QED
      BY <3>1, <3>3
  <2> QED
    BY <2>1, <2>2
<1>6. ToSet(w) = ToSet(v) \cup {a}
  <2>1. \A j \in 1 .. Len(v) + 1 : w[j] \in ToSet(v) \cup {a}
    BY <1>2, <1>3, <1>4
  <2>2. ASSUME NEW j \in 1 .. Len(v) PROVE v[j] \in ToSet(w)
    <3>1. j + 1 \in 2 .. Len(v) + 1 /\ j + 1 \in DOMAIN w /\ (j + 1) - 1 = j
      BY <1>3
    <3> QED
      BY <1>2, <3>1 DEF ToSet
  <2>3. a \in ToSet(w)
    <3>1. 1 \in DOMAIN w
      BY <1>3
    <3> QED
      BY <1>2, <3>1 DEF ToSet
  <2> QED
    BY <1>3, <2>1, <2>2, <2>3 DEF ToSet
<1> QED
  BY <1>1, <1>2, <1>5, <1>6 DEF v, w

-----------------------------------------------------------------------------
(***************************************************************************)
(* No list of a file holds an article twice: the file is what it was cut   *)
(* off from.                                                               *)
(***************************************************************************)
Listable == Article \cup ToSet(OldItems)

FilesInv ==
    /\ files \in [FileDestination -> Seq(Listable)]
    /\ written \in [FileDestination -> Seq(Listable)]
    /\ \A d \in FileDestination : IsInjective(written[d]) /\ files[d] = Truncated(written[d])

LEMMA FilesInit == Init => FilesInv
<1> SUFFICES ASSUME Init PROVE FilesInv
  OBVIOUS
<1>1. OldItems \in Seq(Listable)
  <2>1. OldItems \in Seq(ToSet(OldItems))
    BY DEF FeedAssumption
  <2>2. \A j \in 1 .. Len(OldItems) : OldItems[j] \in Listable
    BY <2>1 DEF Listable
  <2> QED
    BY <2>1, <2>2
<1>2. Truncated(OldItems) = OldItems
  <2>1. /\ Truncated(OldItems) \in Seq(Listable) /\ Len(Truncated(OldItems)) = Len(OldItems)
        /\ \A j \in 1 .. Len(Truncated(OldItems)) : Truncated(OldItems)[j] = OldItems[j]
    BY <1>1, TruncatedIs DEF FeedAssumption
  <2> QED
    BY <1>1, <2>1
<1> QED
  BY <1>1, <1>2 DEF Init, FeedInit, FilesInv, FeedAssumption

LEMMA ReplaceFiles ==
    ASSUME FilesInv, NEW d \in FileDestination, NEW a \in Article, Replace(d, a)
    PROVE  /\ FilesInv'
           /\ \A e \in FileDestination :
                 ToSet(written'[e]) = ToSet(written[e]) \cup (IF e = d THEN {a} ELSE {})
<1> DEFINE w == <<a>> \o RemoveFirst(written[d], a)
<1>1. /\ written[d] \in Seq(Listable) /\ IsInjective(written[d]) /\ a \in Listable
      /\ files[d] = Truncated(written[d])
  BY DEF FilesInv, Listable
<1>2. w \in Seq(Listable) /\ IsInjective(w) /\ ToSet(w) = ToSet(written[d]) \cup {a}
  BY <1>1, LatestFirst
<1>3. Inserted(files[d], a) = Truncated(w)
  BY <1>1, InsertLatest
<1>4. Truncated(w) \in Seq(Listable)
  BY <1>2, TruncatedIs
<1>5. files' = [files EXCEPT ![d] = Truncated(w)] /\ written' = [written EXCEPT ![d] = w]
  BY <1>3 DEF Replace
<1> HIDE DEF w
<1> QED
  BY <1>2, <1>4, <1>5 DEF FilesInv

LEMMA FilesNext == DirectInv /\ FilesInv /\ [Next]_vars => FilesInv'
<1> SUFFICES ASSUME DirectInv, FilesInv, [Next]_vars PROVE FilesInv'
  OBVIOUS
<1>1. CASE UNCHANGED fileVars
  BY <1>1 DEF fileVars, FilesInv
<1>2. CASE WriteFile
  <2>1. Current \in Article
    BY <1>2, CurrentType DEF WriteFile, DirectInv, Sending
  <2> QED
    BY <1>2, <2>1, ReplaceFiles DEF WriteFile
<1>3. UNCHANGED fileVars \/ WriteFile
  BY DEF Next, Work, vars, Receive, PollSources, IngestSource, Filter, Enrich, Select, Visit, Post,
     FailToSend, Record, MarkVersion, MarkLegacy, FinishArticle, SaveItem, Crash, PassTime
<1> QED
  BY <1>1, <1>2, <1>3

(***************************************************************************)
(* Every feed file is the list of what was ever written to it, an article  *)
(* once, at its last date, cut off at the limit of the file.               *)
(***************************************************************************)
THEOREM FilesInvariance == Spec => [](DirectInv /\ FilesInv)
<1>1. Init => DirectInv /\ FilesInv
  BY DirectInit, FilesInit
<1>2. DirectInv /\ FilesInv /\ [Next]_vars => (DirectInv /\ FilesInv)'
  BY DirectNext, FilesNext
<1> QED
  BY <1>1, <1>2, PTL DEF Spec

(***************************************************************************)
(* A feed file lists the articles that were published last, each once, the *)
(* latest first: publishing again moves an article to the front, and       *)
(* neither a retry nor a crash repeats or reorders one.                    *)
(***************************************************************************)
THEOREM FeedsListTheLatest == Spec => []FeedsLatest
<1>1. FilesInv => FeedsLatest
  BY DEF FilesInv, FeedsLatest
<1> QED
  BY <1>1, FilesInvariance, PTL

-----------------------------------------------------------------------------
(***************************************************************************)
(* Whatever a batch is about to mark, and every success it remembers, is   *)
(* owed to a destination that has the article.                             *)
(***************************************************************************)
Known(a) == \E d \in Destination : Received(a, d)

Reached ==
    /\ Received(Current, Target)
    /\ Target \notin FileDestination => Version \in posts

ReceivedInv ==
    /\ AcknowledgedReceived
    /\ batch.step \in {"markVersion", "markLegacy"} => Reached
    /\ batch.step = "record" /\ batch.result => Reached
    /\ batch.step \in Sending \cup {"visit"} /\ batch.success => Known(Current)
    /\ \A a \in Article : batch.items[a].sent # 0 => Known(a)

LEMMA ReceivedInit == Init => ReceivedInv
BY IdleType DEF Init, ReceivedInv, AcknowledgedReceived, NoItems, NoRow, Idle, Sending

(***************************************************************************)
(* What a destination has it keeps.                                        *)
(***************************************************************************)
LEMMA ReceivedKept ==
    ASSUME DirectInv, FilesInv, [Next]_vars
    PROVE  /\ posts \subseteq posts'
           /\ \A a, d : Received(a, d) => Received(a, d)'
<1>1. posts \subseteq posts'
  BY DEF Next, Work, vars, Receive, PollSources, IngestSource, Filter, Enrich, Select, Visit, Post,
     FailToSend, WriteFile, Record, MarkVersion, MarkLegacy, FinishArticle, SaveItem, Crash, PassTime,
     channelVars
<1>2. \A d \in FileDestination : ToSet(written[d]) \subseteq ToSet(written'[d])
  <2>1. CASE WriteFile
    <3>1. Current \in Article
      BY <2>1, CurrentType DEF WriteFile, DirectInv, Sending
    <3> QED
      BY <2>1, <3>1, ReplaceFiles DEF WriteFile
  <2>2. UNCHANGED fileVars \/ WriteFile
    BY DEF Next, Work, vars, Receive, PollSources, IngestSource, Filter, Enrich, Select, Visit, Post,
       FailToSend, Record, MarkVersion, MarkLegacy, FinishArticle, SaveItem, Crash, PassTime
  <2> QED
    BY <2>1, <2>2 DEF fileVars
<1> QED
  BY <1>1, <1>2 DEF Received

(***************************************************************************)
(* The four ways a step keeps the invariant: it touches neither the keys   *)
(* nor the rows; it marks keys; it saves a row.                            *)
(***************************************************************************)
LEMMA AcknowledgedKept ==
    ASSUME DirectInv, FilesInv, AcknowledgedReceived, [Next]_vars,
           \A key \in keys' \ keys : /\ Received(key[1], key[2])
                                     /\ key[3] # 0 /\ key[2] \notin FileDestination => key \in posts,
           \A a \in Article : rows'[a].sent # 0 => rows[a].sent # 0 \/ Known(a)
    PROVE  AcknowledgedReceived'
<1>1. posts \subseteq posts' /\ \A a, d : Received(a, d) => Received(a, d)'
  BY ReceivedKept
<1>2. ASSUME NEW key \in keys'
      PROVE  /\ Received(key[1], key[2])'
             /\ key[3] # 0 /\ key[2] \notin FileDestination => key \in posts'
  BY <1>1 DEF AcknowledgedReceived
<1>3. ASSUME NEW a \in Article, rows'[a].sent # 0 PROVE \E d \in Destination : Received(a, d)'
  <2>1. PICK d \in Destination : Received(a, d)
    BY <1>3 DEF AcknowledgedReceived, Known
  <2> QED
    BY <1>1, <2>1
<1> QED
  BY <1>2, <1>3 DEF AcknowledgedReceived

LEMMA KnownKept ==
    ASSUME DirectInv, FilesInv, [Next]_vars, NEW a, Known(a)
    PROVE  Known(a)'
BY ReceivedKept DEF Known

(***************************************************************************)
(* A step after which nothing is being sent, or the same is.               *)
(***************************************************************************)
LEMMA ReceivedElsewhere ==
    ASSUME DirectInv, FilesInv, ReceivedInv, [Next]_vars, AcknowledgedReceived',
           batch'.step \notin Sending \cup {"visit"} \/ (batch'.step = "visit" /\ ~batch'.success),
           \A a \in Article : batch'.items[a].sent # 0 => Known(a)
    PROVE  ReceivedInv'
<1>1. \A a \in Article : batch'.items[a].sent # 0 => Known(a)'
  BY KnownKept
<1> QED
  BY <1>1 DEF ReceivedInv, Sending

LEMMA ReceivedAt ==
    ASSUME DirectInv, FilesInv, ReceivedInv, [Next]_vars, AcknowledgedReceived',
           batch' \in BatchType, batch'.items = batch.items, batch'.chosen = batch.chosen,
           batch'.success => Known(Current),
           batch'.step \in {"send", "visit"}
             \/ (batch'.step = "record" /\ ~batch'.result)
             \/ (batch'.place = batch.place /\ Reached')
    PROVE  ReceivedInv'
<1>1. Current' = Current
  BY DEF Current
<1>2. \A a \in Article : batch'.items[a].sent # 0 => Known(a)'
  BY KnownKept DEF ReceivedInv
<1>3. batch'.success => Known(Current)'
  <2>1. Known(Current) => Known(Current)'
    <3>1. \A a : Known(a) => (\E d \in Destination : Received(a, d)')
      BY ReceivedKept DEF Known
    <3> QED
      BY <1>1, <3>1 DEF Known
  <2> QED
    BY <2>1
<1>4. /\ batch'.step \in {"markVersion", "markLegacy"} => Reached'
      /\ batch'.step = "record" /\ batch'.result => Reached'
  OBVIOUS
<1> QED
  BY <1>2, <1>3, <1>4 DEF ReceivedInv

LEMMA ReceivedNext == DirectInv /\ FilesInv /\ ReceivedInv /\ [Next]_vars => ReceivedInv'
<1> SUFFICES ASSUME DirectInv, FilesInv, ReceivedInv, [Next]_vars PROVE ReceivedInv'
  OBVIOUS
<1>0. batch \in BatchType /\ BatchInv /\ DirectInv'
  BY DirectNext DEF DirectInv, BatchInv
<1>a. batch' \in BatchType
  BY <1>0 DEF DirectInv, BatchInv
<1>b. ASSUME UNCHANGED <<keys, rows>> PROVE AcknowledgedReceived'
  BY <1>b, AcknowledgedKept DEF ReceivedInv
<1>c. \A a \in Article : batch.items[a].sent # 0 => Known(a)
  BY DEF ReceivedInv
<1>1. CASE Receive
  <2>1. PICK S \in SUBSET Article : \E items \in Listings(S) :
           batch' = [Idle EXCEPT !.step = "filter", !.items = items]
    BY <1>1 DEF Receive
  <2>2. PICK items \in Listings(S) : batch' = [Idle EXCEPT !.step = "filter", !.items = items]
    BY <2>1
  <2>3. \A a \in Article : items[a].sent = 0
    BY ItemTypes
  <2>4. batch'.step = "filter" /\ batch'.items = items
    BY <2>2 DEF Idle
  <2> QED
    BY <1>1, <1>b, <2>3, <2>4, ReceivedElsewhere DEF Receive, ledger, Sending
<1>2. CASE PollSources
  <2>1. batch'.step = "poll" /\ batch'.items = NoItems
    BY <1>2 DEF PollSources, Idle
  <2> QED
    BY <1>2, <1>b, <2>1, ReceivedElsewhere DEF PollSources, ledger, Sending, NoItems, NoRow
<1>3. CASE IngestSource
  <2>1. PICK s \in batch.sources, S \in SUBSET Article : \E items \in Listings(S), reply \in Reply :
           /\ s \in Source /\ Poll(s, reply)
           /\ batch' = [batch EXCEPT
                 !.sources = @ \ {s},
                 !.step = IF batch.sources = {s} THEN "filter" ELSE @,
                 !.items = [a \in Article |-> IF a \in S THEN [items[a] EXCEPT !.upd = 0] ELSE @[a]]]
    BY <1>3, IngestSourceStep
  <2>2. PICK items \in Listings(S) :
           batch' = [batch EXCEPT
                 !.sources = @ \ {s},
                 !.step = IF batch.sources = {s} THEN "filter" ELSE @,
                 !.items = [a \in Article |-> IF a \in S THEN [items[a] EXCEPT !.upd = 0] ELSE @[a]]]
    BY <2>1
  <2>3. items \in [Article -> Row] /\ \A a \in Article : items[a].sent = 0
    BY ItemTypes
  <2>4. batch'.items = [a \in Article |-> IF a \in S THEN [items[a] EXCEPT !.upd = 0] ELSE batch.items[a]]
        /\ batch'.step \in {"filter", "poll"}
    BY <1>0, <1>3, <2>2 DEF BatchType, IngestSource
  <2>5. \A a \in Article : batch'.items[a].sent # 0 => Known(a)
    BY <1>c, <2>3, <2>4 DEF Row
  <2> QED
    BY <1>3, <1>b, <2>4, <2>5, ReceivedElsewhere DEF IngestSource, ledger, Sending
<1>4. CASE Filter
  <2>1. batch'.items = Normalized(batch.items) /\ batch'.step \in {"select", "enrich"}
    BY <1>0, <1>4 DEF Filter, BatchType
  <2>2. \A a \in Article : Normalized(batch.items)[a].sent \in {0, rows[a].sent}
    BY <1>0, NormalizedType DEF BatchType, DirectInv
  <2>3. \A a \in Article : batch'.items[a].sent # 0 => Known(a)
    BY <2>1, <2>2 DEF ReceivedInv, AcknowledgedReceived, Known
  <2> QED
    BY <1>4, <1>b, <2>1, <2>3, ReceivedElsewhere DEF Filter, ledger, Sending
<1>5. CASE Enrich
  <2>1. batch'.items = batch.items /\ batch'.step \in {"select", "enrich"}
    BY <1>0, <1>5 DEF Enrich, BatchType
  <2> QED
    BY <1>5, <1>b, <1>c, <2>1, ReceivedElsewhere DEF Enrich, ledger, Sending
<1>6. ASSUME NEW chosen \in Seq(Article)
      PROVE  Publishing(chosen).step = "save"
             \/ (Publishing(chosen).step = "visit" /\ ~Publishing(chosen).success)
  BY <1>0, PublishingType DEF Publishing, BatchType
<1>7. CASE Select
  <2>1. PICK chosen \in Seq(Article) : batch' \in {Idle, Publishing(chosen)}
    BY <1>7, SelectStep
  <2>2. CASE batch' = Idle
    <3>1. batch'.step = "idle" /\ batch'.items = NoItems
      BY <2>2 DEF Idle
    <3> QED
      BY <1>7, <1>b, <3>1, ReceivedElsewhere DEF Select, ledger, Sending, NoItems, NoRow
  <2>3. CASE batch' = Publishing(chosen)
    <3>1. batch'.items = batch.items
      BY <1>0, <2>3, PublishingType
    <3>2. batch'.step \notin Sending \cup {"visit"} \/ (batch'.step = "visit" /\ ~batch'.success)
      BY <1>6, <2>3 DEF Sending
    <3> QED
      BY <1>7, <1>b, <1>c, <3>1, <3>2, ReceivedElsewhere DEF Select, ledger
  <2> QED
    BY <2>1, <2>2, <2>3
<1>8. CASE Visit
  <2>0. batch.step = "visit" /\ AcknowledgedReceived'
    BY <1>8, <1>b DEF Visit, ledger
  <2>1. CASE Skipped
    <3>1. batch'.items = batch.items /\ batch'.chosen = batch.chosen /\ batch'.step = "visit"
      BY <1>0, <1>8, <2>1 DEF Visit, BatchType
    <3>2. Target \in Destination
      BY <1>0, <1>8, TargetType DEF Visit
    <3>3. Known(Current)
      BY <2>1, <3>2 DEF Skipped, Version, Known, ReceivedInv, AcknowledgedReceived
    <3> QED
      BY <1>a, <2>0, <3>1, <3>3, ReceivedAt
  <2>2. CASE ~Skipped
    <3>1. batch'.items = batch.items /\ batch'.chosen = batch.chosen /\ batch'.step = "send"
          /\ batch'.success = batch.success
      BY <1>0, <1>8, <2>2 DEF Visit, BatchType
    <3> QED
      BY <1>a, <2>0, <3>1, ReceivedAt DEF ReceivedInv
  <2> QED
    BY <2>1, <2>2
<1>9. CASE WriteFile \/ Post \/ FailToSend
  <2>1. batch.step = "send" /\ AcknowledgedReceived'
    BY <1>9, <1>b DEF WriteFile, Post, FailToSend, ledger
  <2>2. PICK ok \in BOOLEAN : batch' = Tried(ok) /\ (FailToSend => ~ok)
    <3>1. CASE FailToSend
      BY <3>1 DEF FailToSend
    <3>2. CASE ~FailToSend
      BY <1>9, <3>2 DEF WriteFile, Post
    <3> QED
      BY <3>1, <3>2
  <2>3. PICK step \in {"send", "record"}, attempt \in 0 .. MaxAttempts, result \in BOOLEAN :
           /\ batch' = [batch EXCEPT !.step = step, !.attempt = attempt, !.result = result]
           /\ step = "record" => result = ok
    BY <1>0, <2>1, <2>2, TriedType
  <2>4. /\ batch'.items = batch.items /\ batch'.chosen = batch.chosen /\ batch'.place = batch.place
        /\ batch'.step = step /\ batch'.result = result /\ batch'.success = batch.success
    BY <1>0, <2>3 DEF BatchType
  <2>5. Current' = Current /\ Target' = Target /\ Version' = Version
    BY <2>4 DEF Current, Target, Version
  <2>6. CASE WriteFile
    <3>1. Current \in Article /\ Target \in FileDestination
      BY <1>0, <2>1, <2>6, CurrentType DEF WriteFile, Sending
    <3>2. Current \in ToSet(written'[Target])
      <4>1. Replace(Target, Current)
        BY <2>6 DEF WriteFile
      <4>2. ToSet(written'[Target]) = ToSet(written[Target]) \cup {Current}
        BY <3>1, <4>1, ReplaceFiles
      <4> QED
        BY <4>2
    <3>3. Reached'
      BY <2>5, <3>1, <3>2 DEF Reached, Received
    <3> QED
      BY <1>a, <2>1, <2>4, <3>3, ReceivedAt DEF ReceivedInv, Sending
  <2>7. CASE Post
    <3>1. Target \notin FileDestination /\ Version \in posts'
      BY <2>7 DEF Post
    <3>2. Reached'
      BY <2>5, <3>1 DEF Reached, Received, Version
    <3> QED
      BY <1>a, <2>1, <2>4, <3>2, ReceivedAt DEF ReceivedInv, Sending
  <2>8. CASE FailToSend
    <3>1. ~ok
      BY <2>2, <2>8
    <3>2. batch'.step = "send" \/ (batch'.step = "record" /\ ~batch'.result)
      BY <2>3, <2>4, <3>1
    <3> QED
      BY <1>a, <2>1, <2>4, <3>2, ReceivedAt DEF ReceivedInv, Sending
  <2> QED
    BY <1>9, <2>6, <2>7, <2>8
<1>10. CASE Record
  <2>1. batch.step = "record" /\ AcknowledgedReceived'
    BY <1>10, <1>b DEF Record
  <2>2. CASE batch.result
    <3>1. PICK step \in {"markLegacy", "markVersion"} :
             batch' = [batch EXCEPT !.attempt = 0, !.result = FALSE, !.success = TRUE, !.step = step]
      BY <1>10, <2>2 DEF Record
    <3>2. batch'.items = batch.items /\ batch'.chosen = batch.chosen /\ batch'.place = batch.place
      BY <1>0, <3>1 DEF BatchType
    <3>3. Reached /\ Target \in Destination
      BY <1>0, <2>1, <2>2, SendingPlace, TargetType DEF ReceivedInv, Sending
    <3>4. Reached'
      <4>1. Current' = Current /\ Target' = Target /\ Version' = Version
        BY <3>2 DEF Current, Target, Version
      <4> QED
        BY <1>10, <3>3, <4>1 DEF Reached, Received, Record, fileVars, channelVars
    <3>5. Known(Current)
      BY <3>3 DEF Known, Reached
    <3> QED
      BY <1>a, <2>1, <3>2, <3>4, <3>5, ReceivedAt
  <2>3. CASE ~batch.result
    <3>1. batch'.items = batch.items /\ batch'.chosen = batch.chosen /\ batch'.step = "visit"
          /\ batch'.success = batch.success
      BY <1>0, <1>10, <2>3 DEF Record, BatchType
    <3> QED
      BY <1>a, <2>1, <3>1, ReceivedAt DEF ReceivedInv, Sending
  <2> QED
    BY <2>2, <2>3
<1>11. CASE MarkVersion
  <2>1. batch.step = "markVersion" /\ batch' = [batch EXCEPT !.step = "markLegacy"]
    BY <1>11 DEF MarkVersion
  <2>2. Reached
    BY <2>1 DEF ReceivedInv
  <2>3. AcknowledgedReceived'
    <3>1. \A key \in keys' \ keys : key = Version
      BY <1>11 DEF MarkVersion
    <3>2. /\ Version[1] = Current /\ Version[2] = Target
      BY DEF Version
    <3> QED
      BY <1>11, <2>2, <3>1, <3>2, AcknowledgedKept DEF ReceivedInv, Reached, MarkVersion
  <2>4. /\ batch'.items = batch.items /\ batch'.chosen = batch.chosen /\ batch'.place = batch.place
        /\ batch'.success = batch.success
    BY <1>0, <2>1 DEF BatchType
  <2>5. Reached'
    <3>1. Current' = Current /\ Target' = Target /\ Version' = Version
      BY <2>4 DEF Current, Target, Version
    <3> QED
      BY <1>11, <2>2, <3>1 DEF Reached, Received, MarkVersion, fileVars
  <2> QED
    BY <1>a, <2>1, <2>3, <2>4, <2>5, ReceivedAt DEF ReceivedInv, Sending
<1>12. CASE MarkLegacy
  <2>1. batch.step = "markLegacy" /\ batch' = [batch EXCEPT !.step = "visit", !.place = @ + 1]
    BY <1>12 DEF MarkLegacy
  <2>2. Reached
    BY <2>1 DEF ReceivedInv
  <2>3. AcknowledgedReceived'
    <3>1. \A key \in keys' \ keys : key = <<Current, Target, 0>>
      BY <1>12 DEF MarkLegacy
    <3> QED
      BY <1>12, <2>2, <3>1, AcknowledgedKept DEF ReceivedInv, Reached, MarkLegacy
  <2>4. /\ batch'.items = batch.items /\ batch'.chosen = batch.chosen /\ batch'.step = "visit"
        /\ batch'.success = batch.success
    BY <1>0, <2>1 DEF BatchType
  <2> QED
    BY <1>a, <2>1, <2>3, <2>4, ReceivedAt DEF ReceivedInv, Sending
<1>13. CASE FinishArticle
  <2>0. batch.step = "visit" /\ UNCHANGED keys
    BY <1>13 DEF FinishArticle, ledger
  <2>1. Current \in Article /\ batch.items[Current] \in Row /\ Tail(batch.chosen) \in Seq(Article)
    BY <1>0, <2>0, CurrentType
  <2> DEFINE b == Publishing(Tail(batch.chosen))
             row == [batch.items[Current] EXCEPT !.sent = now]
  <2>2. b \in BatchType /\ b.items = batch.items /\ b.step \in {"save", "visit"} /\ b.success = FALSE
    BY <1>0, <1>6, <2>1, PublishingType
  <2>3. \/ /\ batch.success /\ rows' = [rows EXCEPT ![Current] = row]
           /\ batch' = [b EXCEPT !.items[Current] = row]
        \/ batch' = b /\ UNCHANGED rows
    BY <1>13 DEF FinishArticle
  <2> HIDE DEF b, row
  <2>4. CASE batch' = b /\ UNCHANGED rows
    BY <1>b, <1>c, <2>0, <2>2, <2>4, ReceivedElsewhere DEF Sending
  <2>5. CASE /\ batch.success /\ rows' = [rows EXCEPT ![Current] = row]
             /\ batch' = [b EXCEPT !.items[Current] = row]
    <3>1. Known(Current)
      BY <2>0, <2>5 DEF ReceivedInv
    <3>2. /\ batch'.items = [batch.items EXCEPT ![Current] = row] /\ batch'.step = b.step
          /\ batch'.success = FALSE
      BY <2>2, <2>5 DEF BatchType
    <3>3. batch.items \in [Article -> Row] /\ rows \in [Article -> Row]
      BY <1>0 DEF BatchType, DirectInv, LedgerInv
    <3>4. \A a \in Article : batch'.items[a].sent # 0 => Known(a)
      BY <1>c, <3>1, <3>2, <3>3
    <3>5. \A a \in Article : rows'[a].sent # 0 => rows[a].sent # 0 \/ Known(a)
      BY <2>5, <3>1, <3>3
    <3>6. AcknowledgedReceived'
      BY <2>0, <3>5, AcknowledgedKept DEF ReceivedInv
    <3> QED
      BY <2>2, <3>2, <3>4, <3>6, ReceivedElsewhere DEF Sending
  <2> QED
    BY <2>3, <2>4, <2>5
<1>14. CASE SaveItem
  <2>1. batch.todo \subseteq Article /\ rows \in [Article -> Row] /\ batch.step = "save"
    BY <1>0, <1>14 DEF BatchType, DirectInv, LedgerInv, SaveItem
  <2>2. PICK a \in batch.todo : /\ rows' = [rows EXCEPT ![a] = batch.items[a]]
                                /\ batch' \in {Idle, [batch EXCEPT !.todo = @ \ {a}]}
    BY <1>14 DEF SaveItem
  <2>3. AcknowledgedReceived'
    <3>1. \A c \in Article : rows'[c].sent # 0 => rows[c].sent # 0 \/ Known(c)
      BY <1>c, <2>1, <2>2
    <3> QED
      BY <1>14, <3>1, AcknowledgedKept DEF ReceivedInv, SaveItem, ledger
  <2>4. batch'.items \in {NoItems, batch.items} /\ batch'.step \in {"idle", "save"}
    <3>1. CASE batch' = Idle
      BY <3>1 DEF Idle
    <3>2. CASE batch' = [batch EXCEPT !.todo = @ \ {a}]
      <4>1. batch'.items = batch.items /\ batch'.step = batch.step
        BY <1>0, <3>2 DEF BatchType
      <4> QED
        BY <2>1, <4>1
    <3> QED
      BY <2>2, <3>1, <3>2
  <2>5. \A c \in Article : batch'.items[c].sent # 0 => Known(c)
    BY <1>c, <2>4 DEF NoItems, NoRow
  <2> QED
    BY <2>3, <2>4, <2>5, ReceivedElsewhere DEF Sending
<1>15. CASE Crash
  <2>1. batch'.step = "idle" /\ batch'.items = NoItems
    BY <1>15 DEF Crash, Idle
  <2>2. keys' \subseteq keys /\ UNCHANGED rows
    BY <1>15 DEF Crash, ledger
  <2>3. AcknowledgedReceived'
    BY <2>2, AcknowledgedKept DEF ReceivedInv
  <2>4. \A a \in Article : batch'.items[a].sent # 0 => Known(a)
    BY <2>1 DEF NoItems, NoRow
  <2> QED
    BY <2>1, <2>3, <2>4, ReceivedElsewhere DEF Sending
<1>16. CASE PassTime \/ UNCHANGED vars
  <2>1. UNCHANGED <<batch, keys, rows, posts, written>>
    BY <1>16 DEF PassTime, vars, fileVars, ledger, channelVars
  <2>2. AcknowledgedReceived'
    BY <1>b, <2>1
  <2>3. Current' = Current /\ Target' = Target /\ Version' = Version
    BY <2>1 DEF Current, Target, Version
  <2>4. \A a, d : Received(a, d)' <=> Received(a, d)
    BY <2>1 DEF Received
  <2>5. Reached => Reached'
    BY <2>1, <2>3, <2>4 DEF Reached
  <2>6. Known(Current) => Known(Current)'
    BY <2>3, <2>4 DEF Known
  <2>7. \A a \in Article : Known(a) => Known(a)'
    BY <2>4 DEF Known
  <2> QED
    BY <2>1, <2>2, <2>5, <2>6, <2>7 DEF ReceivedInv
<1> QED
  BY <1>1, <1>2, <1>3, <1>4, <1>5, <1>7, <1>8, <1>9, <1>10, <1>11, <1>12, <1>13, <1>14, <1>15, <1>16
  DEF Next, Work

(***************************************************************************)
(* No key, no version and no delivery time is written for a destination    *)
(* that received nothing, whatever fails or dies between a post and the    *)
(* commits that account for it.                                            *)
(***************************************************************************)
THEOREM AcknowledgedIsReceived == Spec => []AcknowledgedReceived
<1>1. ReceivedInv => AcknowledgedReceived
  BY DEF ReceivedInv
<1> QED
  BY <1>1, FilesInvariance, ReceivedInit, ReceivedNext, PTL DEF Spec

-----------------------------------------------------------------------------
(***************************************************************************)
(* The articles the history accounts for and those chosen fit the limit.   *)
(***************************************************************************)
Recent ==
    {a \in Article : \E d \in Destination :
        delivered[<<a, d>>] # 0 /\ delivered[<<a, d>>] >= now - Hour}

Accounted == Recent \cup ToSet(batch.chosen)

RateInv == durable => Cardinality(Accounted) <= MaxPerHour

LEMMA AccountedFinite ==
    ASSUME DirectInv
    PROVE  /\ Accounted \subseteq Article
           /\ IsFiniteSet(Accounted) /\ Cardinality(Accounted) \in Nat
<1>1. batch.chosen \in Seq(Article)
  BY DEF DirectInv, BatchInv, BatchType
<1>2. Accounted \subseteq Article
  BY <1>1 DEF Accounted, Recent, ToSet
<1> QED
  BY <1>2, FS_Subset, FS_CardinalityType DEF DirectAssumption

LEMMA FewerAccounted ==
    ASSUME DirectInv, DirectInv', RateInv, durable' = durable, Accounted' \subseteq Accounted
    PROVE  RateInv'
<1>1. Cardinality(Accounted') <= Cardinality(Accounted)
  BY AccountedFinite, FS_Subset
<1>2. Cardinality(Accounted) \in Nat /\ Cardinality(Accounted)' \in Nat
  <2>1. DirectInv' => Cardinality(Accounted)' \in Nat
    <3>1. batch'.chosen \in Seq(Article)
      BY DEF DirectInv, BatchInv, BatchType
    <3>2. Accounted' \subseteq Article
      BY <3>1 DEF Accounted, Recent, ToSet
    <3> QED
      BY <3>2, FS_Subset, FS_CardinalityType DEF DirectAssumption
  <2> QED
    BY <2>1, AccountedFinite
<1> QED
  BY <1>1, <1>2 DEF RateInv, DirectAssumption

LEMMA SameHistory ==
    ASSUME DirectInv, DirectInv', RateInv, UNCHANGED <<durable, delivered, now>>,
           ToSet(batch'.chosen) \subseteq ToSet(batch.chosen)
    PROVE  RateInv'
<1>1. Accounted' \subseteq Accounted
  BY DEF Accounted, Recent
<1> QED
  BY <1>1, FewerAccounted

(***************************************************************************)
(* An article counts at most once for all its records of the window.       *)
(***************************************************************************)
LEMMA RecentWithinRecords ==
    ASSUME DirectInv, durable, NEW t \in Nat, t <= now
    PROVE  /\ PublishedLastHour(t) \in Nat /\ IsFiniteSet(Recent) /\ Cardinality(Recent) \in Nat
           /\ Cardinality(Recent) <= PublishedLastHour(t)
<1> DEFINE J == {j \in DOMAIN delivered : delivered[j] # 0 /\ delivered[j] >= t - Hour}
           K == {j \in J : j[1] \in Recent}
           f == [j \in K |-> j[1]]
<1>1. IsFiniteSet(J) /\ Cardinality(J) \in Nat
  BY DeliveredFinite, FS_Subset, FS_CardinalityType DEF DirectInv
<1>2. PublishedLastHour(t) = Cardinality(J)
  BY DEF PublishedLastHour
<1>3. IsFiniteSet(K) /\ Cardinality(K) \in Nat /\ Cardinality(K) <= Cardinality(J)
  <2> HIDE DEF J
  <2> QED
    BY <1>1, FS_Subset, FS_CardinalityType
<1>4. f \in Surjection(K, Recent)
  <2>1. ASSUME NEW a \in Recent PROVE \E j \in K : j[1] = a
    <3>1. PICK d \in Destination : delivered[<<a, d>>] # 0 /\ delivered[<<a, d>>] >= now - Hour
      BY DEF Recent
    <3>2. <<a, d>> \in DOMAIN delivered /\ delivered[<<a, d>>] \in Nat
      BY DEF Recent, DirectInv, LedgerInv, DirectAssumption
    <3>3. delivered[<<a, d>>] >= t - Hour
      BY <3>1, <3>2 DEF DirectInv, LedgerInv, DirectAssumption
    <3> QED
      BY <3>1, <3>2, <3>3
  <2> QED
    BY <2>1 DEF Surjection
<1> HIDE DEF J, K, f
<1>5. IsFiniteSet(Recent) /\ Cardinality(Recent) <= Cardinality(K)
  BY <1>3, <1>4, FS_Surjection
<1>6. Cardinality(Recent) \in Nat
  BY <1>5, FS_CardinalityType
<1> QED
  BY <1>1, <1>2, <1>3, <1>5, <1>6

LEMMA FewInSequence ==
    ASSUME NEW p \in Seq(Article)
    PROVE  IsFiniteSet(ToSet(p)) /\ Cardinality(ToSet(p)) \in Nat /\ Cardinality(ToSet(p)) <= Len(p)
<1> DEFINE D == 1 .. Len(p)
           f == [k \in D |-> p[k]]
<1>0. Len(p) \in Nat /\ DOMAIN p = D
  OBVIOUS
<1>1. IsFiniteSet(D) /\ Cardinality(D) = Len(p)
  <2>0. 1 \in Int /\ Len(p) \in Int
    BY <1>0
  <2>1. IsFiniteSet(1 .. Len(p)) /\ Cardinality(1 .. Len(p)) = IF 1 > Len(p) THEN 0 ELSE Len(p) - 1 + 1
    BY <2>0, FS_Interval
  <2> QED
    BY <1>0, <2>1
<1> HIDE DEF D
<1>2. f \in Surjection(D, ToSet(p))
  BY <1>0 DEF Surjection, ToSet
<1> HIDE DEF f
<1>3. IsFiniteSet(ToSet(p)) /\ Cardinality(ToSet(p)) <= Cardinality(D)
  BY <1>1, <1>2, FS_Surjection
<1> QED
  BY <1>1, <1>3, FS_CardinalityType

LEMMA SelectRate == ASSUME DirectInv, RateInv, Select, DirectInv' PROVE RateInv'
<1>1. /\ batch.at \in Nat /\ batch.at <= now
      /\ UNCHANGED <<durable, delivered, now>>
  BY SelectStep DEF Select, DirectInv, BatchInv, ledger
<1>2. PICK p \in Seq(Article) : Len(p) <= FreeSlots(batch.at) /\ batch' \in {Idle, Publishing(p)}
  BY SelectStep
<1>3. CASE batch' = Idle
  <2>1. ToSet(batch'.chosen) = {}
    BY <1>3 DEF Idle, ToSet
  <2> QED
    BY <1>1, <2>1, SameHistory
<1>4. CASE batch' = Publishing(p)
  <2>1. batch'.chosen = p
    BY <1>4, PublishingType DEF DirectInv
  <2>2. Accounted' = Recent \cup ToSet(p)
    BY <1>1, <2>1 DEF Accounted, Recent
  <2> SUFFICES ASSUME durable PROVE Cardinality(Recent \cup ToSet(p)) <= MaxPerHour
    BY <1>1, <2>2 DEF RateInv
  <2> DEFINE used == PublishedLastHour(batch.at)
  <2>3. /\ used \in Nat /\ IsFiniteSet(Recent) /\ Cardinality(Recent) \in Nat
        /\ Cardinality(Recent) <= used
    BY <1>1, RecentWithinRecords
  <2>4. FreeSlots(batch.at) = IF used < MaxPerHour THEN MaxPerHour - used ELSE 0
    BY DEF FreeSlots
  <2> HIDE DEF used
  <2>5. /\ IsFiniteSet(ToSet(p)) /\ Cardinality(ToSet(p)) \in Nat
        /\ Cardinality(ToSet(p)) <= Len(p)
    BY FewInSequence
  <2>6. Cardinality(Recent) <= MaxPerHour
    <3>1. Recent \in SUBSET Accounted
      BY DEF Accounted
    <3>2. Cardinality(Recent) <= Cardinality(Accounted) /\ Cardinality(Accounted) \in Nat
      BY <3>1, AccountedFinite, FS_Subset
    <3> QED
      BY <2>3, <3>2 DEF RateInv, DirectAssumption
  <2>7. /\ IsFiniteSet(Recent \cup ToSet(p)) /\ Cardinality(Recent \cup ToSet(p)) \in Nat
        /\ Cardinality(Recent \cup ToSet(p)) <= Cardinality(Recent) + Cardinality(ToSet(p))
    <3>1. IsFiniteSet(Recent \cap ToSet(p)) /\ Cardinality(Recent \cap ToSet(p)) \in Nat
      BY <2>3, FS_Subset, FS_CardinalityType
    <3>2. /\ IsFiniteSet(Recent \cup ToSet(p))
          /\ Cardinality(Recent \cup ToSet(p)) =
               Cardinality(Recent) + Cardinality(ToSet(p)) - Cardinality(Recent \cap ToSet(p))
      BY <2>3, <2>5, FS_Union
    <3>3. Cardinality(Recent \cup ToSet(p)) \in Nat
      BY <3>2, FS_CardinalityType
    <3> QED
      BY <2>3, <2>5, <3>1, <3>2, <3>3
  <2>8. Len(p) \in Nat /\ MaxPerHour \in Nat
    BY DEF DirectAssumption
  <2> QED
    BY <1>2, <2>3, <2>4, <2>5, <2>6, <2>7, <2>8
<1> QED
  BY <1>2, <1>3, <1>4

LEMMA RateNext == DirectInv /\ RateInv /\ [Next]_vars => RateInv'
<1> SUFFICES ASSUME DirectInv, RateInv, [Next]_vars PROVE RateInv'
  OBVIOUS
<1>0. batch \in BatchType /\ BatchInv /\ DirectInv' /\ batch.chosen \in Seq(Article)
  BY DirectNext DEF DirectInv, BatchInv, BatchType
<1>1. CASE Receive
  <2>1. batch'.chosen = <<>>
    BY <1>1 DEF Receive, Idle
  <2> QED
    BY <1>0, <1>1, <2>1, SameHistory DEF Receive, ledger, ToSet
<1>2. CASE PollSources
  <2>1. batch'.chosen = <<>>
    BY <1>2 DEF PollSources, Idle
  <2> QED
    BY <1>0, <1>2, <2>1, SameHistory DEF PollSources, ledger, ToSet
<1>3. CASE IngestSource \/ Filter \/ Enrich \/ Visit \/ MarkVersion \/ MarkLegacy
  <2>1. batch'.chosen = batch.chosen
    BY <1>0, <1>3 DEF IngestSource, Filter, Enrich, Visit, MarkVersion, MarkLegacy, BatchType
  <2> QED
    BY <1>0, <1>3, <2>1, SameHistory
    DEF IngestSource, Filter, Enrich, Visit, MarkVersion, MarkLegacy, ledger
<1>4. CASE Select
  BY <1>0, <1>4, SelectRate
<1>5. CASE WriteFile \/ Post \/ FailToSend
  <2>1. batch.step = "send" /\ UNCHANGED <<durable, delivered, now>>
    BY <1>5 DEF WriteFile, Post, FailToSend, ledger
  <2>2. PICK ok \in BOOLEAN : batch' = Tried(ok)
    BY <1>5 DEF WriteFile, Post, FailToSend
  <2>3. batch'.chosen = batch.chosen
    BY <1>0, <2>2 DEF Tried, BatchType
  <2> QED
    BY <1>0, <2>1, <2>3, SameHistory
<1>6. CASE Record
  <2>1. batch.step = "record" /\ UNCHANGED <<durable, now>>
        /\ \E t : delivered' = [delivered EXCEPT ![<<Current, Target>>] = t]
    BY <1>6 DEF Record
  <2>2. batch'.chosen = batch.chosen
    BY <1>0, <1>6 DEF Record, BatchType
  <2>3. Current \in ToSet(batch.chosen)
    <3>1. batch.chosen # <<>>
      BY <1>0, <2>1, CurrentType DEF Sending
    <3>2. 1 \in DOMAIN batch.chosen /\ Current = batch.chosen[1]
      BY <1>0, <3>1 DEF Current
    <3> QED
      BY <3>2 DEF ToSet
  <2>4. Recent' \subseteq Recent \cup {Current}
    <3>1. delivered \in [Article \X Destination -> 0 .. MaxTime]
      BY DEF DirectInv, LedgerInv
    <3>2. \A a \in Article, d \in Destination : a # Current => delivered'[<<a, d>>] = delivered[<<a, d>>]
      BY <2>1, <3>1
    <3> QED
      BY <2>1, <3>2 DEF Recent
  <2>5. Accounted' \subseteq Accounted
    BY <2>2, <2>3, <2>4 DEF Accounted
  <2> QED
    BY <1>0, <2>1, <2>5, FewerAccounted
<1>7. CASE FinishArticle
  <2>1. batch.step = "visit" /\ UNCHANGED <<durable, delivered, now>>
    BY <1>7 DEF FinishArticle, ledger
  <2> DEFINE b == Publishing(Tail(batch.chosen))
  <2>2. Tail(batch.chosen) \in Seq(Article) /\ batch.chosen # <<>>
    BY <1>0, <2>1, CurrentType
  <2>3. b \in BatchType /\ b.chosen = Tail(batch.chosen)
    BY <1>0, <2>2, PublishingType
  <2>4. \/ batch' = b
        \/ batch' = [b EXCEPT !.items[Current] = [batch.items[Current] EXCEPT !.sent = now]]
    BY <1>7 DEF FinishArticle
  <2> HIDE DEF b
  <2>5. batch'.chosen = Tail(batch.chosen)
    BY <2>3, <2>4 DEF BatchType
  <2>6. ToSet(Tail(batch.chosen)) \subseteq ToSet(batch.chosen)
    <3> DEFINE c == batch.chosen
    <3>1. c \in Seq(Article) /\ c # <<>>
      BY <1>0, <2>2
    <3> HIDE DEF c
    <3>2. \A k \in 1 .. Len(Tail(c)) : Tail(c)[k] = c[k + 1] /\ k + 1 \in 1 .. Len(c)
      BY <3>1
    <3>3. ToSet(Tail(c)) \subseteq ToSet(c)
      BY <3>1, <3>2 DEF ToSet
    <3> QED
      BY <3>3 DEF c
  <2> QED
    BY <1>0, <2>1, <2>5, <2>6, SameHistory
<1>8. CASE SaveItem
  <2>1. batch'.chosen \in {<<>>, batch.chosen}
    BY <1>0, <1>8 DEF SaveItem, Idle, BatchType
  <2>2. ToSet(batch'.chosen) \subseteq ToSet(batch.chosen)
    BY <2>1 DEF ToSet
  <2> QED
    BY <1>0, <1>8, <2>2, SameHistory DEF SaveItem, ledger
<1>9. CASE Crash
  <2>1. batch'.chosen = <<>> /\ UNCHANGED <<durable, now>>
    BY <1>9 DEF Crash, Idle
  <2>2. CASE durable
    BY <1>0, <1>9, <2>1, <2>2, SameHistory DEF Crash, ledger, ToSet
  <2>3. CASE ~durable
    BY <2>1, <2>3 DEF RateInv
  <2> QED
    BY <2>2, <2>3
<1>10. CASE PassTime
  <2>1. UNCHANGED <<durable, delivered, batch>> /\ now' = now + 1
    BY <1>10 DEF PassTime, ledger
  <2>2. Recent' \subseteq Recent
    <3> SUFFICES ASSUME NEW a \in Article, NEW d \in Destination,
                        delivered[<<a, d>>] # 0, delivered[<<a, d>>] >= now' - Hour
                 PROVE  delivered[<<a, d>>] >= now - Hour
      BY <2>1 DEF Recent
    <3>1. delivered[<<a, d>>] \in Nat /\ now \in Nat
      BY DEF DirectInv, LedgerInv, DirectAssumption
    <3> QED
      BY <2>1, <3>1 DEF DirectAssumption
  <2> QED
    BY <1>0, <2>1, <2>2, FewerAccounted DEF Accounted
<1>11. CASE UNCHANGED vars
  BY <1>0, <1>11, SameHistory DEF vars, ledger
<1> QED
  BY <1>1, <1>2, <1>3, <1>4, <1>5, <1>6, <1>7, <1>8, <1>9, <1>10, <1>11 DEF Next, Work

(***************************************************************************)
(* With a history table, no window of the limiter sees more articles       *)
(* delivered than the hourly limit, the batch in progress and crashes in   *)
(* it included.                                                            *)
(***************************************************************************)
THEOREM RecordsKeepTheRate == Spec => []RecordedRate
<1>1. Init => RateInv
  <2> SUFFICES ASSUME Init PROVE RateInv
    OBVIOUS
  <2>1. Accounted = {}
    <3>1. \A a \in Article, d \in Destination : delivered[<<a, d>>] = 0
      BY DEF Init
    <3>2. Recent = {}
      BY <3>1 DEF Recent
    <3>3. ToSet(batch.chosen) = {}
      BY DEF Init, Idle, ToSet
    <3> QED
      BY <3>2, <3>3 DEF Accounted
  <2> QED
    BY <2>1, FS_EmptySet DEF RateInv, DirectAssumption
<1>2. DirectInv /\ RateInv => RecordedRate
  <2> SUFFICES ASSUME DirectInv, RateInv, durable PROVE Cardinality(Recent) <= MaxPerHour
    BY DEF RecordedRate, Recent
  <2>1. Recent \in SUBSET Accounted
    BY DEF Accounted
  <2>2. Cardinality(Recent) <= Cardinality(Accounted) /\ Cardinality(Accounted) \in Nat
        /\ Cardinality(Recent) \in Nat
    BY <2>1, AccountedFinite, FS_Subset, FS_CardinalityType
  <2> QED
    BY <2>2 DEF RateInv, DirectAssumption
<1> QED
  BY <1>1, <1>2, DirectInvariance, RateNext, PTL DEF Spec

-----------------------------------------------------------------------------
(***************************************************************************)
(* What is left of a batch, part by part.                                  *)
(***************************************************************************)
LEMMA Lexicographic ==
    ASSUME NEW r, NEW q, DOMAIN q = 1 .. 7, NEW n \in 1 .. 7, r[n] < q[n],
           \A m \in 1 .. 7 : m < n => r[m] = q[m]
    PROVE  Less(r, q)
BY DEF Less

LEMMA PhaseIs ==
    /\ Phase["idle"] = 0 /\ Phase["save"] = 1 /\ Phase["visit"] = 2 /\ Phase["send"] = 2
    /\ Phase["record"] = 2 /\ Phase["markVersion"] = 2 /\ Phase["markLegacy"] = 2
    /\ Phase["select"] = 3 /\ Phase["enrich"] = 4 /\ Phase["filter"] = 5 /\ Phase["poll"] = 6
BY DEF Phase

LEMMA CommitsLeftIs ==
    /\ CommitsLeft["visit"] = 4 /\ CommitsLeft["send"] = 3 /\ CommitsLeft["record"] = 2
    /\ CommitsLeft["markVersion"] = 1 /\ CommitsLeft["markLegacy"] = 0
BY DEF CommitsLeft

Load(b) == Cardinality(b.sources) + Cardinality(b.todo) + Len(b.chosen)

Commits(b) == IF Phase[b.step] = 2 THEN CommitsLeft[b.step] ELSE 0

LEMMA RemainderIs ==
    /\ DOMAIN Remainder = 1 .. 7
    /\ Remainder[1] = Phase[batch.step] /\ Remainder[2] = Load(batch)
    /\ Remainder[3] = Providers - batch.call.provider
    /\ Remainder[4] = CallAttempts - batch.call.attempt
    /\ Remainder[5] = Len(Publishers) + 1 - batch.place
    /\ Remainder[6] = Commits(batch)
    /\ Remainder[7] = MaxAttempts - batch.attempt
BY DEF Remainder, Load, Commits

LEMMA RemainderIsNext ==
    /\ Remainder'[1] = Phase[batch'.step] /\ Remainder'[2] = Load(batch')
    /\ Remainder'[3] = Providers - batch'.call.provider
    /\ Remainder'[4] = CallAttempts - batch'.call.attempt
    /\ Remainder'[5] = Len(Publishers) + 1 - batch'.place
    /\ Remainder'[6] = Commits(batch')
    /\ Remainder'[7] = MaxAttempts - batch'.attempt
BY DEF Remainder, Load, Commits

LEMMA LaterPhase ==
    ASSUME Phase[batch'.step] < Phase[batch.step]
    PROVE  Less(Remainder', Remainder)
BY Lexicographic, RemainderIs, RemainderIsNext

LEMMA LessLoad ==
    ASSUME batch'.step = batch.step \/ Phase[batch'.step] = Phase[batch.step],
           Load(batch') < Load(batch)
    PROVE  Less(Remainder', Remainder)
<1>1. Remainder'[1] = Remainder[1] /\ Remainder'[2] < Remainder[2]
  BY RemainderIs, RemainderIsNext
<1>2. \A m \in 1 .. 7 : m < 2 => Remainder'[m] = Remainder[m]
  BY <1>1
<1> QED
  BY <1>1, <1>2, Lexicographic, RemainderIs

(***************************************************************************)
(* Within a phase, with the same load: a later provider or call; or, of    *)
(* the publishing, a later destination, commit or attempt.                 *)
(***************************************************************************)
LEMMA LessCalls ==
    ASSUME Phase[batch'.step] = Phase[batch.step], Load(batch') = Load(batch),
           batch.call \in Call, batch'.call \in Call,
           \/ batch'.call.provider > batch.call.provider
           \/ /\ batch'.call.provider = batch.call.provider
              /\ batch'.call.attempt > batch.call.attempt
    PROVE  Less(Remainder', Remainder)
<1>1. /\ batch.call.provider \in Nat /\ batch'.call.provider \in Nat /\ Providers \in Nat
      /\ batch.call.attempt \in Nat /\ batch'.call.attempt \in Nat /\ CallAttempts \in Nat
  BY DEF Call, EnrichmentAssumption
<1>2. /\ Remainder'[1] = Remainder[1] /\ Remainder'[2] = Remainder[2]
      /\ Remainder[3] = Providers - batch.call.provider
      /\ Remainder'[3] = Providers - batch'.call.provider
      /\ Remainder[4] = CallAttempts - batch.call.attempt
      /\ Remainder'[4] = CallAttempts - batch'.call.attempt
  BY RemainderIs, RemainderIsNext
<1>3. CASE batch'.call.provider > batch.call.provider
  <2>1. Remainder'[3] < Remainder[3]
    BY <1>1, <1>2, <1>3
  <2>2. \A m \in 1 .. 7 : m < 3 => Remainder'[m] = Remainder[m]
    BY <1>2
  <2> QED
    BY <2>1, <2>2, Lexicographic, RemainderIs
<1>4. CASE /\ batch'.call.provider = batch.call.provider
           /\ batch'.call.attempt > batch.call.attempt
  <2>1. Remainder'[3] = Remainder[3] /\ Remainder'[4] < Remainder[4]
    BY <1>1, <1>2, <1>4
  <2>2. \A m \in 1 .. 7 : m < 4 => Remainder'[m] = Remainder[m]
    BY <1>2, <2>1
  <2> QED
    BY <2>1, <2>2, Lexicographic, RemainderIs
<1> QED
  BY <1>3, <1>4

LEMMA LessPlaces ==
    ASSUME Phase[batch'.step] = Phase[batch.step], Load(batch') = Load(batch),
           batch'.call = batch.call, batch.place \in Nat, batch'.place = batch.place + 1
    PROVE  Less(Remainder', Remainder)
<1>1. /\ Remainder'[1] = Remainder[1] /\ Remainder'[2] = Remainder[2]
      /\ Remainder'[3] = Remainder[3] /\ Remainder'[4] = Remainder[4]
  BY RemainderIs, RemainderIsNext
<1>2. Remainder'[5] < Remainder[5]
  <2>1. Len(Publishers) \in Nat
    BY DEF DirectAssumption
  <2> QED
    BY <2>1, RemainderIs, RemainderIsNext
<1>3. \A m \in 1 .. 7 : m < 5 => Remainder'[m] = Remainder[m]
  BY <1>1
<1> QED
  BY <1>2, <1>3, Lexicographic, RemainderIs

LEMMA LessCommits ==
    ASSUME Phase[batch'.step] = Phase[batch.step], Load(batch') = Load(batch),
           batch'.call = batch.call, batch'.place = batch.place,
           \/ Commits(batch') < Commits(batch)
           \/ /\ Commits(batch') = Commits(batch)
              /\ batch.attempt \in Nat /\ batch'.attempt = batch.attempt + 1
    PROVE  Less(Remainder', Remainder)
<1>1. /\ Remainder'[1] = Remainder[1] /\ Remainder'[2] = Remainder[2]
      /\ Remainder'[3] = Remainder[3] /\ Remainder'[4] = Remainder[4]
      /\ Remainder'[5] = Remainder[5]
  BY RemainderIs, RemainderIsNext
<1>2. CASE Commits(batch') < Commits(batch)
  <2>1. \A m \in 1 .. 7 : m < 6 => Remainder'[m] = Remainder[m]
    BY <1>1
  <2> QED
    BY <1>2, <2>1, Lexicographic, RemainderIs, RemainderIsNext
<1>3. CASE /\ Commits(batch') = Commits(batch)
           /\ batch.attempt \in Nat /\ batch'.attempt = batch.attempt + 1
  <2>1. Remainder'[6] = Remainder[6] /\ Remainder'[7] < Remainder[7]
    BY <1>3, RemainderIs, RemainderIsNext DEF DirectAssumption
  <2>2. \A m \in 1 .. 7 : m < 7 => Remainder'[m] = Remainder[m]
    BY <1>1, <2>1
  <2> QED
    BY <2>1, <2>2, Lexicographic, RemainderIs
<1> QED
  BY <1>2, <1>3

LEMMA LoadType ==
    ASSUME NEW b \in BatchType
    PROVE  /\ IsFiniteSet(b.sources) /\ Cardinality(b.sources) \in Nat
           /\ IsFiniteSet(b.todo) /\ Cardinality(b.todo) \in Nat /\ Len(b.chosen) \in Nat
<1>1. b.sources \in SUBSET Source /\ b.todo \in SUBSET Article /\ b.chosen \in Seq(Article)
  BY DEF BatchType
<1> QED
  BY <1>1, FS_Subset, FS_CardinalityType DEF DirectAssumption

LEMMA SmallerSet ==
    ASSUME NEW S, IsFiniteSet(S), NEW x \in S
    PROVE  Cardinality(S \ {x}) = Cardinality(S) - 1 /\ Cardinality(S) \in Nat
BY FS_RemoveElement, FS_CardinalityType

LEMMA EnrichAdvances == ASSUME DirectInv, Enrich PROVE Less(Remainder', Remainder)
<1>0. batch \in BatchType /\ batch.step = "enrich" /\ batch.call \in Call /\ Providers # 0
  BY DEF Enrich, DirectInv, BatchInv, BatchType, BatchFits
<1>1. PICK outcome \in CallOutcome, a \in batch.todo :
         LET decided == Decided(batch.call, outcome)
             last == decided /\ batch.todo = {a}
         IN  batch' = [batch EXCEPT
                !.todo = IF decided THEN @ \ {a} ELSE @,
                !.call = IF last THEN NoCall ELSE IF decided THEN FirstCall ELSE NextCall(@, outcome),
                !.step = IF last THEN "select" ELSE @]
  BY DEF Enrich
<1>2. CASE Decided(batch.call, outcome) /\ batch.todo = {a}
  <2>1. batch'.step = "select"
    BY <1>0, <1>1, <1>2 DEF BatchType
  <2> QED
    BY <1>0, <2>1, LaterPhase, PhaseIs
<1>3. CASE Decided(batch.call, outcome) /\ batch.todo # {a}
  <2>1. /\ batch'.step = batch.step /\ batch'.todo = batch.todo \ {a}
        /\ batch'.sources = batch.sources /\ batch'.chosen = batch.chosen
    BY <1>0, <1>1, <1>3 DEF BatchType
  <2>2. Load(batch') < Load(batch)
    <3>1. IsFiniteSet(batch.todo) /\ Cardinality(batch.sources) \in Nat /\ Len(batch.chosen) \in Nat
      BY <1>0, LoadType
    <3>2. Cardinality(batch.todo \ {a}) = Cardinality(batch.todo) - 1 /\ Cardinality(batch.todo) \in Nat
      BY <3>1, SmallerSet
    <3> QED
      BY <2>1, <3>1, <3>2 DEF Load
  <2> QED
    BY <2>1, <2>2, LessLoad
<1>4. CASE ~Decided(batch.call, outcome)
  <2>1. /\ batch'.step = batch.step /\ batch'.todo = batch.todo
        /\ batch'.sources = batch.sources /\ batch'.chosen = batch.chosen
        /\ batch'.call = NextCall(batch.call, outcome)
    BY <1>0, <1>1, <1>4 DEF BatchType
  <2>2. batch'.call \in Call
    BY <1>0, <1>4, <2>1, CallTypes
  <2>3. batch.call.provider \in Nat /\ batch.call.attempt \in Nat
    BY <1>0 DEF Call, EnrichmentAssumption
  <2>4. CASE AskedAgain(batch.call, outcome)
    <3>1. batch'.call = [batch.call EXCEPT !.attempt = @ + 1]
      BY <2>1, <2>4 DEF NextCall
    <3>2. /\ batch'.call.provider = batch.call.provider
          /\ batch'.call.attempt = batch.call.attempt + 1
      BY <1>0, <3>1 DEF Call
    <3>3. batch'.call.attempt > batch.call.attempt
      BY <2>3, <3>2
    <3> QED
      BY <1>0, <2>1, <2>2, <3>2, <3>3, LessCalls DEF Load
  <2>5. CASE ~AskedAgain(batch.call, outcome)
    <3>1. batch'.call.provider = batch.call.provider + 1
      BY <2>1, <2>5 DEF NextCall, FirstCall
    <3>2. batch'.call.provider > batch.call.provider
      BY <2>3, <3>1
    <3> QED
      BY <1>0, <2>1, <2>2, <3>2, LessCalls DEF Load
  <2> QED
    BY <2>4, <2>5
<1> QED
  BY <1>2, <1>3, <1>4

LEMMA IngestAdvances == ASSUME DirectInv, IngestSource PROVE Less(Remainder', Remainder)
<1>0. batch \in BatchType /\ batch.step = "poll"
  BY DEF IngestSource, DirectInv, BatchInv
<1>1. PICK s \in batch.sources :
         /\ batch'.sources = batch.sources \ {s}
         /\ batch'.step = IF batch.sources = {s} THEN "filter" ELSE batch.step
         /\ batch'.todo = batch.todo /\ batch'.chosen = batch.chosen
  BY <1>0 DEF IngestSource, BatchType
<1>2. CASE batch.sources = {s}
  BY <1>0, <1>1, <1>2, LaterPhase, PhaseIs
<1>3. CASE batch.sources # {s}
  <2>1. Load(batch') < Load(batch)
    <3>1. IsFiniteSet(batch.sources) /\ Cardinality(batch.todo) \in Nat /\ Len(batch.chosen) \in Nat
      BY <1>0, LoadType
    <3>2. Cardinality(batch.sources \ {s}) = Cardinality(batch.sources) - 1 /\ Cardinality(batch.sources) \in Nat
      BY <3>1, SmallerSet
    <3> QED
      BY <1>1, <3>1, <3>2 DEF Load
  <2> QED
    BY <1>1, <1>3, <2>1, LessLoad
<1> QED
  BY <1>2, <1>3

LEMMA PublishingAdvances ==
    ASSUME DirectInv, Visit \/ WriteFile \/ Post \/ FailToSend \/ Record \/ MarkVersion \/ MarkLegacy
    PROVE  Less(Remainder', Remainder)
<1>0. batch \in BatchType /\ BatchInv /\ batch.place \in Nat /\ batch.attempt \in Nat
  BY DEF DirectInv, BatchInv, BatchType
<1>1. ASSUME batch.step \in Sending \cup {"visit"}, batch'.step \in Sending \cup {"visit"},
             batch'.sources = batch.sources, batch'.todo = batch.todo,
             batch'.chosen = batch.chosen, batch'.call = batch.call,
             \/ batch'.place = batch.place + 1
             \/ /\ batch'.place = batch.place
                /\ \/ Commits(batch') < Commits(batch)
                   \/ Commits(batch') = Commits(batch) /\ batch'.attempt = batch.attempt + 1
      PROVE  Less(Remainder', Remainder)
  <2>1. Phase[batch'.step] = Phase[batch.step] /\ Load(batch') = Load(batch)
    BY <1>1, PhaseIs DEF Sending, Load
  <2> QED
    BY <1>0, <1>1, <2>1, LessPlaces, LessCommits
<1>2. \A b : /\ b.step = "visit" => Commits(b) = 4
             /\ b.step = "send" => Commits(b) = 3
             /\ b.step = "record" => Commits(b) = 2
             /\ b.step = "markVersion" => Commits(b) = 1
             /\ b.step = "markLegacy" => Commits(b) = 0
  BY PhaseIs, CommitsLeftIs DEF Commits
<1>3. CASE Visit
  <2>1. /\ batch.step = "visit" /\ batch'.sources = batch.sources /\ batch'.todo = batch.todo
        /\ batch'.chosen = batch.chosen /\ batch'.call = batch.call
        /\ \/ batch'.step = "visit" /\ batch'.place = batch.place + 1
           \/ batch'.step = "send" /\ batch'.place = batch.place
    BY <1>0, <1>3 DEF Visit, BatchType
  <2>2. batch'.place = batch.place => Commits(batch') < Commits(batch)
    BY <1>0, <1>2, <2>1
  <2> QED
    BY <1>1, <2>1, <2>2 DEF Sending
<1>4. CASE WriteFile \/ Post \/ FailToSend
  <2>1. PICK ok \in BOOLEAN : batch' = Tried(ok)
    BY <1>4 DEF WriteFile, Post, FailToSend
  <2>2. /\ batch.step = "send" /\ batch'.sources = batch.sources /\ batch'.todo = batch.todo
        /\ batch'.chosen = batch.chosen /\ batch'.call = batch.call /\ batch'.place = batch.place
        /\ \/ batch'.step = "send" /\ batch'.attempt = batch.attempt + 1
           \/ batch'.step = "record"
    BY <1>0, <1>4, <2>1 DEF WriteFile, Post, FailToSend, Tried, BatchType
  <2>3. \/ Commits(batch') < Commits(batch)
        \/ Commits(batch') = Commits(batch) /\ batch'.attempt = batch.attempt + 1
    BY <1>2, <2>2
  <2> QED
    BY <1>1, <2>2, <2>3 DEF Sending
<1>5. CASE Record
  <2>1. /\ batch.step = "record" /\ batch'.sources = batch.sources /\ batch'.todo = batch.todo
        /\ batch'.chosen = batch.chosen /\ batch'.call = batch.call
        /\ \/ batch'.step = "visit" /\ batch'.place = batch.place + 1
           \/ batch'.step \in {"markLegacy", "markVersion"} /\ batch'.place = batch.place
    BY <1>0, <1>5 DEF Record, BatchType
  <2>2. batch'.place = batch.place => Commits(batch') < Commits(batch)
    BY <1>0, <1>2, <2>1
  <2> QED
    BY <1>1, <2>1, <2>2 DEF Sending
<1>6. CASE MarkVersion
  <2>1. /\ batch.step = "markVersion" /\ batch'.step = "markLegacy"
        /\ batch'.sources = batch.sources /\ batch'.todo = batch.todo
        /\ batch'.chosen = batch.chosen /\ batch'.call = batch.call /\ batch'.place = batch.place
    BY <1>0, <1>6 DEF MarkVersion, BatchType
  <2>2. Commits(batch') < Commits(batch)
    BY <1>2, <2>1
  <2> QED
    BY <1>1, <2>1, <2>2 DEF Sending
<1>7. CASE MarkLegacy
  <2>1. /\ batch.step = "markLegacy" /\ batch'.step = "visit"
        /\ batch'.sources = batch.sources /\ batch'.todo = batch.todo
        /\ batch'.chosen = batch.chosen /\ batch'.call = batch.call
        /\ batch'.place = batch.place + 1
    BY <1>0, <1>7 DEF MarkLegacy, BatchType
  <2> QED
    BY <1>1, <2>1 DEF Sending
<1> QED
  BY <1>3, <1>4, <1>5, <1>6, <1>7

LEMMA FinishAdvances == ASSUME DirectInv, FinishArticle PROVE Less(Remainder', Remainder)
<1>0. batch \in BatchType /\ BatchInv /\ batch.step = "visit"
  BY DEF FinishArticle, DirectInv, BatchInv
<1>1. batch.chosen \in Seq(Article) /\ batch.chosen # <<>> /\ Tail(batch.chosen) \in Seq(Article)
  BY <1>0, CurrentType DEF BatchType
<1> DEFINE b == Publishing(Tail(batch.chosen))
<1>2. b \in BatchType /\ b.chosen = Tail(batch.chosen)
  BY <1>0, <1>1, PublishingType
<1>3. \/ b.step = "save"
      \/ b.step = "visit" /\ b.sources = batch.sources /\ b.todo = batch.todo
  BY <1>0 DEF Publishing, BatchType
<1>4. \/ batch' = b
      \/ batch' = [b EXCEPT !.items[Current] = [batch.items[Current] EXCEPT !.sent = now]]
  BY DEF FinishArticle
<1> HIDE DEF b
<1>5. /\ batch'.step = b.step /\ batch'.sources = b.sources /\ batch'.todo = b.todo
      /\ batch'.chosen = b.chosen
  BY <1>2, <1>4 DEF BatchType
<1>6. CASE b.step = "save"
  BY <1>0, <1>5, <1>6, LaterPhase, PhaseIs
<1>7. CASE b.step = "visit" /\ b.sources = batch.sources /\ b.todo = batch.todo
  <2>1. Len(Tail(batch.chosen)) = Len(batch.chosen) - 1
    BY <1>1
  <2>2. Load(batch') < Load(batch)
    BY <1>0, <1>2, <1>5, <1>7, <2>1, LoadType DEF Load
  <2> QED
    BY <1>0, <1>5, <1>7, <2>2, LessLoad
<1> QED
  BY <1>3, <1>6, <1>7

LEMMA SaveAdvances == ASSUME DirectInv, SaveItem PROVE Less(Remainder', Remainder)
<1>0. batch \in BatchType /\ batch.step = "save"
  BY DEF SaveItem, DirectInv, BatchInv
<1>1. PICK a \in batch.todo : batch' = Idle \/ batch' = [batch EXCEPT !.todo = @ \ {a}]
  BY DEF SaveItem
<1>2. CASE batch' = Idle
  BY <1>0, <1>2, LaterPhase, PhaseIs, IdleType
<1>3. CASE batch' = [batch EXCEPT !.todo = @ \ {a}]
  <2>1. /\ batch'.step = batch.step /\ batch'.todo = batch.todo \ {a}
        /\ batch'.sources = batch.sources /\ batch'.chosen = batch.chosen
    BY <1>0, <1>3 DEF BatchType
  <2>2. Load(batch') < Load(batch)
    <3>1. IsFiniteSet(batch.todo) /\ Cardinality(batch.sources) \in Nat /\ Len(batch.chosen) \in Nat
      BY <1>0, LoadType
    <3>2. Cardinality(batch.todo \ {a}) = Cardinality(batch.todo) - 1 /\ Cardinality(batch.todo) \in Nat
      BY <3>1, SmallerSet
    <3> QED
      BY <2>1, <3>1, <3>2 DEF Load
  <2> QED
    BY <2>1, <2>2, LessLoad
<1> QED
  BY <1>1, <1>2, <1>3

(***************************************************************************)
(* Whatever sources, AI providers and publishers answer, and whether or    *)
(* not the process dies, every step of a batch leaves less of it: for any  *)
(* number of each, a batch ends.                                           *)
(***************************************************************************)
THEOREM BatchesAdvance == Spec => BatchAdvances
<1>1. DirectInv /\ [Next]_vars => [batch.step # "idle" /\ now' = now => Less(Remainder', Remainder)]_vars
  <2> SUFFICES ASSUME DirectInv, Next, batch.step # "idle", now' = now
               PROVE  Less(Remainder', Remainder)
    OBVIOUS
  <2>0. batch \in BatchType /\ BatchInv
    BY DEF DirectInv, BatchInv
  <2>1. CASE Filter
    <3>1. batch.step = "filter" /\ batch'.step \in {"select", "enrich"}
      BY <2>0, <2>1 DEF Filter, BatchType
    <3> QED
      BY <3>1, LaterPhase, PhaseIs
  <2>2. CASE Select
    <3>1. PICK chosen \in Seq(Article) : batch' \in {Idle, Publishing(chosen)}
      BY <2>2, SelectStep
    <3>2. batch.step = "select" /\ batch'.step \in {"idle", "save", "visit"}
      BY <2>0, <2>2, <3>1, IdleType DEF Select, Publishing, BatchType
    <3> QED
      BY <3>2, LaterPhase, PhaseIs
  <2>3. CASE Crash
    <3>1. batch'.step = "idle"
      BY <2>3, IdleType DEF Crash
    <3>2. Phase[batch.step] > 0
      BY <2>0, PhaseIs DEF BatchType, BatchStep
    <3> QED
      BY <3>1, <3>2, LaterPhase, PhaseIs
  <2>4. ~PassTime
    BY DEF PassTime, DirectInv, LedgerInv, DirectAssumption
  <2>5. ~Receive /\ ~PollSources
    BY DEF Receive, PollSources
  <2> QED
    BY <2>1, <2>2, <2>3, <2>4, <2>5, IngestAdvances, EnrichAdvances, PublishingAdvances,
       FinishAdvances, SaveAdvances DEF Next, Work
<1> QED
  BY <1>1, DirectInvariance, PTL DEF Spec, BatchAdvances

=============================================================================
