------------------------- MODULE ProcessorPoolProofs -------------------------
(***************************************************************************)
(* The pool, for any number of processes on any backlog: the types and,    *)
(* when every cycle ends before the clock advances, the mutual exclusion   *)
(* of claims, the delivery contract with final acknowledgements, the slots *)
(* and hourly rates of the destinations, and that nothing is posted again. *)
(* Then the loops inside a cycle, for any queue: they give the slots to a  *)
(* fair selection, and to the only one there is.                           *)
(***************************************************************************)
EXTENDS ProcessorPool, ArticleSelection, QueueProcessorProofs,
        FiniteSetTheorems, SequenceTheorems, WellFoundedInduction

LEMMA BacklogType == BacklogInit(Backlog) => StoreTypeOK
<1> SUFFICES ASSUME BacklogInit(Backlog) PROVE StoreTypeOK
  OBVIOUS
<1>1. now \in Nat
  BY BacklogAssumption DEF BacklogAssumption, BacklogInit
<1>2. articles \in [Article -> ArticleRow]
  <2>1. [stored |-> TRUE, ts |-> 1, sent |-> 0] \in ArticleRow
    BY DEF ArticleRow
  <2> QED
    BY <2>1, NoRowType DEF BacklogInit
<1>3. jobs \in [Job -> JobRow]
  <2>1. PICK created \in [Article -> Backlog], queued \in SUBSET Job :
          jobs = [j \in Job |-> IF j \in queued
                               THEN [NoRow EXCEPT !.status = "pending", !.created = created[j[1]]]
                               ELSE NoRow]
    BY DEF BacklogInit
  <2>2. \A j \in Job : created[j[1]] \in Nat
    BY BacklogAssumption DEF BacklogAssumption, Job
  <2>3. \A age \in Nat : [NoRow EXCEPT !.status = "pending", !.created = age] \in JobRow
    BY DEF NoRow, JobRow, Status
  <2> QED
    BY <2>1, <2>2, <2>3, NoRowType
<1> QED
  BY <1>1, <1>2, <1>3 DEF BacklogInit, StoreTypeOK

LEMMA PoolInitKeys == PoolInit => KeysInv
<1> SUFFICES ASSUME PoolInit PROVE KeysInv
  OBVIOUS
<1>1. StoreTypeOK /\ CycleTypeOK
  BY BacklogType, IdleType DEF PoolInit, CycleInit, CycleTypeOK, CycleType
<1>2. WorkingHeld /\ KeyProgress
  BY DEF PoolInit, CycleInit, WorkingHeld, KeyProgress, Working, Idle
<1>3. KeyHasPost
  BY DEF PoolInit, BacklogInit, KeyHasPost
<1>4. AcknowledgedHasKey
  <2>1. \A j \in Job : jobs[j].status \in {"pending", "absent"}
    <3>1. PICK created \in [Article -> Backlog], queued \in SUBSET Job :
            jobs = [j \in Job |-> IF j \in queued
                                 THEN [NoRow EXCEPT !.status = "pending", !.created = created[j[1]]]
                                 ELSE NoRow]
      BY DEF PoolInit, BacklogInit
    <3> QED
      BY <3>1 DEF NoRow
  <2> QED
    BY <2>1 DEF AcknowledgedHasKey
<1> QED
  BY <1>1, <1>2, <1>3, <1>4 DEF KeysInv, CycleInv

LEMMA PoolNextKeys == KeysInv /\ [PoolNext]_poolVars => KeysInv'
<1> SUFFICES ASSUME KeysInv, [PoolNext]_poolVars PROVE KeysInv'
  OBVIOUS
<1>1. CASE PassTime
  BY <1>1, PassTimeKeys
<1>2. ASSUME NEW p \in Process, RecoverLeases(p) PROVE KeysInv'
  BY <1>2, RecoverLeasesKeys
<1>3. ASSUME NEW p \in Process, PublishBatch(p) PROVE KeysInv'
  BY <1>3, PublishBatchKeys
<1>4. ASSUME NEW p \in Process, Die(p) PROVE KeysInv'
  BY <1>4, LoseCycleKeys DEF Die
<1>5. CASE UNCHANGED poolVars
  BY <1>5 DEF poolVars, storeVars, store, channels, KeysInv, CycleInv, StoreTypeOK, CycleTypeOK,
     WorkingHeld, Held, KeyProgress, KeyHasPost, AcknowledgedHasKey
<1> QED
  BY <1>1, <1>2, <1>3, <1>4, <1>5 DEF PoolNext

LEMMA PoolKeys == PoolSpec => []KeysInv
BY PoolInitKeys, PoolNextKeys, PTL DEF PoolSpec

(***************************************************************************)
(* Types hold in a pool of any size.                                       *)
(***************************************************************************)
THEOREM PoolTypeCorrect == PoolSpec => []PoolTypeOK
<1>1. KeysInv => PoolTypeOK
  BY DEF KeysInv, CycleInv, PoolTypeOK
<1> QED
  BY <1>1, PoolKeys, PTL

-----------------------------------------------------------------------------
(***************************************************************************)
(* Mutual exclusion.  LeasesExclude is not inductive: it must be known     *)
(* that the rows a cycle holds are claimed, and their leases running, in   *)
(* the table as well, so that neither recovery nor another selection takes *)
(* them, and that a running cycle reads the current time.                  *)
(***************************************************************************)
Holds ==
    \A p \in Process :
        /\ cycle[p].step \in {"idle", "select"} => Held(cycle[p]) = {}
        /\ cycle[p].step # "idle" => cycle[p].at = now
        /\ \A j \in Held(cycle[p]) : jobs[j].status = "processing" /\ jobs[j].lease > now
        /\ \A q \in Process \ {p} : Held(cycle[p]) \cap Held(cycle[q]) = {}

LEMMA HoldsExcludes == Holds => LeasesExclude
BY DEF Holds, LeasesExclude

LEMMA HoldsInit == PoolInit => Holds
<1> SUFFICES ASSUME PoolInit PROVE Holds
  OBVIOUS
<1>1. \A p \in Process : cycle[p].step = "idle" /\ Held(cycle[p]) = {}
  BY IdleType DEF PoolInit, CycleInit, Idle
<1> QED
  BY <1>1 DEF Holds

(***************************************************************************)
(* A step that only gives up jobs its cycle holds.                         *)
(***************************************************************************)
LEMMA ReleaseKeepsHolds ==
    ASSUME CycleInv, Holds, NEW p \in Process, NEW c,
           cycle' = [cycle EXCEPT ![p] = c],
           Held(c) \subseteq Held(cycle[p]),
           c.step = "idle" => Held(c) = {},
           c.step # "select",
           c.step # "idle" => c.at = now,
           \A j \in Job : jobs'[j] = jobs[j] \/ j \in Held(cycle[p]) \ Held(c),
           UNCHANGED now
    PROVE  Holds'
<1>1. \A q \in Process : cycle'[q] = IF q = p THEN c ELSE cycle[q]
  BY OtherCycles DEF CycleInv
<1>2. \A q \in Process : Held(cycle'[q]) \subseteq Held(cycle[q])
  BY <1>1
<1>3. \A q \in Process : Held(cycle'[q]) \subseteq Job
  BY DEF Held
<1>4. \A q \in Process : \A j \in Held(cycle'[q]) : jobs'[j] = jobs[j]
  <2> SUFFICES ASSUME NEW q \in Process, NEW j \in Held(cycle'[q]) PROVE jobs'[j] = jobs[j]
    OBVIOUS
  <2>1. CASE q = p
    BY <1>1, <1>3, <2>1
  <2>2. CASE q # p
    <3>1. j \in Held(cycle[q]) /\ j \notin Held(cycle[p])
      BY <1>1, <2>2 DEF Holds
    <3> QED
      BY <1>3, <3>1
  <2> QED
    BY <2>1, <2>2
<1>5. ASSUME NEW q \in Process
      PROVE  /\ cycle'[q].step \in {"idle", "select"} => Held(cycle'[q]) = {}
             /\ cycle'[q].step # "idle" => cycle'[q].at = now
             /\ \A j \in Held(cycle'[q]) : jobs'[j].status = "processing" /\ jobs'[j].lease > now
             /\ \A r \in Process \ {q} : Held(cycle'[q]) \cap Held(cycle'[r]) = {}
  <2>1. /\ cycle'[q].step \in {"idle", "select"} => Held(cycle'[q]) = {}
        /\ cycle'[q].step # "idle" => cycle'[q].at = now
    BY <1>1 DEF Holds
  <2>2. \A j \in Held(cycle'[q]) : jobs'[j].status = "processing" /\ jobs'[j].lease > now
    BY <1>2, <1>4 DEF Holds
  <2>3. \A r \in Process \ {q} : Held(cycle'[q]) \cap Held(cycle'[r]) = {}
    BY <1>2 DEF Holds
  <2> QED
    BY <2>1, <2>2, <2>3
<1> QED
  BY <1>5 DEF Holds, Held

LEMMA RecoverKeepsHolds ==
    ASSUME CycleInv, Holds, NEW p \in Process, RecoverLeases(p)
    PROVE  Holds'
<1> DEFINE c == [Idle EXCEPT !.step = "select", !.at = now]
<1>1. Held(c) = {} /\ c.step = "select" /\ c.at = now
  BY IdleType DEF Held, Idle
<1>2. cycle' = [cycle EXCEPT ![p] = c] /\ UNCHANGED now
  BY DEF RecoverLeases
<1> HIDE DEF c
<1>3. \A q \in Process : cycle'[q] = IF q = p THEN c ELSE cycle[q]
  BY <1>2, OtherCycles DEF CycleInv
<1>4. \A q \in Process : \A j \in Held(cycle[q]) : jobs'[j] = jobs[j]
  <2> SUFFICES ASSUME NEW q \in Process, NEW j \in Held(cycle[q]) PROVE jobs'[j] = jobs[j]
    OBVIOUS
  <2>1. j \in Job /\ jobs[j].lease > now
    BY DEF Holds, Held
  <2>2. jobs[j].lease \in Nat /\ now \in Nat
    BY <2>1 DEF CycleInv, StoreTypeOK, JobRow
  <2>3. j \notin Stale(now)
    BY <2>1, <2>2 DEF Stale
  <2> QED
    BY <2>1, <2>3 DEF RecoverLeases, RecoverExpiredLeases
<1> QED
  BY <1>1, <1>2, <1>3, <1>4 DEF Holds

LEMMA SelectKeepsHolds ==
    ASSUME CycleInv, Holds, NEW p \in Process, SelectBatch(p)
    PROVE  Holds'
<1>1. PICK S \in SUBSET Candidates(cycle[p].at) :
        LET t == cycle[p].at
            claimed == Batch(S, t)
        IN  /\ jobs' = [j \in Job |-> IF j \in claimed THEN Claimed(jobs[j], t) ELSE jobs[j]]
            /\ cycle' = [cycle EXCEPT ![p] =
                  IF claimed = {} THEN Idle
                  ELSE [@ EXCEPT !.step = "load",
                                 !.batch = [j \in Job |-> IF j \in claimed
                                                          THEN Claimed(jobs[j], t)
                                                          ELSE NoRow]]]
  BY DEF SelectBatch
<1> DEFINE claimed == Batch(S, now)
           batch == [j \in Job |-> IF j \in claimed THEN Claimed(jobs[j], now) ELSE NoRow]
           c == IF claimed = {} THEN Idle ELSE [cycle[p] EXCEPT !.step = "load", !.batch = batch]
<1>2. cycle[p].at = now /\ now' = now /\ now \in Nat
  BY DEF SelectBatch, Holds, CycleInv, StoreTypeOK
<1>3. /\ jobs' = [j \in Job |-> IF j \in claimed THEN Claimed(jobs[j], now) ELSE jobs[j]]
      /\ cycle' = [cycle EXCEPT ![p] = c]
  BY <1>1, <1>2 DEF CycleInv, CycleTypeOK
<1>4. \A j \in claimed : j \in Job /\ jobs[j].status \in {"pending", "retrying"}
  BY DEF Batch, Eligible
<1>5. \A j \in Job : /\ Claimed(jobs[j], now).status = "processing"
                     /\ Claimed(jobs[j], now).lease > now
  <2>1. now + Lease > now
    BY <1>2, StoreAssumption DEF StoreAssumption
  <2>2. \A j \in Job : jobs[j] \in JobRow
    BY DEF CycleInv, StoreTypeOK
  <2> QED
    BY <2>1, <2>2 DEF Claimed, JobRow
<1> HIDE DEF claimed
<1>6. /\ Held(c) = claimed
      /\ c.step = "idle" => claimed = {}
      /\ c.step \in {"idle", "load"} /\ (c.step = "load" => c.at = now)
  <2>1. CASE claimed = {}
    BY <2>1, IdleType DEF Idle
  <2>2. CASE claimed # {}
    <3>1. cycle[p] \in CycleType
      BY CycleOfType DEF CycleInv
    <3>2. c.batch = batch /\ c.step = "load" /\ c.at = now
      BY <1>2, <2>2, <3>1 DEF CycleType
    <3>3. \A j \in Job : batch[j].status # "absent" <=> j \in claimed
      BY <1>5 DEF NoRow
    <3> HIDE DEF batch, c
    <3>4. Held(c) = claimed
      BY <1>4, <3>2, <3>3 DEF Held
    <3> QED
      BY <2>2, <3>2, <3>4
  <2> QED
    BY <2>1, <2>2
<1> HIDE DEF c
<1>7. \A q \in Process : cycle'[q] = IF q = p THEN c ELSE cycle[q]
  BY <1>3, OtherCycles DEF CycleInv
<1>8. \A q \in Process : Held(cycle[q]) \cap claimed = {}
  BY <1>4 DEF Holds
<1>9. \A q \in Process \ {p} : \A j \in Held(cycle[q]) :
        jobs'[j].status = "processing" /\ jobs'[j].lease > now
  BY <1>3, <1>8 DEF Holds, Held
<1>10. \A j \in claimed : jobs'[j].status = "processing" /\ jobs'[j].lease > now
  BY <1>3, <1>4, <1>5
<1>11. ASSUME NEW q \in Process
       PROVE  /\ cycle'[q].step \in {"idle", "select"} => Held(cycle'[q]) = {}
              /\ cycle'[q].step # "idle" => cycle'[q].at = now
              /\ \A j \in Held(cycle'[q]) : jobs'[j].status = "processing" /\ jobs'[j].lease > now
              /\ \A r \in Process \ {q} : Held(cycle'[q]) \cap Held(cycle'[r]) = {}
  <2>1. CASE q = p
    BY <1>6, <1>7, <1>8, <1>10, <2>1
  <2>2. CASE q # p
    BY <1>6, <1>7, <1>8, <1>9, <2>2 DEF Holds
  <2> QED
    BY <2>1, <2>2
<1> QED
  BY <1>2, <1>11 DEF Holds, Held

(***************************************************************************)
(* Saving one row touches no other.                                        *)
(***************************************************************************)
LEMMA SaveTouchesOne ==
    ASSUME CycleInv, NEW j \in Job, NEW row, SaveJob(j, row)
    PROVE  \A k \in Job \ {j} : jobs'[k] = jobs[k]
BY DEF SaveJob, CycleInv, StoreTypeOK

LEMMA RemainingKeepsHolds ==
    ASSUME CycleInv, Holds, NEW p \in Process, NEW j \in Held(cycle[p]), NEW row,
           cycle[p].step # "idle", SaveJob(j, row),
           cycle' = [cycle EXCEPT ![p] = Remaining(cycle[p], j)],
           UNCHANGED now
    PROVE  Holds'
<1> DEFINE c == Remaining(cycle[p], j)
<1>1. cycle[p] \in CycleType /\ j \in Job
  BY CycleOfType DEF CycleInv
<1>2. /\ c.step \in {"idle", "load"} /\ Held(c) = Held(cycle[p]) \ {j}
      /\ c.step = "idle" => Held(c) = {}
      /\ c.step # "idle" => c.at = now
  BY <1>1, RemainingType DEF Holds
<1>3. \A k \in Job : jobs'[k] = jobs[k] \/ k \in Held(cycle[p]) \ Held(c)
  BY <1>1, <1>2, SaveTouchesOne
<1> HIDE DEF c
<1>4. cycle' = [cycle EXCEPT ![p] = c]
  BY DEF c
<1> QED
  BY <1>2, <1>3, <1>4, ReleaseKeepsHolds

(***************************************************************************)
(* A step that goes on with the batch and leaves the queue alone.          *)
(***************************************************************************)
LEMMA ContinueKeepsHolds ==
    ASSUME CycleInv, Holds, NEW p \in Process, NEW c \in CycleType,
           cycle[p].step \notin {"idle", "select"}, c.step \notin {"idle", "select"},
           cycle' = [cycle EXCEPT ![p] = c],
           c.batch = cycle[p].batch, c.at = cycle[p].at,
           UNCHANGED <<jobs, now>>
    PROVE  Holds'
<1>1. Held(c) = Held(cycle[p])
  BY DEF Held
<1>2. c.at = now
  BY DEF Holds
<1> QED
  BY <1>1, <1>2, ReleaseKeepsHolds

LEMMA LoadKeepsHolds ==
    ASSUME CycleInv, Holds, NEW p \in Process, LoadArticle(p)
    PROVE  Holds'
<1>1. PICK j \in Heads(cycle[p]) :
        LET article == articles[j[1]]
            skip == AlreadyDelivered(j, article.ts)
        IN  IF ~article.stored \/ j[2] \notin Publisher
            THEN /\ SaveJob(j, DeadLetter(cycle[p].batch[j]))
                 /\ cycle' = [cycle EXCEPT ![p] = Remaining(@, j)]
            ELSE /\ cycle' = [cycle EXCEPT ![p].job = j,
                                           ![p].article = article,
                                           ![p].success = skip,
                                           ![p].step = IF skip THEN "record" ELSE "send"]
                 /\ UNCHANGED jobs
  BY DEF LoadArticle
<1>2. cycle[p].step = "load" /\ now' = now
  BY DEF LoadArticle
<1>3. j \in Held(cycle[p]) /\ j \in Job /\ cycle[p] \in CycleType
  BY CycleOfType DEF Heads, CycleInv
<1>4. CASE ~articles[j[1]].stored \/ j[2] \notin Publisher
  <2>1. cycle' = [cycle EXCEPT ![p] = Remaining(cycle[p], j)]
    BY <1>1, <1>4 DEF CycleInv, CycleTypeOK
  <2> QED
    BY <1>1, <1>2, <1>3, <1>4, <2>1, RemainingKeepsHolds
<1>5. CASE ~(~articles[j[1]].stored \/ j[2] \notin Publisher)
  <2> DEFINE skip == AlreadyDelivered(j, articles[j[1]].ts)
             c == [cycle[p] EXCEPT !.job = j, !.article = articles[j[1]], !.success = skip,
                                   !.step = IF skip THEN "record" ELSE "send"]
  <2>1. skip \in BOOLEAN /\ articles[j[1]] \in ArticleRow
    BY <1>3 DEF AlreadyDelivered, CycleInv, StoreTypeOK, Job
  <2>2. cycle' = [cycle EXCEPT ![p] = c] /\ UNCHANGED jobs
    BY <1>1, <1>5 DEF CycleInv, CycleTypeOK
  <2> HIDE DEF skip
  <2>3. /\ c \in CycleType /\ c.batch = cycle[p].batch /\ c.at = cycle[p].at
        /\ c.step \notin {"idle", "select"}
    BY <1>3, <2>1 DEF CycleType, CycleStep
  <2> HIDE DEF c
  <2> QED
    BY <1>2, <2>2, <2>3, ContinueKeepsHolds
<1> QED
  BY <1>4, <1>5

LEMMA PublishKeepsHolds ==
    ASSUME CycleInv, Holds, NEW p \in Process,
           Send(p) \/ Record(p) \/ MarkLegacy(p) \/ MarkVersion(p) \/ SaveArticle(p)
    PROVE  Holds'
<1>1. PICK s \in Working, b \in BOOLEAN :
        cycle' = [cycle EXCEPT ![p] = [cycle[p] EXCEPT !.step = s, !.success = b]]
  <2>1. CASE Send(p)
    <3>1. PICK outcome \in Outcome :
            cycle' = [cycle EXCEPT ![p].success = (outcome = "ok"), ![p].step = "record"]
      BY <2>1 DEF Send
    <3>2. cycle' = [cycle EXCEPT ![p] = [cycle[p] EXCEPT !.step = "record", !.success = (outcome = "ok")]]
      BY <3>1 DEF CycleInv, CycleTypeOK
    <3>3. "record" \in Working /\ (outcome = "ok") \in BOOLEAN
      BY DEF Working
    <3> QED
      BY <3>2, <3>3
  <2>2. CASE ~Send(p)
    <3>1. PICK s \in Working : cycle' = [cycle EXCEPT ![p].step = s]
      BY <2>2 DEF Record, MarkLegacy, MarkVersion, SaveArticle, Working
    <3>2. cycle' = [cycle EXCEPT ![p] = [cycle[p] EXCEPT !.step = s, !.success = cycle[p].success]]
      BY <3>1 DEF CycleInv, CycleTypeOK
    <3>3. cycle[p].success \in BOOLEAN
      BY CycleOfType DEF CycleInv, CycleType
    <3> QED
      BY <3>2, <3>3
  <2> QED
    BY <2>1, <2>2
<1> DEFINE c == [cycle[p] EXCEPT !.step = s, !.success = b]
<1>2. cycle[p] \in CycleType
  BY CycleOfType DEF CycleInv
<1>3. /\ c \in CycleType /\ c.batch = cycle[p].batch /\ c.at = cycle[p].at
      /\ c.step \notin {"idle", "select"}
  BY <1>2 DEF CycleType, CycleStep, Working
<1>4. cycle[p].step \notin {"idle", "select"} /\ UNCHANGED <<jobs, now>>
  BY DEF Send, Record, MarkLegacy, MarkVersion, SaveArticle, store
<1>5. cycle' = [cycle EXCEPT ![p] = c]
  BY <1>1
<1> HIDE DEF c
<1> QED
  BY <1>3, <1>4, <1>5, ContinueKeepsHolds

LEMMA FinishKeepsHolds ==
    ASSUME CycleInv, Holds, NEW p \in Process, FinishJob(p)
    PROVE  Holds'
<1> DEFINE j == cycle[p].job
           row == cycle[p].batch[j]
           saved == IF cycle[p].success THEN Succeeded(row) ELSE Failed(row, cycle[p].at)
<1>1. SaveJob(j, saved) /\ cycle' = [cycle EXCEPT ![p] = Remaining(cycle[p], j)]
  BY DEF FinishJob, CycleInv, CycleTypeOK
<1>2. j \in Held(cycle[p]) /\ cycle[p].step # "idle" /\ now' = now
  BY DEF FinishJob, CycleInv, WorkingHeld, Working
<1> HIDE DEF j, saved
<1> QED
  BY <1>1, <1>2, RemainingKeepsHolds

LEMMA DieKeepsHolds ==
    ASSUME CycleInv, Holds, NEW p \in Process, Die(p)
    PROVE  Holds'
<1>1. /\ cycle' = [cycle EXCEPT ![p] = Idle] /\ UNCHANGED <<jobs, now>>
      /\ Idle.step = "idle" /\ Held(Idle) = {}
  BY IdleType DEF Die, LoseCycle, storeVars, store, Idle
<1> QED
  BY <1>1, ReleaseKeepsHolds

LEMMA PoolNextHolds ==
    ASSUME Prompt, KeysInv, Holds, [PoolNext]_poolVars
    PROVE  Holds'
<1> USE DEF KeysInv
<1>1. CASE PassTime
  <2>1. \A p \in Process : cycle[p].step = "idle"
    BY <1>1 DEF PassTime
  <2>2. \A p \in Process : Held(cycle[p]) = {}
    BY <2>1 DEF Holds
  <2> QED
    BY <1>1, <2>1, <2>2 DEF Holds, Held, PassTime
<1>2. ASSUME NEW p \in Process, RecoverLeases(p) PROVE Holds'
  BY <1>2, RecoverKeepsHolds
<1>3. ASSUME NEW p \in Process, PublishBatch(p) PROVE Holds'
  BY <1>3, SelectKeepsHolds, LoadKeepsHolds, PublishKeepsHolds, FinishKeepsHolds DEF PublishBatch
<1>4. ASSUME NEW p \in Process, Die(p) PROVE Holds'
  BY <1>4, DieKeepsHolds
<1>5. CASE UNCHANGED poolVars
  BY <1>5 DEF poolVars, storeVars, store, Holds, Held
<1> QED
  BY <1>1, <1>2, <1>3, <1>4, <1>5 DEF PoolNext

(***************************************************************************)
(* Claims exclude each other in a pool of any size, whatever dies and      *)
(* whatever is recovered, provided that every cycle ends before the clock  *)
(* advances: no job is ever in the hands of two running cycles.            *)
(***************************************************************************)
THEOREM ClaimsAreExclusive ==
    ASSUME Prompt
    PROVE  PoolSpec => []LeasesExclude
<1>1. KeysInv /\ Holds /\ [PoolNext]_poolVars => Holds'
  BY PoolNextHolds
<1> QED
  BY <1>1, PoolKeys, HoldsInit, HoldsExcludes, PTL DEF PoolSpec

-----------------------------------------------------------------------------
(***************************************************************************)
(* Versions.  Exclusion keeps the cycles apart, and the lemmas on versions *)
(* of QueueProcessorProofs apply to each step.                             *)
(***************************************************************************)
LEMMA HoldsApart == Holds => Apart
BY DEF Holds, Apart

LEMMA PoolHolds == ASSUME Prompt PROVE PoolSpec => [](KeysInv /\ Holds)
<1>1. KeysInv /\ Holds /\ [PoolNext]_poolVars => KeysInv' /\ Holds'
  BY PoolNextKeys, PoolNextHolds
<1> QED
  BY <1>1, PoolInitKeys, HoldsInit, PTL DEF PoolSpec

LEMMA InitVersions == PoolInit => VersionsInv
BY DEF PoolInit, BacklogInit, CycleInit, Idle, VersionsInv, UnmarkedSends, PostsMarked, NoReposts

LEMMA NextUnmarked ==
    ASSUME KeysInv, Holds, UnmarkedSends, [PoolNext]_poolVars
    PROVE  UnmarkedSends'
<1>1. ASSUME NEW p \in Process, RecoverLeases(p) \/ PublishBatch(p) PROVE UnmarkedSends'
  BY <1>1, CycleUnmarked, HoldsApart DEF KeysInv
<1>2. ASSUME NEW p \in Process, Die(p) PROVE UnmarkedSends'
  <2>1. \A q \in Process : cycle'[q] = IF q = p THEN Idle ELSE cycle[q]
    BY <1>2, OtherCycles DEF KeysInv, CycleInv, Die, LoseCycle
  <2> QED
    BY <1>2, <2>1 DEF Die, UnmarkedSends, Idle, storeVars, store
<1>3. CASE PassTime \/ UNCHANGED poolVars
  BY <1>3 DEF PassTime, Tick, poolVars, storeVars, store, UnmarkedSends
<1> QED
  BY <1>1, <1>2, <1>3 DEF PoolNext

LEMMA NextVersions ==
    ASSUME ~Crashes, "lost_reply" \notin Outcome, KeysInv, Holds, VersionsInv, [PoolNext]_poolVars
    PROVE  VersionsInv'
<1>1. ASSUME NEW p \in Process, RecoverLeases(p) \/ PublishBatch(p) PROVE VersionsInv'
  BY <1>1, CycleVersions, HoldsApart DEF KeysInv
<1>2. ASSUME NEW p \in Process, Die(p) PROVE FALSE
  BY <1>2 DEF Die, LoseCycle
<1>3. CASE PassTime \/ UNCHANGED poolVars
  BY <1>3 DEF PassTime, Tick, poolVars, storeVars, store, channels, VersionsInv, UnmarkedSends,
     PostsMarked, Delivering, NoReposts
<1> QED
  BY <1>1, <1>2, <1>3 DEF PoolNext

(***************************************************************************)
(* If cycles end before the clock advances, nobody dies and every reply    *)
(* arrives, no version reaches a destination twice, whatever is rejected,  *)
(* retried and recovered by any number of processes.                       *)
(***************************************************************************)
THEOREM PoolPostsOnce ==
    ASSUME Prompt, ~Crashes, "lost_reply" \notin Outcome
    PROVE  PoolSpec => []NoReposts
<1>1. KeysInv /\ Holds /\ VersionsInv /\ [PoolNext]_poolVars => VersionsInv'
  BY NextVersions
<1>2. VersionsInv => NoReposts
  BY DEF VersionsInv
<1> QED
  BY <1>1, <1>2, PoolHolds, InitVersions, PTL DEF PoolSpec

(***************************************************************************)
(* A version whose key is marked is never posted again in a pool of any    *)
(* size, deaths and lost replies included, if cycles end before the clock  *)
(* advances.                                                               *)
(***************************************************************************)
THEOREM PoolKeysHold == ASSUME Prompt PROVE PoolSpec => MarkedNeverReposted
<1>1. PoolInit => UnmarkedSends
  BY InitVersions DEF VersionsInv
<1>2. KeysInv /\ Holds /\ UnmarkedSends /\ [PoolNext]_poolVars => UnmarkedSends'
  BY NextUnmarked
<1>3. ASSUME KeysInv, UnmarkedSends, [PoolNext]_poolVars
      PROVE  [((posts' \ posts) \cup (reposts' \ reposts)) \cap versionKeys = {}]_<<storeVars, cycle>>
  <2>1. ASSUME NEW p \in Process, RecoverLeases(p) \/ PublishBatch(p)
        PROVE  ((posts' \ posts) \cup (reposts' \ reposts)) \cap versionKeys = {}
    BY <1>3, <2>1, MarkedStay DEF KeysInv
  <2>2. ASSUME \/ PassTime \/ UNCHANGED poolVars \/ \E p \in Process : Die(p)
        PROVE  ((posts' \ posts) \cup (reposts' \ reposts)) \cap versionKeys = {}
    BY <2>2 DEF PassTime, Tick, Die, poolVars, storeVars, channels
  <2> QED
    BY <1>3, <2>1, <2>2 DEF PoolNext
<1> QED
  BY <1>1, <1>2, <1>3, PoolHolds, PTL DEF PoolSpec, MarkedNeverReposted

-----------------------------------------------------------------------------
(***************************************************************************)
(* The contract.  Exclusion is what it needs: a job that a cycle holds is  *)
(* claimed in the table, so nobody else has acknowledged it.               *)
(***************************************************************************)
BacklogDates == {0, 1}

LEMMA InitContract == PoolInit => DatedBy(BacklogDates) /\ Contract!ContractInit
<1> SUFFICES ASSUME PoolInit PROVE DatedBy(BacklogDates) /\ Contract!ContractInit
  OBVIOUS
<1> USE DEF PoolInit, BacklogInit
<1>1. \A a \in Article : articles[a].ts \in BacklogDates
  <2>1. NoArticle.ts = 0 /\ [stored |-> TRUE, ts |-> 1, sent |-> 0].ts = 1
    BY DEF NoArticle
  <2> QED
    BY <2>1 DEF BacklogDates
<1>2. \A p \in Process : cycle[p].step \notin Working
  BY DEF CycleInit, Idle, Working
<1>3. \A j \in Job : jobs[j].status # "succeeded"
  <2>1. PICK created \in [Article -> Backlog], queued \in SUBSET Job :
          jobs = [j \in Job |-> IF j \in queued
                               THEN [NoRow EXCEPT !.status = "pending", !.created = created[j[1]]]
                               ELSE NoRow]
    OBVIOUS
  <2>2. \A t : [NoRow EXCEPT !.status = "pending", !.created = t].status = "pending"
    BY DEF NoRow
  <2> QED
    BY <2>1, <2>2 DEF NoRow
<1>4. posts = {} /\ legacyKeys = {}
  OBVIOUS
<1> QED
  BY <1>1, <1>2, <1>3, <1>4 DEF DatedBy, Contract!ContractInit

LEMMA NextDated ==
    ASSUME KeysInv, DatedBy(BacklogDates), [PoolNext]_poolVars
    PROVE  DatedBy(BacklogDates)'
<1>1. ASSUME NEW p \in Process, RecoverLeases(p) \/ PublishBatch(p)
      PROVE  DatedBy(BacklogDates)'
  BY <1>1, CycleDated DEF KeysInv
<1>2. ASSUME NEW p \in Process, Die(p)
      PROVE  DatedBy(BacklogDates)'
  <2>1. \A q \in Process : cycle'[q] = IF q = p THEN Idle ELSE cycle[q]
    BY <1>2, OtherCycles DEF KeysInv, CycleInv, Die, LoseCycle
  <2> QED
    BY <1>2, <2>1 DEF Die, DatedBy, Idle, Working, storeVars, store
<1>3. CASE PassTime \/ UNCHANGED poolVars
  BY <1>3 DEF PassTime, Tick, poolVars, storeVars, store, DatedBy
<1> QED
  BY <1>1, <1>2, <1>3 DEF PoolNext

LEMMA NextFinal ==
    ASSUME KeysInv, Holds, DatedBy(BacklogDates), [PoolNext]_poolVars
    PROVE  [Contract!FinalNext]_Contract!contractVars
<1>1. ASSUME NEW p \in Process, RecoverLeases(p) \/ PublishBatch(p)
      PROVE  [Contract!FinalNext]_Contract!contractVars
  <2>1. \A j \in Held(cycle[p]) : jobs[j].status = "processing"
    BY DEF Holds
  <2>2. Delivers(BacklogDates)
    BY <1>1, <2>1, CycleDelivers
  <2> QED
    BY <2>2 DEF Delivers, Acked, BacklogDates, Contract!FinalNext, Contract!Deliver, Contract!Vouch,
       Contract!Acknowledge, Contract!contractVars
<1>2. CASE PassTime \/ (\E p \in Process : Die(p)) \/ UNCHANGED poolVars
  BY <1>2 DEF PassTime, Tick, Die, poolVars, storeVars, store, channels, Contract!contractVars
<1> QED
  BY <1>1, <1>2 DEF PoolNext

(***************************************************************************)
(* Refinement: any number of processes whose cycles end before the clock   *)
(* advances deliver as one.  Wherever they die and whatever replies they   *)
(* lose, a job is acknowledged after its key, its key is marked after a    *)
(* post, and an acknowledged job is never posted or queued again.          *)
(***************************************************************************)
THEOREM PoolImplementsContract == ASSUME Prompt PROVE PoolSpec => ImplementsFinalContract
<1>1. KeysInv /\ Holds /\ DatedBy(BacklogDates) /\ [PoolNext]_poolVars
        => DatedBy(BacklogDates)' /\ [Contract!FinalNext]_Contract!contractVars
  BY NextDated, NextFinal
<1> QED
  BY <1>1, PoolHolds, InitContract, PTL DEF PoolSpec, ImplementsFinalContract, Contract!FinalSpec

-----------------------------------------------------------------------------
(***************************************************************************)
(* Limits.  The rows a cycle holds are live claims, so what is reserved is *)
(* what the queries count.  Only a selection adds to it, and it adds no    *)
(* more than the limits leave.                                             *)
(***************************************************************************)
OfSource(S, s) == {a \in S : SourceOf[a] = s}

Fits(S) ==
    /\ Cardinality(S) <= MaxGlobal
    /\ \A s \in Source : Cardinality(OfSource(S, s)) <= MaxSource

(***************************************************************************)
(* What counts against a source is counted only while its article is       *)
(* stored, which it is when it was delivered.                              *)
(***************************************************************************)
RecordedStored ==
    /\ \A j \in Job : delivered[j] # 0 => articles[j[1]].stored
    /\ \A p \in Process : cycle[p].step \in Working =>
          cycle[p].article.stored /\ articles[cycle[p].job[1]].stored

LimitsInv == Fits(Consumed(now)) /\ RecordedStored

LEMMA HeldLive == StoreTypeOK /\ Holds => \A p \in Process : Held(cycle[p]) \subseteq LiveClaims(now)
<1> SUFFICES ASSUME StoreTypeOK, Holds, NEW p \in Process, NEW j \in Held(cycle[p])
             PROVE  j \in LiveClaims(now)
  OBVIOUS
<1>1. j \in Job /\ jobs[j].status = "processing" /\ jobs[j].lease > now
  BY DEF Holds, Held
<1>2. jobs[j].lease \in Nat /\ now \in Nat
  BY <1>1 DEF StoreTypeOK, JobRow
<1> QED
  BY <1>1, <1>2 DEF LiveClaims

LEMMA ReservedConsumed == StoreTypeOK /\ Holds => Reserved = Consumed(now)
BY HeldLive DEF Reserved, Consumed

LEMMA LimitsFit == StoreTypeOK /\ Holds /\ Fits(Consumed(now)) => SlotsWithinLimits
BY ReservedConsumed DEF SlotsWithinLimits, Fits, OfSource

LEMMA ConsumedArticles == Consumed(now) \subseteq Article
BY DEF Consumed, RecentSuccesses, LiveClaims, Job

LEMMA SmallerFits ==
    ASSUME NEW S, IsFiniteSet(S), NEW T \in SUBSET S, Fits(S)
    PROVE  Fits(T)
<1>1. Cardinality(T) <= MaxGlobal
  <2>1. IsFiniteSet(T) /\ Cardinality(T) <= Cardinality(S)
    BY FS_Subset
  <2>2. Cardinality(T) \in Nat /\ Cardinality(S) \in Nat
    BY <2>1, FS_CardinalityType
  <2> QED
    BY <2>1, <2>2, StoreAssumption DEF StoreAssumption, Fits
<1>2. ASSUME NEW s \in Source PROVE Cardinality(OfSource(T, s)) <= MaxSource
  <2>1. OfSource(T, s) \subseteq OfSource(S, s) /\ OfSource(S, s) \subseteq S
    BY DEF OfSource
  <2>2. IsFiniteSet(OfSource(S, s))
    BY <2>1, FS_Subset
  <2>3. IsFiniteSet(OfSource(T, s)) /\ Cardinality(OfSource(T, s)) <= Cardinality(OfSource(S, s))
    BY <2>1, <2>2, FS_Subset
  <2>4. Cardinality(OfSource(T, s)) \in Nat /\ Cardinality(OfSource(S, s)) \in Nat
    BY <2>2, <2>3, FS_CardinalityType
  <2>5. Cardinality(OfSource(S, s)) <= MaxSource
    BY DEF Fits
  <2> QED
    BY <2>3, <2>4, <2>5, StoreAssumption DEF StoreAssumption
<1> QED
  BY <1>1, <1>2 DEF Fits

LEMMA FitsOf ==
    ASSUME IsFiniteSet(Article), NEW T \in SUBSET Article, Fits(T), Consumed(now)' \subseteq T
    PROVE  Fits(Consumed(now))'
<1>1. IsFiniteSet(T)
  BY FS_Subset
<1> DEFINE S == Consumed(now)'
<1> HIDE DEF S
<1>2. S \subseteq T
  BY DEF S
<1>3. Fits(S)
  BY <1>1, <1>2, SmallerFits
<1> QED
  BY <1>3 DEF S, Fits, OfSource

(***************************************************************************)
(* A step that claims nothing, and records a success only of a live claim. *)
(***************************************************************************)
LEMMA Shrinks ==
    ASSUME StoreTypeOK, IsFiniteSet(Article), Fits(Consumed(now)), now' \in Nat, now <= now',
           \A j \in Job : jobs'[j].status = "processing" => jobs'[j] = jobs[j],
           \A j \in Job : delivered'[j] # 0 => delivered'[j] = delivered[j] \/ j \in LiveClaims(now)
    PROVE  Fits(Consumed(now))'
<1>0. now \in Nat /\ Hour \in Nat /\ jobs \in [Job -> JobRow] /\ delivered \in [Job -> Nat]
  BY StoreAssumption DEF StoreAssumption, StoreTypeOK
<1>1. ASSUME NEW j \in Job, jobs'[j].status = "processing",
             jobs'[j].lease = 0 \/ jobs'[j].lease >= now'
      PROVE  j \in LiveClaims(now)
  <2>1. jobs[j].lease \in Nat /\ jobs'[j] = jobs[j]
    BY <1>0, <1>1 DEF JobRow
  <2> QED
    BY <1>0, <1>1, <2>1 DEF LiveClaims
<1>2. ASSUME NEW j \in Job, delivered'[j] # 0, delivered'[j] >= now' - Hour
      PROVE  j \in RecentSuccesses(now) \cup LiveClaims(now)
  <2>1. CASE delivered'[j] = delivered[j]
    <3>1. delivered[j] \in Nat
      BY <1>0
    <3> QED
      BY <1>0, <1>2, <2>1, <3>1 DEF RecentSuccesses
  <2> QED
    BY <1>2, <2>1
<1>3. Consumed(now)' \subseteq Consumed(now)
  BY <1>1, <1>2 DEF Consumed, LiveClaims, RecentSuccesses
<1> QED
  BY <1>3, ConsumedArticles, FitsOf

(***************************************************************************)
(* A finite set has an article of least priority.                          *)
(***************************************************************************)
LEMMA LeastOf ==
    ASSUME NEW T \in SUBSET Nat, T # {}
    PROVE  \E n \in T : \A m \in T : n <= m
<1> DEFINE R == {pair \in Nat \X Nat : pair[1] < pair[2]}
<1>1. IsWellFoundedOn(R, Nat)
  BY NatLessThanWellFounded DEF OpToRel
<1>2. \A m, n \in Nat : m < n => <<m, n>> \in R
  OBVIOUS
<1> HIDE DEF R
<1>3. PICK n \in T : \A m \in T : ~ (<<m, n>> \in R)
  BY <1>1, WFMin
<1>4. ASSUME NEW m \in T PROVE n <= m
  <2>1. ~(m < n)
    BY <1>2, <1>3
  <2> QED
    BY <2>1
<1> QED
  BY <1>4

LEMMA LeastUrgent ==
    ASSUME NEW S \in SUBSET Article, S # {}
    PROVE  \E a \in S : \A b \in S : PriorityOf[b] >= PriorityOf[a]
<1> DEFINE T == {PriorityOf[a] : a \in S}
<1>1. \A a \in S : PriorityOf[a] \in Nat
  BY StoreAssumption DEF StoreAssumption
<1>2. T \in SUBSET Nat /\ T # {}
  BY <1>1
<1>3. PICK n \in T : \A m \in T : n <= m
  <2> HIDE DEF T
  <2> QED
    BY <1>2, LeastOf
<1>4. PICK a \in S : PriorityOf[a] = n
  OBVIOUS
<1> QED
  BY <1>1, <1>3, <1>4

(***************************************************************************)
(* A fair selection fits beside the articles that hold slots.              *)
(***************************************************************************)
LEMMA FairFits ==
    ASSUME IsFiniteSet(Article), Fits(Consumed(now)), RecordedStored,
           NEW S \in SUBSET Candidates(now), FairSelection(S, now)
    PROVE  Fits(Consumed(now) \cup S)
<1> DEFINE C == Consumed(now)
<1>1. S \subseteq Article /\ C \subseteq Article /\ C \cap S = {}
  BY ConsumedArticles DEF Candidates, Eligible, Job
<1>2. IsFiniteSet(S) /\ IsFiniteSet(C) /\ Cardinality(S) \in Nat /\ Cardinality(C) \in Nat
  BY <1>1, FS_Subset, FS_CardinalityType
<1>3. Cardinality(C \cup S) <= MaxGlobal
  <2>1. Cardinality(C \cup S) = Cardinality(C) + Cardinality(S)
    <3>1. Cardinality(C \cup S) = Cardinality(C) + Cardinality(S) - Cardinality(C \cap S)
      BY <1>2, FS_Union
    <3>2. Cardinality(C \cap S) = 0
      BY <1>1, FS_EmptySet
    <3> QED
      BY <1>2, <3>1, <3>2
  <2>2. Cardinality(S) <= IF Cardinality(C) < MaxGlobal THEN MaxGlobal - Cardinality(C) ELSE 0
    BY DEF FairSelection, FreeSlots
  <2>3. Cardinality(C) <= MaxGlobal /\ MaxGlobal \in Nat
    BY StoreAssumption DEF StoreAssumption, Fits
  <2> HIDE DEF C
  <2> QED
    BY <1>2, <2>1, <2>2, <2>3
<1>4. ASSUME NEW s \in Source PROVE Cardinality(OfSource(C \cup S, s)) <= MaxSource
  <2>1. OfSource(C \cup S, s) = OfSource(C, s) \cup OfSource(S, s)
        /\ OfSource(C, s) \cap OfSource(S, s) = {}
    BY <1>1 DEF OfSource
  <2>2. CASE OfSource(S, s) = {}
    BY <2>1, <2>2 DEF Fits
  <2>3. CASE OfSource(S, s) # {}
    <3>1. PICK a \in OfSource(S, s) : \A b \in OfSource(S, s) : PriorityOf[b] >= PriorityOf[a]
      <4>1. OfSource(S, s) \subseteq Article
        BY <1>1 DEF OfSource
      <4> QED
        BY <2>3, <4>1, LeastUrgent
    <3>2. a \in S /\ SourceOf[a] = s
      BY DEF OfSource
    <3>3. {b \in S : SourceOf[b] = SourceOf[a] /\ PriorityOf[b] >= PriorityOf[a]} = OfSource(S, s)
      BY <3>1, <3>2 DEF OfSource
    <3>4. SourceCount(s, now) = Cardinality(OfSource(C, s))
      <4>1. \A x \in Article : (\E j \in RecentSuccesses(now) : j[1] = x) => articles[x].stored
        BY DEF RecordedStored, RecentSuccesses
      <4>2. {x \in Article :
               /\ SourceOf[x] = s
               /\ \/ articles[x].stored /\ \E j \in RecentSuccesses(now) : j[1] = x
                  \/ \E j \in LiveClaims(now) : j[1] = x} = OfSource(C, s)
        BY <1>1, <4>1 DEF OfSource, Consumed
      <4> QED
        BY <4>2 DEF SourceCount
    <3>5. Cardinality(OfSource(C, s)) + Cardinality(OfSource(S, s)) <= MaxSource
      <4>1. SourceUse(S, a, now) <= MaxSource
        BY <3>2 DEF FairSelection
      <4> QED
        BY <3>2, <3>3, <3>4, <4>1 DEF SourceUse
    <3>6. IsFiniteSet(OfSource(C, s)) /\ IsFiniteSet(OfSource(S, s))
      <4>1. OfSource(C, s) \subseteq C /\ OfSource(S, s) \subseteq S
        BY DEF OfSource
      <4> QED
        BY <1>2, <4>1, FS_Subset
    <3>7. Cardinality(OfSource(C, s) \cup OfSource(S, s)) =
            Cardinality(OfSource(C, s)) + Cardinality(OfSource(S, s))
      <4>1. Cardinality(OfSource(C, s) \cup OfSource(S, s)) =
              Cardinality(OfSource(C, s)) + Cardinality(OfSource(S, s))
                - Cardinality(OfSource(C, s) \cap OfSource(S, s))
        BY <3>6, FS_Union
      <4>2. Cardinality(OfSource(C, s) \cap OfSource(S, s)) = 0
        BY <2>1, FS_EmptySet
      <4>3. Cardinality(OfSource(C, s)) \in Nat /\ Cardinality(OfSource(S, s)) \in Nat
        BY <3>6, FS_CardinalityType
      <4> QED
        BY <4>1, <4>2, <4>3
    <3> QED
      BY <2>1, <3>5, <3>7
  <2> QED
    BY <2>2, <2>3
<1> QED
  BY <1>3, <1>4 DEF Fits

LEMMA SelectFits ==
    ASSUME CycleInv, Holds, IsFiniteSet(Article), LimitsInv, NEW p \in Process, SelectBatch(p)
    PROVE  Fits(Consumed(now))'
<1>1. cycle[p].at = now /\ UNCHANGED <<now, delivered>>
  BY DEF SelectBatch, Holds
<1>2. PICK S \in SUBSET Candidates(now) :
        /\ FairSelection(S, now)
        /\ jobs' = [j \in Job |-> IF j \in Batch(S, now) THEN Claimed(jobs[j], now) ELSE jobs[j]]
  BY <1>1 DEF SelectBatch
<1>3. Fits(Consumed(now) \cup S)
  BY <1>2, FairFits DEF LimitsInv
<1>4. Consumed(now) \cup S \subseteq Article
  BY ConsumedArticles DEF Candidates, Eligible, Job
<1>5. \A j \in Job : j \in LiveClaims(now)' => j[1] \in Consumed(now) \cup S
  <2> SUFFICES ASSUME NEW j \in Job, j \in LiveClaims(now)' PROVE j[1] \in Consumed(now) \cup S
    OBVIOUS
  <2>1. CASE j \in Batch(S, now)
    BY <2>1 DEF Batch
  <2>2. CASE j \notin Batch(S, now)
    <3>1. jobs'[j] = jobs[j]
      BY <1>2, <2>2
    <3>2. j \in LiveClaims(now)
      BY <1>1, <3>1 DEF LiveClaims
    <3> QED
      BY <3>2 DEF Consumed
  <2> QED
    BY <2>1, <2>2
<1>6. Consumed(now)' \subseteq Consumed(now) \cup S
  <2>1. RecentSuccesses(now)' = RecentSuccesses(now)
    BY <1>1 DEF RecentSuccesses
  <2>2. LiveClaims(now)' \subseteq Job
    BY DEF LiveClaims
  <2> QED
    BY <1>5, <2>1, <2>2 DEF Consumed
<1> QED
  BY <1>3, <1>4, <1>6, FitsOf

(***************************************************************************)
(* Rows that recovery and the end of a job leave behind are no claims.     *)
(***************************************************************************)
LEMMA RecoverRow ==
    ASSUME StoreTypeOK, NEW t \in Nat, RecoverExpiredLeases(t), NEW j \in Job
    PROVE  \/ jobs'[j] = jobs[j]
           \/ jobs'[j].status \in {"retrying", "pending"} /\ jobs[j].status = "processing"
<1>1. jobs[j] \in JobRow
  BY DEF StoreTypeOK
<1>2. Recovered(jobs[j]) \in JobRow /\ Recovered(jobs[j]).status \in {"retrying", "pending"}
  BY <1>1, RowTypes DEF Recovered, JobRow
<1>3. Upsert(jobs[j], Recovered(jobs[j])).status \in {"retrying", "pending"}
  BY <1>1, <1>2, UpsertType
<1>4. jobs'[j] = IF j \in Stale(t) THEN Upsert(jobs[j], Recovered(jobs[j])) ELSE jobs[j]
  BY DEF RecoverExpiredLeases
<1>5. j \in Stale(t) => jobs[j].status = "processing"
  BY DEF Stale
<1> QED
  BY <1>3, <1>4, <1>5

LEMMA SaveRow ==
    ASSUME CycleInv, NEW j \in Job, NEW row \in JobRow, SaveJob(j, row)
    PROVE  /\ jobs'[j].status = row.status
           /\ \A k \in Job \ {j} : jobs'[k] = jobs[k]
<1>1. jobs \in [Job -> JobRow]
  BY DEF CycleInv, StoreTypeOK
<1> QED
  BY <1>1, UpsertType DEF SaveJob

(***************************************************************************)
(* A step that ends a job saves a row that is no claim, of a job it holds. *)
(***************************************************************************)
LEMMA LoadRow ==
    ASSUME CycleInv, NEW p \in Process, LoadArticle(p)
    PROVE  \/ UNCHANGED jobs
           \/ \E j \in Held(cycle[p]) :
                 /\ jobs'[j].status = "dead_letter"
                 /\ \A k \in Job \ {j} : jobs'[k] = jobs[k]
<1> SUFFICES ASSUME NEW j \in Heads(cycle[p]), SaveJob(j, DeadLetter(cycle[p].batch[j]))
             PROVE  \E k \in Held(cycle[p]) : /\ jobs'[k].status = "dead_letter"
                                              /\ \A l \in Job \ {k} : jobs'[l] = jobs[l]
  BY DEF LoadArticle
<1>1. j \in Held(cycle[p]) /\ j \in Job /\ cycle[p].batch[j] \in JobRow
  BY CycleOfType DEF Heads, Held, CycleInv, CycleType
<1>2. DeadLetter(cycle[p].batch[j]) \in JobRow /\ DeadLetter(cycle[p].batch[j]).status = "dead_letter"
  BY <1>1, RowTypes DEF DeadLetter, JobRow
<1> QED
  BY <1>1, <1>2, SaveRow

LEMMA FinishRow ==
    ASSUME CycleInv, NEW p \in Process, FinishJob(p)
    PROVE  /\ cycle[p].job \in Held(cycle[p]) /\ cycle[p].job \in Job
           /\ jobs'[cycle[p].job].status =
                 IF cycle[p].success THEN "succeeded"
                 ELSE IF cycle[p].batch[cycle[p].job].attempts >= MaxAttempts THEN "dead_letter"
                 ELSE "retrying"
           /\ \A k \in Job \ {cycle[p].job} : jobs'[k] = jobs[k]
<1> DEFINE j == cycle[p].job
           row == cycle[p].batch[j]
           saved == IF cycle[p].success THEN Succeeded(row) ELSE Failed(row, cycle[p].at)
<1>1. j \in Job /\ row \in JobRow /\ cycle[p].at \in Nat /\ j \in Held(cycle[p])
  BY WorkingJob DEF FinishJob, Working, CycleInv, WorkingHeld
<1>2. SaveJob(j, saved)
  BY DEF FinishJob
<1> HIDE DEF row, j
<1>3. saved \in JobRow
  BY <1>1, RowTypes
<1>4. saved.status = IF cycle[p].success THEN "succeeded"
                     ELSE IF row.attempts >= MaxAttempts THEN "dead_letter" ELSE "retrying"
  BY <1>1 DEF Succeeded, Failed, DeadLetter, JobRow
<1> HIDE DEF saved
<1>5. jobs'[j].status = saved.status /\ \A k \in Job \ {j} : jobs'[k] = jobs[k]
  BY <1>1, <1>2, <1>3, SaveRow
<1> QED
  BY <1>1, <1>4, <1>5 DEF j, row

LEMMA CycleFits ==
    ASSUME CycleInv, Holds, IsFiniteSet(Article), LimitsInv, NEW p \in Process,
           RecoverLeases(p) \/ PublishBatch(p)
    PROVE  Fits(Consumed(now))'
<1>0. now \in Nat /\ StoreTypeOK /\ UNCHANGED now
  BY DEF CycleInv, StoreTypeOK, RecoverLeases, PublishBatch, SelectBatch, LoadArticle, Send, Record,
     MarkLegacy, MarkVersion, SaveArticle, FinishJob
<1>1. CASE RecoverLeases(p)
  <2>1. \A j \in Job : jobs'[j].status = "processing" => jobs'[j] = jobs[j]
    BY <1>0, <1>1, RecoverRow DEF RecoverLeases
  <2> QED
    BY <1>0, <1>1, <2>1, Shrinks DEF RecoverLeases, LimitsInv
<1>2. CASE SelectBatch(p)
  BY <1>2, SelectFits
<1>3. CASE LoadArticle(p)
  <2>1. \A j \in Job : jobs'[j].status = "processing" => jobs'[j] = jobs[j]
    BY <1>3, LoadRow
  <2> QED
    BY <1>0, <1>3, <2>1, Shrinks DEF LoadArticle, LimitsInv
<1>4. CASE Send(p) \/ MarkLegacy(p) \/ MarkVersion(p) \/ SaveArticle(p)
  <2>1. UNCHANGED <<jobs, delivered>>
    BY <1>4 DEF Send, MarkLegacy, MarkVersion, SaveArticle, store
  <2> QED
    BY <1>0, <2>1, Shrinks DEF LimitsInv
<1>5. CASE Record(p)
  <2>1. cycle[p].job \in LiveClaims(now) /\ UNCHANGED jobs
    BY <1>0, <1>5, HeldLive DEF Record, CycleInv, WorkingHeld, Working
  <2>2. \A j \in Job : delivered'[j] = delivered[j] \/ j \in LiveClaims(now)
    BY <1>0, <1>5, <2>1 DEF Record, RecordDelivery, StoreTypeOK
  <2> QED
    BY <1>0, <2>1, <2>2, Shrinks DEF LimitsInv
<1>6. CASE FinishJob(p)
  <2>1. \A j \in Job : jobs'[j].status = "processing" => jobs'[j] = jobs[j]
    BY <1>6, FinishRow
  <2> QED
    BY <1>0, <1>6, <2>1, Shrinks DEF FinishJob, LimitsInv
<1> QED
  BY <1>1, <1>2, <1>3, <1>4, <1>5, <1>6 DEF PublishBatch

LEMMA CycleStored ==
    ASSUME CycleInv, RecordedStored, NEW p \in Process, RecoverLeases(p) \/ PublishBatch(p)
    PROVE  RecordedStored'
<1>1. \A q \in Process \ {p} : cycle'[q] = cycle[q]
  BY OneCycleMoves
<1>2. CASE Pauses(p)
  BY <1>1, <1>2 DEF Pauses, Between, Working, RecordedStored
<1>3. CASE Loads(p)
  BY <1>1, <1>3 DEF Loads, Working, RecordedStored, store
<1>4. CASE GoesOn(p) /\ (Send(p) \/ MarkLegacy(p) \/ MarkVersion(p))
  <2>1. UNCHANGED <<articles, delivered>>
    BY <1>4 DEF Send, MarkLegacy, MarkVersion, store
  <2> QED
    BY <1>1, <1>4, <2>1 DEF GoesOn, RecordedStored
<1>5. CASE GoesOn(p) /\ Record(p)
  <2>1. \A j \in Job : delivered'[j] = delivered[j] \/ j = cycle[p].job
    BY <1>5 DEF Record, RecordDelivery, CycleInv, StoreTypeOK
  <2> QED
    BY <1>1, <1>5, <2>1 DEF Record, GoesOn, RecordedStored
<1>6. CASE GoesOn(p) /\ SaveArticle(p)
  <2>1. cycle[p].article \in ArticleRow /\ cycle[p].article.stored
    BY <1>6, WorkingJob DEF GoesOn, RecordedStored
  <2>2. \A a \in Article : articles[a].stored => articles'[a].stored
    BY <1>6, <2>1 DEF SaveArticle, CycleInv, StoreTypeOK, ArticleRow
  <2>3. \A j \in Job : j[1] \in Article
    BY DEF Job
  <2>4. \A q \in Process : cycle[q].step \in Working => cycle[q].job \in Job
    BY WorkingJob
  <2> QED
    BY <1>1, <1>6, <2>2, <2>3, <2>4 DEF SaveArticle, GoesOn, RecordedStored
<1> QED
  BY <1>2, <1>3, <1>4, <1>5, <1>6, CycleMoves

LEMMA NextLimits ==
    ASSUME IsFiniteSet(Article), KeysInv, Holds, LimitsInv, [PoolNext]_poolVars
    PROVE  LimitsInv'
<1>0. StoreTypeOK /\ now \in Nat
  BY DEF KeysInv, CycleInv, StoreTypeOK
<1>1. ASSUME NEW p \in Process, RecoverLeases(p) \/ PublishBatch(p) PROVE LimitsInv'
  BY <1>1, CycleFits, CycleStored DEF KeysInv, LimitsInv
<1>2. ASSUME NEW p \in Process, Die(p) PROVE LimitsInv'
  <2>1. \A q \in Process : cycle'[q] = IF q = p THEN Idle ELSE cycle[q]
    BY <1>2, OtherCycles DEF KeysInv, CycleInv, Die, LoseCycle
  <2>2. UNCHANGED <<articles, jobs, delivered, now>>
    BY <1>2 DEF Die, storeVars, store
  <2>3. RecordedStored'
    BY <2>1, <2>2 DEF LimitsInv, RecordedStored, Idle, Working
  <2>4. Fits(Consumed(now))'
    BY <1>0, <2>2, Shrinks DEF LimitsInv
  <2> QED
    BY <2>3, <2>4 DEF LimitsInv
<1>3. CASE PassTime \/ UNCHANGED poolVars
  <2>1. UNCHANGED <<articles, jobs, delivered, cycle>> /\ now' \in Nat /\ now <= now'
    BY <1>0, <1>3 DEF PassTime, Tick, poolVars, storeVars, store
  <2>2. Fits(Consumed(now))'
    BY <1>0, <2>1, Shrinks DEF LimitsInv
  <2> QED
    BY <2>1, <2>2 DEF LimitsInv, RecordedStored
<1> QED
  BY <1>1, <1>2, <1>3 DEF PoolNext

LEMMA InitLimits == PoolInit => LimitsInv
<1> SUFFICES ASSUME PoolInit PROVE LimitsInv
  OBVIOUS
<1>1. \A j \in Job : jobs[j].status \in {"pending", "absent"}
  <2>1. PICK created \in [Article -> Backlog], queued \in SUBSET Job :
          jobs = [j \in Job |-> IF j \in queued
                               THEN [NoRow EXCEPT !.status = "pending", !.created = created[j[1]]]
                               ELSE NoRow]
    BY DEF PoolInit, BacklogInit
  <2> QED
    BY <2>1 DEF NoRow
<1>2. \A j \in Job : delivered[j] = 0
  BY DEF PoolInit, BacklogInit
<1>3. Consumed(now) = {}
  BY <1>1, <1>2 DEF Consumed, RecentSuccesses, LiveClaims
<1>4. Fits({})
  <2>1. \A s \in Source : OfSource({}, s) = {}
    BY DEF OfSource
  <2> QED
    BY <2>1, FS_EmptySet, StoreAssumption DEF StoreAssumption, Fits
<1>5. RecordedStored
  BY <1>2 DEF RecordedStored, PoolInit, CycleInit, Idle, Working
<1> QED
  BY <1>3, <1>4, <1>5 DEF LimitsInv

(***************************************************************************)
(* If cycles end before the clock advances, the articles that count in the *)
(* hour and those in the hands of any number of cycles keep within the     *)
(* global and the source limits, whatever is rejected, lost or dies.       *)
(***************************************************************************)
THEOREM PoolKeepsLimits ==
    ASSUME Prompt, IsFiniteSet(Article)
    PROVE  PoolSpec => []SlotsWithinLimits
<1>1. KeysInv /\ Holds /\ LimitsInv /\ [PoolNext]_poolVars => LimitsInv'
  BY NextLimits
<1>2. KeysInv /\ Holds /\ LimitsInv => SlotsWithinLimits
  BY LimitsFit DEF KeysInv, CycleInv, LimitsInv
<1> QED
  BY <1>1, <1>2, PoolHolds, InitLimits, PTL DEF PoolSpec

-----------------------------------------------------------------------------
(***************************************************************************)
(* What readers see.  A job whose channel received a version succeeded,    *)
(* and is recorded no earlier than that, or is in the hands of a cycle     *)
(* that knows of its success; so what was seen in the hour is counted.     *)
(***************************************************************************)
Accounts(c, j) ==
    /\ c.job = j /\ c.success
    /\ \/ c.step = "record"
       \/ /\ c.step \in {"markLegacy", "markVersion", "saveArticle", "saveJob"}
          /\ delivered[j] >= lastPost[j]

PostedInv ==
    /\ \A j \in Job : lastPost[j] <= now
    /\ \A j \in Job : lastPost[j] # 0 =>
          \/ jobs[j].status = "succeeded" /\ delivered[j] >= lastPost[j]
          \/ \E p \in Process : Accounts(cycle[p], j)

LEMMA HeldAccounts ==
    ASSUME CycleInv, Holds, PostedInv, NEW p \in Process, NEW j \in Held(cycle[p]), lastPost[j] # 0
    PROVE  Accounts(cycle[p], j)
<1>1. j \in Job /\ jobs[j].status # "succeeded"
  BY DEF Holds, Held
<1>2. PICK q \in Process : Accounts(cycle[q], j)
  BY <1>1 DEF PostedInv
<1>3. j \in Held(cycle[q])
  BY <1>2 DEF Accounts, CycleInv, WorkingHeld, Working
<1>4. p = q
  BY <1>3 DEF Holds
<1> QED
  BY <1>2, <1>4

(***************************************************************************)
(* A step that leaves a job's row, record and channel alone, or accounts   *)
(* for its post, keeps the others accounted for.                           *)
(***************************************************************************)
LEMMA AccountsKept ==
    ASSUME CycleInv, PostedInv, NEW p \in Process,
           \A q \in Process \ {p} : cycle'[q] = cycle[q],
           now' = now,
           NEW j \in Job, UNCHANGED <<delivered[j], lastPost[j]>>,
           jobs[j].status = "succeeded" => jobs'[j].status = "succeeded",
           Accounts(cycle[p], j) =>
              \/ jobs'[j].status = "succeeded" /\ delivered[j] >= lastPost[j]
              \/ Accounts(cycle[p], j)'
    PROVE  /\ lastPost'[j] <= now'
           /\ lastPost'[j] # 0 =>
                 \/ jobs'[j].status = "succeeded" /\ delivered'[j] >= lastPost'[j]
                 \/ \E q \in Process : Accounts(cycle[q], j)'
<1>1. lastPost[j] <= now
  BY DEF PostedInv
<1> SUFFICES ASSUME lastPost[j] # 0
             PROVE  \/ jobs'[j].status = "succeeded" /\ delivered'[j] >= lastPost'[j]
                    \/ \E q \in Process : Accounts(cycle[q], j)'
  BY <1>1
<1>2. CASE jobs[j].status = "succeeded" /\ delivered[j] >= lastPost[j]
  BY <1>2
<1>3. ASSUME NEW q \in Process, Accounts(cycle[q], j)
      PROVE  \/ jobs'[j].status = "succeeded" /\ delivered'[j] >= lastPost'[j]
             \/ \E r \in Process : Accounts(cycle[r], j)'
  <2>1. CASE q = p
    BY <1>3, <2>1
  <2>2. CASE q # p
    <3>1. Accounts(cycle[q], j)'
      BY <1>3, <2>2 DEF Accounts
    <3> QED
      BY <3>1
  <2> QED
    BY <2>1, <2>2
<1> QED
  BY <1>2, <1>3 DEF PostedInv

LEMMA RestPosted ==
    ASSUME CycleInv, Holds, PostedInv, NEW p \in Process,
           RecoverLeases(p) \/ SelectBatch(p) \/ LoadArticle(p)
    PROVE  PostedInv'
<1>1. \A q \in Process \ {p} : cycle'[q] = cycle[q]
  BY OneCycleMoves DEF PublishBatch
<1>2. UNCHANGED <<delivered, lastPost, now>> /\ now \in Nat /\ StoreTypeOK
  BY DEF RecoverLeases, SelectBatch, LoadArticle, channels, CycleInv, StoreTypeOK
<1>3. \A j : ~Accounts(cycle[p], j)
  BY DEF RecoverLeases, SelectBatch, LoadArticle, Accounts
<1>4. ASSUME NEW j \in Job, jobs[j].status = "succeeded" PROVE jobs'[j].status = "succeeded"
  <2>1. CASE RecoverLeases(p)
    BY <1>2, <1>4, <2>1, RecoverRow DEF RecoverLeases
  <2>2. CASE SelectBatch(p)
    <3> DEFINE t == cycle[p].at
    <3>1. PICK S \in SUBSET Candidates(t) :
            jobs' = [k \in Job |-> IF k \in Batch(S, t) THEN Claimed(jobs[k], t) ELSE jobs[k]]
      BY <2>2 DEF SelectBatch
    <3>2. j \notin Batch(S, t)
      BY <1>4 DEF Batch, Eligible
    <3> QED
      BY <1>4, <3>1, <3>2
  <2>3. CASE LoadArticle(p)
    <3>1. \A k \in Held(cycle[p]) : jobs[k].status = "processing"
      BY DEF Holds
    <3> QED
      BY <1>4, <2>3, <3>1, LoadRow
  <2> QED
    BY <2>1, <2>2, <2>3
<1> QED
  BY <1>1, <1>2, <1>3, <1>4, AccountsKept DEF PostedInv

LEMMA SendPosted ==
    ASSUME CycleInv, Holds, PostedInv, "lost_reply" \notin Outcome, NEW p \in Process, Send(p)
    PROVE  PostedInv'
<1> DEFINE job == cycle[p].job
<1>0. \A q \in Process \ {p} : cycle'[q] = cycle[q]
  BY OneCycleMoves DEF PublishBatch
<1>1. PICK outcome \in Outcome :
        /\ IF outcome = "rejected" THEN UNCHANGED channels
           ELSE PostTo(cycle[p].job, cycle[p].article.ts)
        /\ cycle' = [cycle EXCEPT ![p].success = (outcome = "ok"), ![p].step = "record"]
  BY DEF Send
<1>2. outcome \in {"ok", "rejected"}
  BY ProcessorAssumption DEF ProcessorAssumption
<1>3. cycle[p].step = "send" /\ UNCHANGED <<jobs, delivered, now>>
  BY DEF Send, store
<1>4. job \in Held(cycle[p]) /\ job \in Job
  BY <1>3 DEF CycleInv, WorkingHeld, Working, Held
<1>5. \A j : ~Accounts(cycle[p], j)
  BY <1>3 DEF Accounts
<1>6. lastPost[job] = 0
  BY <1>4, <1>5, HeldAccounts
<1>7. now \in Nat /\ lastPost \in [Job -> Nat]
  BY DEF CycleInv, StoreTypeOK
<1>8. ASSUME NEW j \in Job \ {job}
      PROVE  /\ lastPost'[j] <= now'
             /\ lastPost'[j] # 0 =>
                   \/ jobs'[j].status = "succeeded" /\ delivered'[j] >= lastPost'[j]
                   \/ \E q \in Process : Accounts(cycle[q], j)'
  <2>1. lastPost'[j] = lastPost[j]
    BY <1>1, <1>7 DEF PostTo, channels
  <2> QED
    BY <1>0, <1>3, <1>5, <2>1, AccountsKept
<1>9. CASE outcome = "rejected"
  <2>1. lastPost' = lastPost
    BY <1>1, <1>9 DEF channels
  <2> QED
    BY <1>3, <1>6, <1>7, <1>8, <2>1 DEF PostedInv
<1>10. CASE outcome = "ok"
  <2>1. lastPost'[job] = now
    BY <1>1, <1>4, <1>7, <1>10 DEF PostTo
  <2>2. cycle \in [Process -> CycleType]
    BY DEF CycleInv, CycleTypeOK, CycleType
  <2>3. cycle'[p].job = job /\ cycle'[p].step = "record" /\ cycle'[p].success
    BY <1>1, <1>10, <2>2 DEF CycleType
  <2>4. lastPost'[job] <= now'
    BY <1>3, <1>7, <2>1
  <2> QED
    BY <1>8, <2>3, <2>4 DEF PostedInv, Accounts
<1> QED
  BY <1>2, <1>9, <1>10

LEMMA RecordPosted ==
    ASSUME CycleInv, Holds, PostedInv, NEW p \in Process, Record(p)
    PROVE  PostedInv'
<1> DEFINE job == cycle[p].job
<1>0. \A q \in Process \ {p} : cycle'[q] = cycle[q]
  BY OneCycleMoves DEF PublishBatch
<1>1. /\ cycle[p].step = "record" /\ UNCHANGED <<jobs, lastPost, now>>
      /\ cycle[p].at = now /\ job \in Held(cycle[p]) /\ job \in Job
  BY DEF Record, channels, Holds, CycleInv, WorkingHeld, Working, Held
<1>2. now \in Nat /\ lastPost \in [Job -> Nat] /\ delivered \in [Job -> Nat]
  BY DEF CycleInv, StoreTypeOK
<1>3. delivered' = [delivered EXCEPT ![job] = IF cycle[p].success THEN now ELSE 0]
  BY <1>1 DEF Record, RecordDelivery
<1>4. ASSUME NEW j \in Job \ {job}
      PROVE  /\ lastPost'[j] <= now'
             /\ lastPost'[j] # 0 =>
                   \/ jobs'[j].status = "succeeded" /\ delivered'[j] >= lastPost'[j]
                   \/ \E q \in Process : Accounts(cycle[q], j)'
  <2>1. delivered'[j] = delivered[j] /\ ~Accounts(cycle[p], j)
    BY <1>2, <1>3 DEF Accounts
  <2> QED
    BY <1>0, <1>1, <2>1, AccountsKept
<1>5. CASE cycle[p].success
  <2>1. cycle \in [Process -> CycleType]
    BY DEF CycleInv, CycleTypeOK, CycleType
  <2>2. cycle'[p].job = job /\ cycle'[p].step = "markLegacy" /\ cycle'[p].success
    BY <1>5, <2>1 DEF Record, CycleType
  <2>3. delivered'[job] >= lastPost'[job] /\ lastPost'[job] <= now'
    BY <1>1, <1>2, <1>3, <1>5 DEF PostedInv
  <2> QED
    BY <1>4, <2>2, <2>3 DEF PostedInv, Accounts
<1>6. CASE ~cycle[p].success
  <2>1. ~Accounts(cycle[p], job)
    BY <1>6 DEF Accounts
  <2>2. lastPost[job] = 0
    BY <1>1, <2>1, HeldAccounts
  <2> QED
    BY <1>1, <1>2, <1>4, <2>2 DEF PostedInv
<1> QED
  BY <1>5, <1>6

LEMMA MarkPosted ==
    ASSUME CycleInv, Holds, PostedInv, NEW p \in Process,
           MarkLegacy(p) \/ MarkVersion(p) \/ SaveArticle(p)
    PROVE  PostedInv'
<1>0. \A q \in Process \ {p} : cycle'[q] = cycle[q]
  BY OneCycleMoves DEF PublishBatch
<1>1. cycle \in [Process -> CycleType]
  BY DEF CycleInv, CycleTypeOK, CycleType
<1>2. UNCHANGED <<jobs, delivered, lastPost, now>>
  BY DEF MarkLegacy, MarkVersion, SaveArticle, channels
<1>3. /\ cycle[p].step \in {"markLegacy", "markVersion", "saveArticle"}
      /\ cycle'[p].step \in {"markVersion", "saveArticle", "saveJob"}
      /\ cycle'[p].job = cycle[p].job /\ cycle'[p].success = cycle[p].success
  BY <1>1 DEF MarkLegacy, MarkVersion, SaveArticle, CycleType
<1>4. \A j : Accounts(cycle[p], j) => Accounts(cycle[p], j)'
  BY <1>2, <1>3 DEF Accounts
<1> QED
  BY <1>0, <1>2, <1>4, AccountsKept DEF PostedInv

LEMMA FinishPosted ==
    ASSUME CycleInv, Holds, PostedInv, NEW p \in Process, FinishJob(p)
    PROVE  PostedInv'
<1>0. \A q \in Process \ {p} : cycle'[q] = cycle[q]
  BY OneCycleMoves DEF PublishBatch
<1>1. UNCHANGED <<delivered, lastPost, now>> /\ cycle[p].step = "saveJob"
  BY DEF FinishJob, channels
<1>2. ASSUME NEW j \in Job, jobs[j].status = "succeeded" PROVE jobs'[j].status = "succeeded"
  <2>1. \A k \in Held(cycle[p]) : jobs[k].status = "processing"
    BY DEF Holds
  <2> QED
    BY <1>2, <2>1, FinishRow
<1>3. ASSUME NEW j \in Job, Accounts(cycle[p], j)
      PROVE  jobs'[j].status = "succeeded" /\ delivered[j] >= lastPost[j]
  BY <1>1, <1>3, FinishRow DEF Accounts
<1> QED
  BY <1>0, <1>1, <1>2, <1>3, AccountsKept DEF PostedInv

LEMMA NextPosted ==
    ASSUME ~Crashes, "lost_reply" \notin Outcome, KeysInv, Holds, PostedInv, [PoolNext]_poolVars
    PROVE  PostedInv'
<1> USE DEF KeysInv
<1>1. ASSUME NEW p \in Process, RecoverLeases(p) \/ PublishBatch(p) PROVE PostedInv'
  BY <1>1, RestPosted, SendPosted, RecordPosted, MarkPosted, FinishPosted DEF PublishBatch
<1>2. ASSUME NEW p \in Process, Die(p) PROVE FALSE
  BY <1>2 DEF Die, LoseCycle
<1>3. CASE PassTime \/ UNCHANGED poolVars
  <2>1. UNCHANGED <<jobs, delivered, lastPost, cycle>> /\ now <= now' /\ now' \in Nat /\ now \in Nat
    BY <1>3 DEF PassTime, Tick, poolVars, storeVars, store, channels, CycleInv, StoreTypeOK
  <2>2. \A j \in Job : lastPost[j] \in Nat
    BY DEF CycleInv, StoreTypeOK
  <2>3. \A j \in Job : lastPost'[j] <= now'
    BY <2>1, <2>2 DEF PostedInv
  <2> QED
    BY <2>1, <2>3 DEF PostedInv, Accounts
<1> QED
  BY <1>1, <1>2, <1>3 DEF PoolNext

LEMMA SeenCounted ==
    ASSUME CycleInv, Holds, PostedInv, NEW j \in Job, lastPost[j] # 0, lastPost[j] >= now - Hour
    PROVE  j[1] \in Consumed(now)
<1>1. lastPost[j] \in Nat /\ delivered[j] \in Nat /\ now \in Nat /\ Hour \in Nat
  BY StoreAssumption DEF StoreAssumption, CycleInv, StoreTypeOK
<1>2. CASE delivered[j] >= lastPost[j]
  BY <1>1, <1>2 DEF Consumed, RecentSuccesses
<1>3. CASE \E p \in Process : Accounts(cycle[p], j)
  <2>1. PICK p \in Process : Accounts(cycle[p], j)
    BY <1>3
  <2>2. j \in LiveClaims(now)
    BY <2>1, HeldLive DEF Accounts, CycleInv, WorkingHeld, Working
  <2> QED
    BY <2>2 DEF Consumed
<1> QED
  BY <1>2, <1>3 DEF PostedInv

LEMMA RateFits ==
    ASSUME CycleInv, Holds, PostedInv, IsFiniteSet(Article), Fits(Consumed(now))
    PROVE  HourlyRate
<1> DEFINE seen == {j[1] : j \in {k \in Job : lastPost[k] # 0 /\ lastPost[k] >= now - Hour}}
<1>1. seen \subseteq Consumed(now)
  BY SeenCounted
<1>2. IsFiniteSet(Consumed(now))
  BY ConsumedArticles, FS_Subset
<1> HIDE DEF seen
<1>3. Fits(seen)
  BY <1>1, <1>2, SmallerFits
<1> QED
  BY <1>3 DEF seen, Fits, HourlyRate

(***************************************************************************)
(* If cycles end before the clock advances, nobody dies and every reply    *)
(* arrives, readers never see more articles in an hour than the limit,     *)
(* however many processes publish, reject and retry.                       *)
(***************************************************************************)
THEOREM PoolKeepsTheRate ==
    ASSUME Prompt, ~Crashes, "lost_reply" \notin Outcome, IsFiniteSet(Article)
    PROVE  PoolSpec => []HourlyRate
<1>1. PoolInit => PostedInv
  <2> SUFFICES ASSUME PoolInit PROVE PostedInv
    OBVIOUS
  <2>1. now \in Nat
    BY BacklogType DEF PoolInit, StoreTypeOK
  <2>2. \A j \in Job : lastPost[j] = 0
    BY DEF PoolInit, BacklogInit
  <2> QED
    BY <2>1, <2>2 DEF PostedInv
<1>2. KeysInv /\ Holds /\ PostedInv /\ [PoolNext]_poolVars => PostedInv'
  BY NextPosted
<1>3. KeysInv /\ Holds /\ LimitsInv /\ [PoolNext]_poolVars => LimitsInv'
  BY NextLimits
<1>4. KeysInv /\ Holds /\ LimitsInv /\ PostedInv => HourlyRate
  BY RateFits DEF KeysInv, LimitsInv
<1> QED
  BY <1>1, <1>2, <1>3, <1>4, PoolHolds, InitLimits, PTL DEF PoolSpec

-----------------------------------------------------------------------------
(***************************************************************************)
(* The loops of the selection.  c is the state of the loops.               *)
(***************************************************************************)
AtLevel(S, p, s) == {a \in S : PriorityOf[a] = p /\ SourceOf[a] = s}

\* Source s was met before source u among the eligible jobs of priority p.
MetBefore(p, s, u) ==
    \E a \in AtLevel(Candidates(now), p, s) :
        \A b \in AtLevel(Candidates(now), p, u) : ~Older(b, a, now)

Looping(c) == c.step \in {"pass", "turn"}

Filled(c) == Cardinality(c.selected) >= FreeSlots(now)

\* The source of a has no slot left for articles as urgent as a.
Settled(S, a) == SourceUse(S, a, now) >= MaxSource

LoopState ==
    [step : {"priority", "pass", "turn", "done"}, selected : SUBSET Candidates(now),
     visited : SUBSET Nat, level : Nat, active : Seq(Source), turns : Seq(Source),
     progressed : BOOLEAN]

(***************************************************************************)
(* Priorities are visited in descending order, sources listed once in the  *)
(* order they were met.                                                    *)
(***************************************************************************)
Descending(c) ==
    /\ \A a \in c.selected : PriorityOf[a] \in c.visited
    /\ \A p \in c.visited : c.level <= p
    /\ \A a \in Candidates(now), p \in c.visited :
          PriorityOf[a] \notin c.visited => PriorityOf[a] < p
    /\ Looping(c) => c.level \in c.visited

Listed(c) ==
    Looping(c) =>
        /\ IsInjective(c.active) /\ IsInjective(c.turns)
        /\ ToSet(c.turns) \subseteq ToSet(c.active)
        /\ \A m, n \in DOMAIN c.active : m < n => MetBefore(c.level, c.active[m], c.active[n])
        /\ \A m, n \in DOMAIN c.turns : m < n => MetBefore(c.level, c.turns[m], c.turns[n])

(***************************************************************************)
(* The limits are kept; of a bucket the oldest are taken; and an article   *)
(* of a visited priority is passed over for the limit of its source, or    *)
(* because there is no free slot, or still has its turn.                   *)
(***************************************************************************)
WithinLimits(c) ==
    /\ Cardinality(c.selected) <= FreeSlots(now)
    /\ \A a \in c.selected :
          SourceCount(SourceOf[a], now) + Cardinality(OfSource(c.selected, SourceOf[a])) <= MaxSource

OldestTaken(c) ==
    \A b \in c.selected, a \in Candidates(now) \ c.selected : SameBucket(a, b) => ~Older(a, b, now)

Waiting(c) ==
    \A a \in Candidates(now) \ c.selected : PriorityOf[a] \in c.visited =>
        \/ Settled(c.selected, a)
        \/ /\ PriorityOf[a] = c.level
           /\ Filled(c) \/ (Looping(c) /\ SourceOf[a] \in ToSet(c.active))

(***************************************************************************)
(* Sources take turns: no source that waits is behind another by more than *)
(* one article, and by one only if it was met later.                       *)
(***************************************************************************)
Balanced(c) ==
    \A a \in Candidates(now) \ c.selected, b \in c.selected :
        PriorityOf[a] = PriorityOf[b] /\ SourceOf[a] # SourceOf[b] =>
            \/ Settled(c.selected, a)
            \/ Turns(c.selected, b) <= Turns(c.selected, a)
            \/ /\ Turns(c.selected, b) = Turns(c.selected, a) + 1
               /\ MetBefore(PriorityOf[a], SourceOf[b], SourceOf[a])

(***************************************************************************)
(* In round k the sources still to come have k articles, those that had    *)
(* their turn and stay have one more, and no source has more than these.   *)
(***************************************************************************)
InRound(c, k) ==
    LET taken(s) == Cardinality(AtLevel(c.selected, c.level, s))
    IN  /\ \A s \in ToSet(c.turns) : taken(s) = k
        /\ \A s \in ToSet(c.active) \ ToSet(c.turns) : taken(s) = k + 1
        /\ \A s \in Source : taken(s) <= k + 1
        /\ \A s \in Source, u \in ToSet(c.turns) : taken(s) = k + 1 => MetBefore(c.level, s, u)

BetweenRounds(c, k) ==
    LET taken(s) == Cardinality(AtLevel(c.selected, c.level, s))
    IN  /\ \A s \in ToSet(c.active) : taken(s) = k
        /\ \A s \in Source : taken(s) <= k

Rounds(c) ==
    /\ c.step # "turn" => c.turns = <<>>
    /\ c.step = "turn" /\ c.turns # <<>> => ~Filled(c)
    /\ c.step = "turn" /\ ~c.progressed => ToSet(c.active) \subseteq ToSet(c.turns)
    /\ c.step = "turn" /\ ~Filled(c) => \E k \in Nat : InRound(c, k)
    /\ c.step = "pass" /\ ~Filled(c) => \E k \in Nat : BetweenRounds(c, k)

\* The loops end when no priority is left or no slot is.
Finished(c) ==
    c.step = "done" => Filled(c) \/ \A a \in Candidates(now) : PriorityOf[a] \in c.visited

LoopInv(c) ==
    /\ c \in LoopState
    /\ Descending(c) /\ Listed(c) /\ WithinLimits(c) /\ OldestTaken(c)
    /\ Waiting(c) /\ Balanced(c) /\ Rounds(c) /\ Finished(c)

LEMMA SlotsType ==
    ASSUME IsFiniteSet(Article)
    PROVE  /\ FreeSlots(now) \in Nat /\ MaxSource \in Nat
           /\ \A s : SourceCount(s, now) \in Nat
           /\ Candidates(now) \subseteq Article
           /\ \A S \in SUBSET Article : IsFiniteSet(S) /\ Cardinality(S) \in Nat
           /\ \A a \in Article : PriorityOf[a] \in Nat /\ SourceOf[a] \in Source
<1>1. \A S \in SUBSET Article : IsFiniteSet(S) /\ Cardinality(S) \in Nat
  BY FS_Subset, FS_CardinalityType
<1>2. Consumed(now) \subseteq Article /\ Candidates(now) \subseteq Article
  BY DEF Consumed, Candidates, RecentSuccesses, LiveClaims, Eligible, Job
<1>3. FreeSlots(now) \in Nat
  BY <1>1, <1>2, StoreAssumption DEF StoreAssumption, FreeSlots
<1>4. ASSUME NEW s PROVE SourceCount(s, now) \in Nat
  BY <1>1 DEF SourceCount
<1> QED
  BY <1>1, <1>2, <1>3, <1>4, StoreAssumption DEF StoreAssumption

LEMMA TurnsIs ==
    \A S, b : Turns(S, b) = Cardinality(AtLevel(S, PriorityOf[b], SourceOf[b]))
<1> TAKE S, b
<1>1. {x \in S : SameBucket(b, x)} = AtLevel(S, PriorityOf[b], SourceOf[b])
  BY DEF SameBucket, AtLevel
<1> QED
  BY <1>1 DEF Turns

(***************************************************************************)
(* One article more: its source has one more at its level.                 *)
(***************************************************************************)
LEMMA OneMoreTaken ==
    ASSUME IsFiniteSet(Article), NEW S \in SUBSET Article, NEW a \in Article \ S
    PROVE  /\ Cardinality(S \cup {a}) = Cardinality(S) + 1
           /\ \A p, s :
                 IF PriorityOf[a] = p /\ SourceOf[a] = s
                 THEN Cardinality(AtLevel(S \cup {a}, p, s)) = Cardinality(AtLevel(S, p, s)) + 1
                 ELSE AtLevel(S \cup {a}, p, s) = AtLevel(S, p, s)
           /\ \A s : IF SourceOf[a] = s
                     THEN Cardinality(OfSource(S \cup {a}, s)) = Cardinality(OfSource(S, s)) + 1
                     ELSE OfSource(S \cup {a}, s) = OfSource(S, s)
<1>0. \A T \in SUBSET S : IsFiniteSet(T) /\ Cardinality(T \cup {a}) = Cardinality(T) + 1
  <2> TAKE T \in SUBSET S
  <2>1. IsFiniteSet(T) /\ a \notin T
    BY FS_Subset
  <2> QED
    BY <2>1, FS_AddElement
<1>1. Cardinality(S \cup {a}) = Cardinality(S) + 1
  BY <1>0
<1>2. ASSUME NEW p, NEW s
      PROVE  IF PriorityOf[a] = p /\ SourceOf[a] = s
             THEN Cardinality(AtLevel(S \cup {a}, p, s)) = Cardinality(AtLevel(S, p, s)) + 1
             ELSE AtLevel(S \cup {a}, p, s) = AtLevel(S, p, s)
  <2>1. AtLevel(S, p, s) \in SUBSET S
    BY DEF AtLevel
  <2>2. CASE PriorityOf[a] = p /\ SourceOf[a] = s
    <3>1. AtLevel(S \cup {a}, p, s) = AtLevel(S, p, s) \cup {a}
      BY <2>2 DEF AtLevel
    <3> QED
      BY <1>0, <2>1, <2>2, <3>1
  <2>3. CASE ~(PriorityOf[a] = p /\ SourceOf[a] = s)
    <3>1. AtLevel(S \cup {a}, p, s) = AtLevel(S, p, s)
      BY <2>3 DEF AtLevel
    <3> QED
      BY <2>3, <3>1
  <2> QED
    BY <2>2, <2>3
<1>3. ASSUME NEW s
      PROVE  IF SourceOf[a] = s
             THEN Cardinality(OfSource(S \cup {a}, s)) = Cardinality(OfSource(S, s)) + 1
             ELSE OfSource(S \cup {a}, s) = OfSource(S, s)
  <2>1. OfSource(S, s) \in SUBSET S
    BY DEF OfSource
  <2>2. CASE SourceOf[a] = s
    <3>1. OfSource(S \cup {a}, s) = OfSource(S, s) \cup {a}
      BY <2>2 DEF OfSource
    <3> QED
      BY <1>0, <2>1, <2>2, <3>1
  <2>3. CASE SourceOf[a] # s
    <3>1. OfSource(S \cup {a}, s) = OfSource(S, s)
      BY <2>3 DEF OfSource
    <3> QED
      BY <2>3, <3>1
  <2> QED
    BY <2>2, <2>3
<1> QED
  BY <1>1, <1>2, <1>3

(***************************************************************************)
(* A source at its limit stays there.                                      *)
(***************************************************************************)
LEMMA SettledStays ==
    ASSUME IsFiniteSet(Article), NEW R \in SUBSET Article, NEW S \in SUBSET R, NEW a, Settled(S, a)
    PROVE  Settled(R, a)
<1> DEFINE urgent(T) == {b \in T : SourceOf[b] = SourceOf[a] /\ PriorityOf[b] >= PriorityOf[a]}
<1>1. urgent(S) \subseteq urgent(R) /\ urgent(R) \subseteq Article
  OBVIOUS
<1>2. IsFiniteSet(urgent(R)) /\ Cardinality(urgent(R)) \in Nat /\ Cardinality(urgent(S)) \in Nat
  BY <1>1, SlotsType
<1>3. Cardinality(urgent(S)) <= Cardinality(urgent(R))
  BY <1>1, <1>2, FS_Subset
<1>4. SourceUse(S, a, now) = SourceCount(SourceOf[a], now) + Cardinality(urgent(S))
      /\ SourceUse(R, a, now) = SourceCount(SourceOf[a], now) + Cardinality(urgent(R))
  BY DEF SourceUse
<1> HIDE DEF urgent
<1> QED
  BY <1>2, <1>3, <1>4, SlotsType DEF Settled

(***************************************************************************)
(* When the least urgent priority that was visited is that of a, its       *)
(* source has used what was taken from it.                                 *)
(***************************************************************************)
LEMMA UsedAtLevel ==
    ASSUME NEW S, NEW a, \A b \in S : PriorityOf[b] >= PriorityOf[a]
    PROVE  SourceUse(S, a, now) = SourceCount(SourceOf[a], now) + Cardinality(OfSource(S, SourceOf[a]))
<1>1. {b \in S : SourceOf[b] = SourceOf[a] /\ PriorityOf[b] >= PriorityOf[a]} = OfSource(S, SourceOf[a])
  BY DEF OfSource
<1> QED
  BY <1>1 DEF SourceUse

(***************************************************************************)
(* An order of the elements of a finite set lists all of them.             *)
(***************************************************************************)
LEMMA OrderOf ==
    ASSUME NEW T, IsFiniteSet(T), NEW order \in SetToSeqs(T)
    PROVE  order \in Seq(T) /\ IsInjective(order) /\ ToSet(order) = T
<1> DEFINE D == 1 .. Cardinality(T)
<1>1. Cardinality(T) \in Nat
  BY FS_CardinalityType
<1>2. order \in [D -> T] /\ \A m, n \in D : m # n => order[m] # order[n]
  BY DEF SetToSeqs
<1>3. order \in Seq(T) /\ DOMAIN order = D
  BY <1>1, <1>2
<1>4. IsInjective(order)
  BY <1>2, <1>3 DEF IsInjective
<1>5. IsFiniteSet(D) /\ Cardinality(D) = Cardinality(T)
  BY <1>1, FS_Interval
<1>6. order \in Injection(D, T)
  BY <1>2 DEF Injection, IsInjective
<1>7. order \in Surjection(D, T)
  BY <1>5, <1>6, FS_Injection
<1>8. \A t \in T : \E n \in D : order[n] = t
  BY <1>7 DEF Surjection
<1>9. ToSet(order) = T
  BY <1>2, <1>3, <1>8 DEF ToSet
<1> QED
  BY <1>3, <1>4, <1>9

LEMMA LoopStarts == ASSUME IsFiniteSet(Article), SelectionInit PROVE LoopInv(selection)
<1>1. selection = [step |-> "priority", selected |-> {}, visited |-> {}, level |-> 0,
                   active |-> <<>>, turns |-> <<>>, progressed |-> FALSE]
  BY DEF SelectionInit
<1>2. Cardinality({}) = 0
  BY FS_EmptySet
<1>3. selection \in LoopState
  BY <1>1 DEF LoopState
<1>4. WithinLimits(selection) /\ Descending(selection)
  BY <1>1, <1>2, SlotsType DEF WithinLimits, Descending, Looping
<1> QED
  BY <1>1, <1>3, <1>4
  DEF LoopInv, Listed, Looping, OldestTaken, Waiting, Balanced, Rounds, Finished

(***************************************************************************)
(* The steps of the loops.                                                 *)
(***************************************************************************)
LEMMA PriorityBegins ==
    ASSUME IsFiniteSet(Article), LoopInv(selection), NextPriority, NEW c, c = selection'
    PROVE  LoopInv(c)
<1> DEFINE left == {PriorityOf[a] : a \in Candidates(now)} \ selection.visited
<1>0. selection \in LoopState /\ selection.step = "priority"
  BY DEF LoopInv, NextPriority
<1>1. CASE c = [selection EXCEPT !.step = "done"] /\ (left = {} \/ Filled(selection))
  <2>1. /\ c \in LoopState /\ c.step = "done" /\ c.selected = selection.selected
        /\ c.visited = selection.visited /\ c.level = selection.level
        /\ c.active = selection.active /\ c.turns = selection.turns
    BY <1>0, <1>1 DEF LoopState
  <2>2. Finished(c)
    BY <1>1, <2>1 DEF Finished, Filled
  <2> QED
    BY <1>0, <2>1, <2>2 DEF LoopInv, Descending, Listed, WithinLimits, OldestTaken, Waiting,
       Balanced, Rounds, Looping, Filled
<1>2. ASSUME NEW top \in left,
             NEW order \in SetToSeqs({SourceOf[a] : a \in {b \in Candidates(now) :
                                                            PriorityOf[b] = top}}),
             \A priority \in left : priority <= top, MetInOrder(order, top), ~Filled(selection),
             c = [selection EXCEPT !.step = "pass", !.level = top,
                                   !.visited = @ \cup {top}, !.active = order]
      PROVE  LoopInv(c)
  <2> DEFINE met == {SourceOf[a] : a \in {b \in Candidates(now) : PriorityOf[b] = top}}
  <2>1. order \in Seq(met) /\ IsInjective(order) /\ ToSet(order) = met
    <3> DEFINE B == {b \in Candidates(now) : PriorityOf[b] = top}
               f == [a \in B |-> SourceOf[a]]
    <3>1. IsFiniteSet(B)
      BY SlotsType
    <3>2. f \in Surjection(B, met)
      BY DEF Surjection
    <3>3. IsFiniteSet(met)
      BY <3>1, <3>2, FS_Surjection
    <3> QED
      BY <1>2, <3>3, OrderOf
  <2>2. met \subseteq Source /\ top \in Nat /\ top \notin selection.visited
    BY SlotsType
  <2>3. order \in Seq(Source)
    BY <2>1, <2>2
  <2>a. selection.visited \cup {top} \in SUBSET Nat
    BY <1>0, <2>2 DEF LoopState
  <2>4. /\ c \in LoopState /\ c.step = "pass" /\ c.selected = selection.selected
        /\ c.visited = selection.visited \cup {top} /\ c.level = top
        /\ c.active = order /\ c.turns = selection.turns
    <3> HIDE DEF left, met
    <3>1. /\ c.selected = selection.selected /\ c.step = "pass"
          /\ c.visited = selection.visited \cup {top} /\ c.level = top
          /\ c.active = order /\ c.turns = selection.turns
      BY <1>0, <1>2 DEF LoopState
    <3>2. c \in LoopState
      BY <1>0, <1>2, <2>2, <2>3, <2>a DEF LoopState
    <3> QED
      BY <3>1, <3>2
  <2>5. c.turns = <<>> /\ ToSet(c.turns) = {} /\ DOMAIN c.turns = {}
    BY <1>0, <2>4 DEF LoopInv, Rounds, ToSet
  <2>6. Descending(c)
    <3>1. \A p \in selection.visited : top < p
      BY <1>2 DEF LoopInv, Descending
    <3>2. \A a \in Candidates(now) : PriorityOf[a] \notin c.visited => PriorityOf[a] < top
      BY <1>2, <2>2, <2>4, SlotsType
    <3>3. \A p \in c.visited : p \in Nat
      BY <2>4 DEF LoopState
    <3> QED
      BY <2>2, <2>4, <3>1, <3>2, <3>3 DEF LoopInv, Descending
  <2>7. \A s : AtLevel(selection.selected, top, s) = {}
    BY <2>2 DEF LoopInv, Descending, AtLevel
  <2>8. \A s : AtLevel(Candidates(now), top, s) = Queue(top, s)
    BY <2>2 DEF LoopInv, Descending, AtLevel, Queue
  <2>9. \A m, n \in DOMAIN order : m < n => MetBefore(top, order[m], order[n])
    BY <1>2, <2>8 DEF MetInOrder, MetBefore
  <2>10. Listed(c)
    BY <2>1, <2>4, <2>5, <2>9 DEF Listed, IsInjective
  <2>11. Waiting(c)
    <3>1. ASSUME NEW a \in Candidates(now) \ c.selected, PriorityOf[a] \in c.visited
          PROVE  \/ Settled(c.selected, a)
                 \/ PriorityOf[a] = c.level /\ Looping(c) /\ SourceOf[a] \in ToSet(c.active)
      <4>1. CASE PriorityOf[a] \in selection.visited
        BY <1>0, <1>2, <2>4, <3>1, <4>1 DEF LoopInv, Waiting, Looping
      <4>2. CASE PriorityOf[a] = top
        BY <2>1, <2>4, <3>1, <4>2 DEF Looping
      <4> QED
        BY <2>4, <3>1, <4>1, <4>2
    <3> QED
      BY <3>1 DEF Waiting
  <2>12. Rounds(c)
    <3>1. \A s : Cardinality(AtLevel(c.selected, c.level, s)) = 0
      BY <2>4, <2>7, FS_EmptySet
    <3>2. BetweenRounds(c, 0)
      BY <3>1 DEF BetweenRounds
    <3> QED
      BY <2>4, <2>5, <3>2 DEF Rounds
  <2> QED
    BY <2>4, <2>6, <2>10, <2>11, <2>12
    DEF LoopInv, WithinLimits, OldestTaken, Balanced, Finished
<1> QED
  BY <1>1, <1>2 DEF NextPriority, Full, Filled

LEMMA PassBegins ==
    ASSUME IsFiniteSet(Article), LoopInv(selection), StartPass, NEW c, c = selection'
    PROVE  LoopInv(c)
<1>0. selection \in LoopState /\ selection.step = "pass" /\ selection.turns = <<>>
  BY DEF LoopInv, StartPass, Rounds
<1>1. CASE /\ selection.active = <<>> \/ Filled(selection)
           /\ c = [selection EXCEPT !.step = "priority"]
  <2>1. /\ c \in LoopState /\ c.step = "priority" /\ c.selected = selection.selected
        /\ c.visited = selection.visited /\ c.level = selection.level
        /\ c.active = selection.active /\ c.turns = selection.turns
    BY <1>0, <1>1 DEF LoopState
  <2>2. Filled(selection) \/ ToSet(selection.active) = {}
    BY <1>1 DEF ToSet
  <2>3. Waiting(c)
    BY <2>1, <2>2 DEF LoopInv, Waiting, Filled
  <2>4. Rounds(c)
    BY <1>0, <2>1 DEF Rounds
  <2> QED
    BY <2>1, <2>3, <2>4
    DEF LoopInv, Descending, Listed, WithinLimits, OldestTaken, Balanced, Looping, Finished
<1>2. CASE /\ selection.active # <<>> /\ ~Filled(selection)
           /\ c = [selection EXCEPT !.step = "turn", !.turns = selection.active,
                                    !.progressed = FALSE]
  <2>1. /\ c \in LoopState /\ c.step = "turn" /\ c.selected = selection.selected
        /\ c.visited = selection.visited /\ c.level = selection.level
        /\ c.active = selection.active /\ c.turns = selection.active
    BY <1>0, <1>2 DEF LoopState
  <2>2. Looping(c) /\ Looping(selection)
    BY <1>0, <2>1 DEF Looping
  <2>3. PICK k \in Nat : BetweenRounds(selection, k)
    BY <1>0, <1>2 DEF LoopInv, Rounds
  <2>4. InRound(c, k)
    <3>1. \A s \in Source : Cardinality(AtLevel(c.selected, c.level, s)) <= k
      BY <2>1, <2>3 DEF BetweenRounds
    <3>2. \A s \in Source : Cardinality(AtLevel(c.selected, c.level, s)) \in Nat
      <4>1. \A s : AtLevel(c.selected, c.level, s) \in SUBSET Article
        BY <2>1, SlotsType DEF LoopState, AtLevel
      <4> QED
        BY <4>1, SlotsType
    <3>3. \A s \in Source : /\ Cardinality(AtLevel(c.selected, c.level, s)) <= k + 1
                            /\ Cardinality(AtLevel(c.selected, c.level, s)) # k + 1
      BY <3>1, <3>2
    <3> QED
      BY <2>1, <2>3, <3>3 DEF BetweenRounds, InRound
  <2>5. Rounds(c)
    BY <1>2, <2>1, <2>4 DEF Rounds, Filled
  <2>6. Listed(c)
    BY <2>1, <2>2 DEF LoopInv, Listed
  <2>7. Waiting(c)
    BY <2>1, <2>2 DEF LoopInv, Waiting, Filled
  <2> QED
    BY <2>1, <2>2, <2>5, <2>6, <2>7
    DEF LoopInv, Descending, WithinLimits, OldestTaken, Balanced, Finished
<1> QED
  BY <1>1, <1>2 DEF StartPass, Full, Filled

LEMMA RoundEnds ==
    ASSUME IsFiniteSet(Article), LoopInv(selection), EndPass, NEW c, c = selection'
    PROVE  LoopInv(c)
<1>0. selection \in LoopState /\ selection.step = "turn" /\ selection.turns = <<>>
  BY DEF LoopInv, EndPass
<1>1. /\ c \in LoopState /\ c.step = (IF selection.progressed THEN "pass" ELSE "priority")
      /\ c.selected = selection.selected
      /\ c.visited = selection.visited /\ c.level = selection.level
      /\ c.active = selection.active /\ c.turns = <<>>
  BY <1>0 DEF EndPass, LoopState
<1>2. ToSet(selection.turns) = {} /\ Looping(selection)
  BY <1>0 DEF ToSet, Looping
<1>3. Listed(c)
  BY <1>0, <1>1, <1>2 DEF LoopInv, Listed
<1>4. Waiting(c)
  <2>1. CASE selection.progressed
    BY <1>1, <1>2, <2>1 DEF LoopInv, Waiting, Filled, Looping
  <2>2. CASE ~selection.progressed
    <3>1. ToSet(selection.active) = {}
      BY <1>0, <1>2, <2>2 DEF LoopInv, Rounds
    <3> QED
      BY <1>1, <1>2, <3>1 DEF LoopInv, Waiting, Filled
  <2> QED
    BY <2>1, <2>2
<1>5. Rounds(c)
  <2>1. ASSUME c.step = "pass", ~Filled(c) PROVE \E k \in Nat : BetweenRounds(c, k)
    <3>1. PICK k \in Nat : InRound(selection, k)
      BY <1>0, <1>1, <2>1 DEF LoopInv, Rounds, Filled
    <3>2. BetweenRounds(c, k + 1)
      BY <1>1, <1>2, <3>1 DEF InRound, BetweenRounds
    <3> QED
      BY <3>2
  <2> QED
    BY <1>1, <2>1 DEF Rounds
<1> QED
  BY <1>1, <1>2, <1>3, <1>4, <1>5
  DEF LoopInv, Descending, WithinLimits, OldestTaken, Balanced, Finished, Looping

(***************************************************************************)
(* Lists of sources: the next one is taken off, an exhausted one dropped.  *)
(***************************************************************************)
LEMMA TailIs ==
    ASSUME NEW T, NEW s \in Seq(T), s # <<>>, IsInjective(s)
    PROVE  /\ Tail(s) \in Seq(T) /\ IsInjective(Tail(s))
           /\ Head(s) \in ToSet(s) /\ ToSet(Tail(s)) = ToSet(s) \ {Head(s)}
           /\ Head(s) = s[1] /\ 1 \in DOMAIN s
           /\ \A n \in DOMAIN Tail(s) : n + 1 \in DOMAIN s /\ 1 < n + 1 /\ Tail(s)[n] = s[n + 1]
<1>1. /\ Tail(s) \in Seq(T) /\ Head(s) = s[1] /\ Len(s) \in Nat \ {0}
      /\ DOMAIN s = 1 .. Len(s) /\ DOMAIN Tail(s) = 1 .. Len(s) - 1
      /\ \A n \in 1 .. Len(s) - 1 : Tail(s)[n] = s[n + 1]
  OBVIOUS
<1>2. \A n \in 1 .. Len(s) - 1 : n + 1 \in 1 .. Len(s) /\ 1 < n + 1
  BY <1>1
<1>3. 1 \in 1 .. Len(s)
  BY <1>1
<1>4. \A m, n \in 1 .. Len(s) : s[m] = s[n] => m = n
  BY <1>1 DEF IsInjective
<1>5. IsInjective(Tail(s))
  <2> SUFFICES ASSUME NEW m \in 1 .. Len(s) - 1, NEW n \in 1 .. Len(s) - 1, Tail(s)[m] = Tail(s)[n]
               PROVE  m = n
    BY <1>1 DEF IsInjective
  <2>1. m + 1 = n + 1
    BY <1>1, <1>2, <1>4
  <2> QED
    BY <2>1
<1>6. ToSet(Tail(s)) = ToSet(s) \ {Head(s)}
  <2>1. ASSUME NEW x \in ToSet(Tail(s)) PROVE x \in ToSet(s) /\ x # s[1]
    <3>1. PICK n \in 1 .. Len(s) - 1 : x = s[n + 1]
      BY <1>1, <2>1 DEF ToSet
    <3>2. n + 1 \in 1 .. Len(s) /\ n + 1 # 1
      BY <1>2
    <3> QED
      BY <1>1, <1>3, <1>4, <3>1, <3>2 DEF ToSet
  <2>2. ASSUME NEW x \in ToSet(s), x # s[1] PROVE x \in ToSet(Tail(s))
    <3>1. PICK m \in 1 .. Len(s) : x = s[m] /\ m # 1
      BY <1>1, <2>2 DEF ToSet
    <3>2. PICK n \in 1 .. Len(s) - 1 : m = n + 1
      BY <1>1, <3>1
    <3> QED
      BY <1>1, <3>1, <3>2 DEF ToSet
  <2> QED
    BY <1>1, <2>1, <2>2
<1> QED
  BY <1>1, <1>2, <1>3, <1>5, <1>6 DEF ToSet

LEMMA RemoveAtIs ==
    ASSUME NEW T, NEW s \in Seq(T), NEW i \in 1 .. Len(s)
    PROVE  /\ RemoveAt(s, i) \in Seq(T) /\ Len(RemoveAt(s, i)) = Len(s) - 1
           /\ \A j \in 1 .. Len(s) - 1 :
                 RemoveAt(s, i)[j] = IF j < i THEN s[j] ELSE s[j + 1]
<1> DEFINE front == SubSeq(s, 1, i - 1)
           back == SubSeq(s, i + 1, Len(s))
<1>1. /\ front \in Seq(T) /\ Len(front) = i - 1
      /\ \A j \in 1 .. i - 1 : front[j] = s[j]
  OBVIOUS
<1>2. /\ back \in Seq(T) /\ Len(back) = Len(s) - i
      /\ \A j \in 1 .. Len(s) - i : back[j] = s[i + j]
  OBVIOUS
<1>3. RemoveAt(s, i) = front \o back
  BY DEF RemoveAt
<1> HIDE DEF front, back
<1>4. /\ front \o back \in Seq(T) /\ Len(front \o back) = Len(s) - 1
      /\ \A j \in 1 .. Len(s) - 1 :
            (front \o back)[j] = IF j <= i - 1 THEN front[j] ELSE back[j - (i - 1)]
  <2>1. /\ front \o back \in Seq(T) /\ Len(front \o back) = Len(front) + Len(back)
        /\ \A j \in 1 .. Len(front) + Len(back) :
              (front \o back)[j] = IF j <= Len(front) THEN front[j] ELSE back[j - Len(front)]
    BY <1>1, <1>2, ConcatProperties
  <2>2. Len(front) + Len(back) = Len(s) - 1
    BY <1>1, <1>2
  <2> QED
    BY <1>1, <2>1, <2>2
<1>5. ASSUME NEW j \in 1 .. Len(s) - 1
      PROVE  (front \o back)[j] = IF j < i THEN s[j] ELSE s[j + 1]
  <2>0. j \in Nat \ {0} /\ i \in Nat \ {0} /\ Len(s) \in Nat /\ j <= Len(s) - 1
    OBVIOUS
  <2>1. CASE j < i
    <3>1. j <= i - 1 /\ j \in 1 .. i - 1
      BY <2>0, <2>1
    <3> QED
      BY <1>1, <1>4, <2>1, <3>1
  <2>2. CASE ~(j < i)
    <3>1. ~(j <= i - 1) /\ ~(j < i)
      BY <2>0, <2>2
    <3>2. PICK k \in 1 .. Len(s) - i : k = j - (i - 1) /\ i + k = j + 1
      BY <2>0, <2>2
    <3>3. (front \o back)[j] = back[k]
      BY <1>4, <3>1, <3>2
    <3>4. back[k] = s[j + 1]
      BY <1>2, <3>2
    <3> QED
      BY <3>1, <3>3, <3>4
  <2> QED
    BY <2>1, <2>2
<1> QED
  BY <1>3, <1>4, <1>5

LEMMA RemoveFirstIs ==
    ASSUME NEW T, NEW s \in Seq(T), IsInjective(s), NEW a
    PROVE  /\ a \notin ToSet(s) => RemoveFirst(s, a) = s
           /\ \A i \in 1 .. Len(s) : s[i] = a => RemoveFirst(s, a) = RemoveAt(s, i)
<1>1. a \notin ToSet(s) => RemoveFirst(s, a) = s
  BY DEF RemoveFirst, ToSet
<1>2. ASSUME NEW i \in 1 .. Len(s), s[i] = a PROVE RemoveFirst(s, a) = RemoveAt(s, i)
  <2> DEFINE I == {k \in 1 .. Len(s) : s[k] = a}
  <2>1. I = {i}
    BY <1>2 DEF IsInjective
  <2>2. Min(I) = i
    BY <2>1 DEF Min
  <2>3. SelectInSeq(s, LAMBDA v : v = a) = IF I # {} THEN Min(I) ELSE 0
    BY DEF SelectInSeq
  <2> HIDE DEF I
  <2>4. SelectInSeq(s, LAMBDA v : v = a) = i
    BY <2>1, <2>2, <2>3
  <2>5. RemoveFirst(s, a) = RemoveAt(s, SelectInSeq(s, LAMBDA v : v = a))
    BY <1>2 DEF RemoveFirst
  <2> QED
    BY <2>4, <2>5
<1> QED
  BY <1>1, <1>2

LEMMA RemoveFirstKeepsOrder ==
    ASSUME NEW T, NEW s \in Seq(T), IsInjective(s), NEW a, NEW r, r = RemoveFirst(s, a)
    PROVE  /\ r \in Seq(T) /\ IsInjective(r) /\ ToSet(r) = ToSet(s) \ {a}
           /\ \A m, n \in DOMAIN r : m < n =>
                 \E i, j \in DOMAIN s : i < j /\ r[m] = s[i] /\ r[n] = s[j]
<1>1. CASE a \notin ToSet(s)
  <2>1. r = s
    BY <1>1, RemoveFirstIs
  <2> QED
    BY <1>1, <2>1
<1>2. CASE a \in ToSet(s)
  <2>1. PICK i \in 1 .. Len(s) : s[i] = a
    BY <1>2 DEF ToSet
  <2>2. r = RemoveAt(s, i)
    BY <2>1, RemoveFirstIs
  <2>3. /\ r \in Seq(T) /\ DOMAIN r = 1 .. Len(s) - 1
        /\ \A n \in 1 .. Len(s) - 1 : r[n] = IF n < i THEN s[n] ELSE s[n + 1]
    BY <2>2, RemoveAtIs
  <2> DEFINE at(n) == IF n < i THEN n ELSE n + 1
  <2>4. /\ \A n \in 1 .. Len(s) - 1 : at(n) \in (1 .. Len(s)) \ {i}
        /\ \A m, n \in 1 .. Len(s) - 1 : (m < n => at(m) < at(n)) /\ (at(m) = at(n) => m = n)
        /\ \A m \in (1 .. Len(s)) \ {i} : \E n \in 1 .. Len(s) - 1 : m = at(n)
    <3>1. \A m \in (1 .. Len(s)) \ {i} : \E n \in 1 .. Len(s) - 1 : m = at(n)
      <4> TAKE m \in (1 .. Len(s)) \ {i}
      <4>1. CASE m < i
        BY <4>1
      <4>2. CASE ~(m < i)
        <5>1. m - 1 \in 1 .. Len(s) - 1 /\ ~(m - 1 < i) /\ m = (m - 1) + 1
          BY <4>2
        <5> QED
          BY <5>1
      <4> QED
        BY <4>1, <4>2
    <3> QED
      BY <3>1
  <2>5. \A n \in 1 .. Len(s) - 1 : r[n] = s[at(n)]
    BY <2>3
  <2>6. DOMAIN s = 1 .. Len(s) /\ \A m, n \in 1 .. Len(s) : s[m] = s[n] => m = n
    BY DEF IsInjective
  <2> HIDE DEF at
  <2>7. IsInjective(r)
    <3> SUFFICES ASSUME NEW m \in 1 .. Len(s) - 1, NEW n \in 1 .. Len(s) - 1, r[m] = r[n]
                 PROVE  m = n
      BY <2>3 DEF IsInjective
    <3>1. s[at(m)] = s[at(n)] /\ at(m) \in 1 .. Len(s) /\ at(n) \in 1 .. Len(s)
      BY <2>4, <2>5
    <3>2. at(m) = at(n)
      BY <2>6, <3>1
    <3> QED
      BY <2>4, <3>2
  <2>8. ToSet(r) = ToSet(s) \ {a}
    <3>1. ASSUME NEW x \in ToSet(r) PROVE x \in ToSet(s) /\ x # a
      <4>1. PICK n \in 1 .. Len(s) - 1 : x = s[at(n)]
        BY <2>3, <2>5, <3>1 DEF ToSet
      <4> QED
        BY <2>1, <2>4, <2>6, <4>1 DEF ToSet
    <3>2. ASSUME NEW x \in ToSet(s), x # a PROVE x \in ToSet(r)
      <4>1. PICK m \in (1 .. Len(s)) \ {i} : x = s[m]
        BY <2>1, <2>6, <3>2 DEF ToSet
      <4>2. PICK n \in 1 .. Len(s) - 1 : m = at(n)
        BY <2>4
      <4> QED
        BY <2>3, <2>5, <4>1, <4>2 DEF ToSet
    <3> QED
      BY <3>1, <3>2
  <2>9. ASSUME NEW m \in 1 .. Len(s) - 1, NEW n \in 1 .. Len(s) - 1, m < n
        PROVE  \E k, l \in 1 .. Len(s) : k < l /\ r[m] = s[k] /\ r[n] = s[l]
    <3>1. /\ r[m] = s[at(m)] /\ r[n] = s[at(n)] /\ at(m) < at(n)
          /\ at(m) \in 1 .. Len(s) /\ at(n) \in 1 .. Len(s)
      BY <2>4, <2>5, <2>9
    <3> QED
      BY <3>1
  <2>10. \A m, n \in DOMAIN r : m < n =>
            \E k, l \in DOMAIN s : k < l /\ r[m] = s[k] /\ r[n] = s[l]
    <3> TAKE m, n \in DOMAIN r
    <3> HAVE m < n
    <3>1. m \in 1 .. Len(s) - 1 /\ n \in 1 .. Len(s) - 1
      BY <2>3
    <3>2. PICK k, l \in 1 .. Len(s) : k < l /\ r[m] = s[k] /\ r[n] = s[l]
      BY <2>9, <3>1
    <3>3. k \in DOMAIN s /\ l \in DOMAIN s
      BY <2>6
    <3> QED
      BY <3>2, <3>3
  <2> QED
    BY <2>3, <2>7, <2>8, <2>10
<1> QED
  BY <1>1, <1>2

(***************************************************************************)
(* A turn of a source that leaves the passes.                              *)
(***************************************************************************)
LEMMA TurnPassed ==
    ASSUME IsFiniteSet(Article), LoopInv(selection),
           selection.step = "turn", selection.turns # <<>>,
           NEW source, source = Head(selection.turns), Exhausted(source),
           NEW c, c = [selection EXCEPT !.active = RemoveFirst(@, source), !.turns = Tail(@)]
    PROVE  LoopInv(c)
<1>0. selection \in LoopState /\ Looping(selection)
  BY DEF LoopInv, Looping
<1>1. /\ selection.active \in Seq(Source) /\ selection.turns \in Seq(Source)
      /\ IsInjective(selection.active) /\ IsInjective(selection.turns)
      /\ ToSet(selection.turns) \subseteq ToSet(selection.active)
  BY <1>0 DEF LoopInv, LoopState, Listed
<1>a. PICK rest : rest = RemoveFirst(selection.active, source)
  OBVIOUS
<1>2. /\ rest \in Seq(Source) /\ IsInjective(rest)
      /\ ToSet(rest) = ToSet(selection.active) \ {source}
      /\ \A m, n \in DOMAIN rest : m < n =>
            \E i, j \in DOMAIN selection.active :
               i < j /\ rest[m] = selection.active[i] /\ rest[n] = selection.active[j]
  BY <1>1, <1>a, RemoveFirstKeepsOrder
<1>3. /\ Tail(selection.turns) \in Seq(Source) /\ IsInjective(Tail(selection.turns))
      /\ source \in ToSet(selection.turns)
      /\ ToSet(Tail(selection.turns)) = ToSet(selection.turns) \ {source}
      /\ \A n \in DOMAIN Tail(selection.turns) :
            n + 1 \in DOMAIN selection.turns /\ Tail(selection.turns)[n] = selection.turns[n + 1]
  BY <1>1, TailIs
<1>4. /\ c \in LoopState /\ c.step = "turn" /\ c.selected = selection.selected
      /\ c.visited = selection.visited /\ c.level = selection.level
      /\ c.active = rest /\ c.turns = Tail(selection.turns)
      /\ c.progressed = selection.progressed
  BY <1>0, <1>2, <1>3, <1>a DEF LoopState
<1>5. Looping(c) /\ ~Filled(c) /\ ~Filled(selection)
  BY <1>4 DEF Looping, Filled, LoopInv, Rounds
<1>6. Listed(c)
  <2>1. \A m, n \in DOMAIN c.active : m < n => MetBefore(c.level, c.active[m], c.active[n])
    BY <1>0, <1>2, <1>4 DEF LoopInv, Listed
  <2>2. \A m, n \in DOMAIN c.turns : m < n => MetBefore(c.level, c.turns[m], c.turns[n])
    <3> SUFFICES ASSUME NEW m \in DOMAIN c.turns, NEW n \in DOMAIN c.turns, m < n
                 PROVE  MetBefore(c.level, c.turns[m], c.turns[n])
      OBVIOUS
    <3>1. m \in Nat /\ n \in Nat /\ m + 1 < n + 1
      BY <1>3, <1>4
    <3> QED
      BY <1>0, <1>3, <1>4, <3>1 DEF LoopInv, Listed
  <2>3. ToSet(c.turns) \subseteq ToSet(c.active)
    BY <1>1, <1>2, <1>3, <1>4
  <2> QED
    BY <1>2, <1>3, <1>4, <2>1, <2>2, <2>3 DEF Listed
<1>7. Waiting(c)
  <2>1. ASSUME NEW a \in Candidates(now) \ c.selected, PriorityOf[a] = c.level, SourceOf[a] = source
        PROVE  Settled(c.selected, a)
    <3>1. \A b \in c.selected : PriorityOf[b] >= PriorityOf[a]
      <4>1. \A b \in c.selected : c.level <= PriorityOf[b]
        BY <1>4 DEF LoopInv, Descending
      <4> QED
        BY <1>4, <2>1, <4>1, SlotsType DEF LoopState
    <3>2. a \in Queue(selection.level, source)
      BY <1>4, <2>1 DEF Queue
    <3>3. SourceCount(source, now) + Cardinality(OfSource(c.selected, source)) >= MaxSource
      BY <1>4, <3>2 DEF Exhausted, OfSource
    <3> QED
      BY <2>1, <3>1, <3>3, UsedAtLevel DEF Settled
  <2> QED
    BY <1>2, <1>4, <1>5, <2>1 DEF LoopInv, Waiting, Filled, Looping
<1>8. Rounds(c)
  <2>1. ~c.progressed => ToSet(c.active) \subseteq ToSet(c.turns)
    BY <1>2, <1>3, <1>4 DEF LoopInv, Rounds
  <2>2. PICK k \in Nat : InRound(selection, k)
    BY <1>5 DEF LoopInv, Rounds
  <2>3. InRound(c, k)
    BY <1>2, <1>3, <1>4, <2>2 DEF InRound
  <2> QED
    BY <1>4, <1>5, <2>1, <2>3 DEF Rounds
<1>9. Descending(c)
  BY <1>0, <1>4, <1>5 DEF LoopInv, Descending
<1>10. WithinLimits(c) /\ OldestTaken(c)
  BY <1>4 DEF LoopInv, WithinLimits, OldestTaken
<1>11. Balanced(c) /\ Finished(c)
  BY <1>4 DEF LoopInv, Balanced, Finished
<1> QED
  BY <1>4, <1>6, <1>7, <1>8, <1>9, <1>10, <1>11 DEF LoopInv

(***************************************************************************)
(* A turn of a source that gets a slot.                                    *)
(***************************************************************************)
LEMMA TurnTaken ==
    ASSUME IsFiniteSet(Article), LoopInv(selection),
           selection.step = "turn", selection.turns # <<>>,
           NEW source, source = Head(selection.turns), ~Exhausted(source),
           NEW a \in Queue(selection.level, source),
           \A b \in Queue(selection.level, source) : ~Older(b, a, now),
           NEW c, c = [selection EXCEPT
                          !.selected = @ \cup {a}, !.progressed = TRUE,
                          !.turns = IF Cardinality(selection.selected) + 1 >= FreeSlots(now)
                                    THEN <<>> ELSE Tail(@)]
    PROVE  LoopInv(c)
<1> DEFINE S == selection.selected
           p == selection.level
           taken(s) == Cardinality(AtLevel(selection.selected, p, s))
           Taken(s) == Cardinality(AtLevel(c.selected, p, s))
<1>0. selection \in LoopState /\ Looping(selection) /\ ~Filled(selection)
  BY DEF LoopInv, Looping, Rounds
<1>1. /\ S \subseteq Candidates(now) /\ S \subseteq Article /\ Cardinality(S) \in Nat
      /\ Candidates(now) \subseteq Article
  BY <1>0, SlotsType DEF LoopState
<1>2. a \in Candidates(now) \ S /\ PriorityOf[a] = p /\ SourceOf[a] = source /\ a \in Article \ S
  BY <1>1 DEF Queue
<1>3. /\ selection.turns \in Seq(Source) /\ IsInjective(selection.turns)
      /\ ToSet(selection.turns) \subseteq ToSet(selection.active)
  BY <1>0 DEF LoopInv, LoopState, Listed
<1>4. /\ Tail(selection.turns) \in Seq(Source) /\ IsInjective(Tail(selection.turns))
      /\ source \in ToSet(selection.turns)
      /\ ToSet(Tail(selection.turns)) = ToSet(selection.turns) \ {source}
      /\ source = selection.turns[1] /\ 1 \in DOMAIN selection.turns
      /\ \A n \in DOMAIN Tail(selection.turns) :
            n + 1 \in DOMAIN selection.turns /\ Tail(selection.turns)[n] = selection.turns[n + 1]
  BY <1>3, TailIs
<1>5. /\ c \in LoopState /\ c.step = "turn" /\ c.selected = S \cup {a}
      /\ c.visited = selection.visited /\ c.level = p
      /\ c.active = selection.active /\ c.progressed = TRUE
      /\ c.turns = IF Cardinality(S) + 1 >= FreeSlots(now) THEN <<>> ELSE Tail(selection.turns)
  <2>1. S \cup {a} \in SUBSET Candidates(now)
    BY <1>1, <1>2
  <2>2. (IF Cardinality(S) + 1 >= FreeSlots(now) THEN <<>> ELSE Tail(selection.turns)) \in Seq(Source)
    BY <1>4
  <2> QED
    BY <1>0, <2>1, <2>2 DEF LoopState
<1>6. Looping(c)
  BY <1>5 DEF Looping
<1>7. /\ Cardinality(c.selected) = Cardinality(S) + 1
      /\ \A q, s : IF q = p /\ s = source
                   THEN Cardinality(AtLevel(c.selected, q, s)) = Cardinality(AtLevel(S, q, s)) + 1
                   ELSE AtLevel(c.selected, q, s) = AtLevel(S, q, s)
      /\ \A s : IF s = source
                THEN Cardinality(OfSource(c.selected, s)) = Cardinality(OfSource(S, s)) + 1
                ELSE OfSource(c.selected, s) = OfSource(S, s)
  <2>1. /\ Cardinality(S \cup {a}) = Cardinality(S) + 1
        /\ \A q, s : IF PriorityOf[a] = q /\ SourceOf[a] = s
              THEN Cardinality(AtLevel(S \cup {a}, q, s)) = Cardinality(AtLevel(S, q, s)) + 1
              ELSE AtLevel(S \cup {a}, q, s) = AtLevel(S, q, s)
        /\ \A s : IF SourceOf[a] = s
                  THEN Cardinality(OfSource(S \cup {a}, s)) = Cardinality(OfSource(S, s)) + 1
                  ELSE OfSource(S \cup {a}, s) = OfSource(S, s)
    BY <1>1, <1>2, OneMoreTaken
  <2>2. ASSUME NEW q, NEW s
        PROVE  IF q = p /\ s = source
               THEN Cardinality(AtLevel(c.selected, q, s)) = Cardinality(AtLevel(S, q, s)) + 1
               ELSE AtLevel(c.selected, q, s) = AtLevel(S, q, s)
    <3>1. CASE q = p /\ s = source
      BY <1>2, <1>5, <2>1, <3>1
    <3>2. CASE ~(q = p /\ s = source)
      <4>1. ~(PriorityOf[a] = q /\ SourceOf[a] = s)
        BY <1>2, <3>2
      <4>2. AtLevel(S \cup {a}, q, s) = AtLevel(S, q, s)
        BY <2>1, <4>1
      <4> QED
        BY <1>5, <3>2, <4>2
    <3> QED
      BY <3>1, <3>2
  <2>3. ASSUME NEW s
        PROVE  IF s = source
               THEN Cardinality(OfSource(c.selected, s)) = Cardinality(OfSource(S, s)) + 1
               ELSE OfSource(c.selected, s) = OfSource(S, s)
    BY <1>2, <1>5, <2>1
  <2> QED
    BY <1>5, <2>1, <2>2, <2>3
<1>8. PICK k \in Nat : InRound(selection, k)
  BY <1>0 DEF LoopInv, Rounds
<1>9. /\ \A s \in ToSet(selection.turns) : taken(s) = k
      /\ \A s \in ToSet(selection.active) \ ToSet(selection.turns) : taken(s) = k + 1
      /\ \A s \in Source : taken(s) <= k + 1
      /\ \A s \in Source, u \in ToSet(selection.turns) : taken(s) = k + 1 => MetBefore(p, s, u)
  BY <1>8 DEF InRound
<1>10. Taken(source) = k + 1 /\ \A s : s # source => Taken(s) = taken(s)
  BY <1>4, <1>7, <1>9
<1>11. \A u \in ToSet(selection.turns) : u # source => MetBefore(p, source, u)
  <2> TAKE u \in ToSet(selection.turns)
  <2> HAVE u # source
  <2>1. PICK n \in DOMAIN selection.turns : u = selection.turns[n]
    BY DEF ToSet
  <2>2. n \in Nat \ {0} /\ n # 1
    BY <1>3, <1>4, <2>1
  <2>3. 1 < n
    BY <2>2
  <2> QED
    BY <1>0, <1>4, <2>1, <2>3 DEF LoopInv, Listed
<1>12. \A s \in Source : Taken(s) <= k + 1 /\ Taken(s) \in Nat
  <2>1. \A s : AtLevel(c.selected, p, s) \in SUBSET Article
    BY <1>1, <1>2, <1>5 DEF AtLevel
  <2>2. \A s : Taken(s) \in Nat
    BY <2>1, SlotsType
  <2>3. ASSUME NEW s \in Source PROVE Taken(s) <= k + 1
    <3>1. CASE s = source
      BY <1>10, <3>1
    <3>2. CASE s # source
      <4>1. Taken(s) = taken(s) /\ taken(s) <= k + 1
        BY <1>9, <1>10, <3>2
      <4> QED
        BY <4>1
    <3> QED
      BY <3>1, <3>2
  <2> QED
    BY <2>2, <2>3
<1>13. \A s \in Source, u \in ToSet(selection.turns) \ {source} :
          Taken(s) = k + 1 => MetBefore(p, s, u)
  BY <1>9, <1>10, <1>11
<1>14. \A x : Settled(S, x) => Settled(c.selected, x)
  <2>1. S \in SUBSET c.selected /\ c.selected \in SUBSET Article
    BY <1>1, <1>2, <1>5
  <2> QED
    BY <2>1, SettledStays
<1>15. Descending(c)
  BY <1>0, <1>2, <1>5, <1>6 DEF LoopInv, Descending
<1>16. Listed(c)
  <2>1. CASE c.turns = <<>>
    <3>1. ToSet(c.turns) = {} /\ DOMAIN c.turns = {}
      BY <2>1 DEF ToSet
    <3> QED
      BY <1>0, <1>5, <3>1 DEF LoopInv, Listed, IsInjective
  <2>2. CASE c.turns = Tail(selection.turns)
    <3>1. \A m, n \in DOMAIN c.turns : m < n => MetBefore(c.level, c.turns[m], c.turns[n])
      <4> SUFFICES ASSUME NEW m \in DOMAIN c.turns, NEW n \in DOMAIN c.turns, m < n
                   PROVE  MetBefore(c.level, c.turns[m], c.turns[n])
        OBVIOUS
      <4>1. m \in Nat /\ n \in Nat /\ m + 1 < n + 1
        BY <1>4, <2>2
      <4> QED
        BY <1>0, <1>4, <1>5, <2>2, <4>1 DEF LoopInv, Listed
    <3>2. ToSet(c.turns) \subseteq ToSet(c.active)
      BY <1>3, <1>4, <1>5, <2>2
    <3> QED
      BY <1>0, <1>4, <1>5, <2>2, <3>1, <3>2 DEF LoopInv, Listed
  <2> QED
    BY <1>5, <2>1, <2>2
<1>17. WithinLimits(c)
  <2>1. Cardinality(c.selected) <= FreeSlots(now)
    BY <1>0, <1>1, <1>7, SlotsType DEF Filled
  <2>2. Cardinality(OfSource(S, source)) \in Nat
    <3>1. OfSource(S, source) \in SUBSET Article
      BY <1>1 DEF OfSource
    <3> QED
      BY <3>1, SlotsType
  <2>3. SourceCount(source, now) + Cardinality(OfSource(c.selected, source)) <= MaxSource
    <3>1. ~(SourceCount(source, now) + Cardinality(OfSource(S, source)) >= MaxSource)
      BY DEF Exhausted, OfSource
    <3> QED
      <4>1. SourceCount(source, now) \in Nat /\ MaxSource \in Nat
        BY SlotsType
      <4>2. Cardinality(OfSource(c.selected, source)) = Cardinality(OfSource(S, source)) + 1
        BY <1>7
      <4> QED
        BY <2>2, <3>1, <4>1, <4>2
  <2>4. ASSUME NEW b \in c.selected, SourceOf[b] # source
        PROVE  SourceCount(SourceOf[b], now) + Cardinality(OfSource(c.selected, SourceOf[b])) <= MaxSource
    <3>1. b \in S
      BY <1>2, <1>5, <2>4
    <3> QED
      BY <1>7, <2>4, <3>1 DEF LoopInv, WithinLimits
  <2> QED
    BY <2>1, <2>3, <2>4 DEF WithinLimits
<1>18. OldestTaken(c)
  <2> SUFFICES ASSUME NEW b \in c.selected, NEW x \in Candidates(now) \ c.selected, SameBucket(x, b)
               PROVE  ~Older(x, b, now)
    BY DEF OldestTaken
  <2>1. CASE b \in S
    BY <1>5, <2>1 DEF LoopInv, OldestTaken
  <2>2. CASE b = a
    <3>1. x \in Queue(p, source)
      BY <1>2, <1>5, <2>2 DEF Queue, SameBucket
    <3> QED
      BY <2>2, <3>1
  <2> QED
    BY <1>5, <2>1, <2>2
<1>19. Waiting(c)
  <2> SUFFICES ASSUME NEW x \in Candidates(now) \ c.selected, PriorityOf[x] \in c.visited,
                      ~Settled(c.selected, x)
               PROVE  PriorityOf[x] = c.level /\ SourceOf[x] \in ToSet(c.active)
    BY <1>6 DEF Waiting
  <2> QED
    BY <1>0, <1>5, <1>14 DEF LoopInv, Waiting
<1>20. Balanced(c)
  <2> SUFFICES ASSUME NEW x \in Candidates(now) \ c.selected, NEW b \in c.selected,
                      PriorityOf[x] = PriorityOf[b], SourceOf[x] # SourceOf[b],
                      ~Settled(c.selected, x)
               PROVE  \/ Turns(c.selected, b) <= Turns(c.selected, x)
                      \/ /\ Turns(c.selected, b) = Turns(c.selected, x) + 1
                         /\ MetBefore(PriorityOf[x], SourceOf[b], SourceOf[x])
    BY DEF Balanced
  <2>0. x \in Candidates(now) \ S /\ ~Settled(S, x)
    BY <1>5, <1>14
  <2>1. CASE PriorityOf[x] # p
    <3>1. b \in S
      BY <1>2, <1>5, <2>1
    <3>2. Turns(c.selected, b) = Turns(S, b) /\ Turns(c.selected, x) = Turns(S, x)
      BY <1>7, <2>1, TurnsIs
    <3> QED
      BY <2>0, <3>1, <3>2 DEF LoopInv, Balanced
  <2>2. CASE PriorityOf[x] = p
    <3>1. SourceOf[x] \in ToSet(selection.active)
      <4>1. PriorityOf[x] \in selection.visited
        BY <1>0, <2>2 DEF LoopInv, Descending
      <4> QED
        BY <1>0, <2>0, <4>1 DEF LoopInv, Waiting
    <3>2. SourceOf[x] \in Source /\ SourceOf[b] \in Source
      BY <1>1, <1>2, <1>5, SlotsType
    <3>3. Turns(c.selected, b) = Taken(SourceOf[b]) /\ Turns(c.selected, x) = Taken(SourceOf[x])
      BY <2>2, TurnsIs
    <3>4. CASE Taken(SourceOf[x]) = k + 1
      BY <1>12, <3>2, <3>3, <3>4
    <3>5. CASE Taken(SourceOf[x]) # k + 1
      <4>1. SourceOf[x] \in ToSet(selection.turns) \ {source} /\ Taken(SourceOf[x]) = k
        BY <1>9, <1>10, <3>1, <3>5
      <4>2. CASE Taken(SourceOf[b]) = k + 1
        BY <1>13, <2>2, <3>2, <3>3, <4>1, <4>2
      <4>3. CASE Taken(SourceOf[b]) # k + 1
        <5>1. Taken(SourceOf[b]) \in Nat /\ Taken(SourceOf[b]) <= k + 1
          BY <1>12, <3>2
        <5>2. Taken(SourceOf[b]) <= Taken(SourceOf[x])
          BY <4>1, <4>3, <5>1
        <5> QED
          BY <3>3, <5>2
      <4> QED
        BY <4>2, <4>3
    <3> QED
      BY <3>4, <3>5
  <2> QED
    BY <2>1, <2>2
<1>21. Rounds(c)
  <2>1. c.turns # <<>> => ~Filled(c)
    BY <1>5, <1>7 DEF Filled
  <2>2. ASSUME ~Filled(c) PROVE InRound(c, k)
    <3>1. ToSet(c.turns) = ToSet(selection.turns) \ {source}
      BY <1>4, <1>5, <1>7, <2>2 DEF Filled
    <3>2. \A s \in ToSet(c.turns) : Taken(s) = k
      BY <1>9, <1>10, <3>1
    <3>3. \A s \in ToSet(c.active) \ ToSet(c.turns) : Taken(s) = k + 1
      BY <1>5, <1>9, <1>10, <3>1
    <3> QED
      BY <1>5, <1>12, <1>13, <3>1, <3>2, <3>3 DEF InRound
  <2> QED
    BY <1>5, <2>1, <2>2 DEF Rounds
<1> QED
  BY <1>5, <1>15, <1>16, <1>17, <1>18, <1>19, <1>20, <1>21 DEF LoopInv, Finished

(***************************************************************************)
(* The loops do not touch the store.                                       *)
(***************************************************************************)
LEMMA Carried ==
    ASSUME UNCHANGED storeVars, NEW c, c = selection', LoopInv(c)
    PROVE  LoopInv(selection)'
<1>1. /\ articles' = articles /\ jobs' = jobs /\ delivered' = delivered
      /\ posts' = posts /\ lastPost' = lastPost /\ reposts' = reposts /\ now' = now
  BY DEF storeVars, store, channels
<1>2. /\ Candidates(now)' = Candidates(now) /\ FreeSlots(now)' = FreeSlots(now)
      /\ Eligible(now)' = Eligible(now)
  BY <1>1 DEF Candidates, FreeSlots, Eligible, Consumed, RecentSuccesses, LiveClaims
<1>3. \A s : SourceCount(s, now)' = SourceCount(s, now)
  BY <1>1 DEF SourceCount, Consumed, RecentSuccesses, LiveClaims
<1>4. \A a, b : Older(a, b, now)' = Older(a, b, now)
  BY <1>1, <1>2 DEF Older
<1>5. \A S, a : SourceUse(S, a, now)' = SourceUse(S, a, now)
  BY <1>3 DEF SourceUse
<1>6. \A p, s, u : MetBefore(p, s, u)' = MetBefore(p, s, u)
  BY <1>2, <1>4 DEF MetBefore
<1>7. \A S, a : Settled(S, a)' = Settled(S, a)
  BY <1>5 DEF Settled
<1>8. Filled(selection)' = Filled(c) /\ Looping(selection)' = Looping(c)
  BY <1>2 DEF Filled, Looping
<1>9. Descending(selection)' /\ Listed(selection)' /\ (selection \in LoopState)'
  BY <1>2, <1>6, <1>8 DEF LoopInv, LoopState, Descending, Listed
<1>10. WithinLimits(selection)' /\ OldestTaken(selection)'
  BY <1>2, <1>3, <1>4 DEF LoopInv, WithinLimits, OldestTaken
<1>11. Waiting(selection)' /\ Balanced(selection)'
  BY <1>2, <1>6, <1>7, <1>8 DEF LoopInv, Waiting, Balanced
<1>12. Rounds(selection)'
  <2>1. \A k : /\ InRound(c, k) => InRound(selection, k)'
               /\ BetweenRounds(c, k) => BetweenRounds(selection, k)'
    BY <1>6 DEF InRound, BetweenRounds
  <2> QED
    BY <1>8, <2>1 DEF LoopInv, Rounds
<1>13. Finished(selection)'
  BY <1>2, <1>8 DEF LoopInv, Finished
<1> QED
  BY <1>9, <1>10, <1>11, <1>12, <1>13 DEF LoopInv

LEMMA LoopInvHolds == ASSUME IsFiniteSet(Article) PROVE SelectionSpec => []LoopInv(selection)
<1>1. SelectionInit => LoopInv(selection)
  BY LoopStarts
<1>2. LoopInv(selection) /\ [SelectionNext]_selectionVars => LoopInv(selection)'
  <2> SUFFICES ASSUME LoopInv(selection), [SelectionNext]_selectionVars
               PROVE  LoopInv(selection)'
    OBVIOUS
  <2>0. PICK c : c = selection'
    OBVIOUS
  <2>1. CASE NextPriority
    <3>1. LoopInv(c) /\ UNCHANGED storeVars
      BY <2>0, <2>1, PriorityBegins DEF NextPriority
    <3> QED
      BY <2>0, <3>1, Carried
  <2>2. CASE StartPass
    <3>1. LoopInv(c) /\ UNCHANGED storeVars
      BY <2>0, <2>2, PassBegins DEF StartPass
    <3> QED
      BY <2>0, <3>1, Carried
  <2>3. CASE EndPass
    <3>1. LoopInv(c) /\ UNCHANGED storeVars
      BY <2>0, <2>3, RoundEnds DEF EndPass
    <3> QED
      BY <2>0, <3>1, Carried
  <2>4. CASE TakeTurn
    <3>0. PICK source : source = Head(selection.turns)
      OBVIOUS
    <3>1. CASE Exhausted(source)
      <4>1. c = [selection EXCEPT !.active = RemoveFirst(@, source), !.turns = Tail(@)]
        BY <2>0, <2>4, <3>0, <3>1 DEF TakeTurn
      <4>2. LoopInv(c)
        BY <2>4, <3>0, <3>1, <4>1, TurnPassed DEF TakeTurn
      <4> QED
        BY <2>0, <2>4, <4>2, Carried DEF TakeTurn
    <3>2. CASE ~Exhausted(source)
      <4>1. PICK a \in Queue(selection.level, source) :
               /\ \A b \in Queue(selection.level, source) : ~Older(b, a, now)
               /\ c = [selection EXCEPT
                          !.selected = @ \cup {a}, !.progressed = TRUE,
                          !.turns = IF Cardinality(selection.selected) + 1 >= FreeSlots(now)
                                    THEN <<>> ELSE Tail(@)]
        BY <2>0, <2>4, <3>0, <3>2 DEF TakeTurn
      <4>2. LoopInv(c)
        BY <2>4, <3>0, <3>2, <4>1, TurnTaken DEF TakeTurn
      <4> QED
        BY <2>0, <2>4, <4>2, Carried DEF TakeTurn
    <3> QED
      BY <3>1, <3>2
  <2>5. CASE UNCHANGED selectionVars
    <3>1. c = selection /\ UNCHANGED storeVars
      BY <2>0, <2>5 DEF selectionVars
    <3> QED
      BY <2>0, <3>1, Carried
  <2> QED
    BY <2>1, <2>2, <2>3, <2>4, <2>5 DEF SelectionNext
<1> QED
  BY <1>1, <1>2, PTL DEF SelectionSpec

LEMMA FairWhenDone ==
    ASSUME IsFiniteSet(Article), LoopInv(selection), selection.step = "done"
    PROVE  FairSelection(selection.selected, now)
<1> DEFINE S == selection.selected
<1>1. /\ S \subseteq Candidates(now) /\ S \subseteq Article /\ Cardinality(S) \in Nat
      /\ Cardinality(S) <= FreeSlots(now) /\ FreeSlots(now) \in Nat
      /\ selection.level \in Nat /\ ~Looping(selection)
  BY SlotsType DEF LoopInv, LoopState, WithinLimits, Looping
<1>2. ASSUME NEW a \in S PROVE SourceUse(S, a, now) <= MaxSource
  <2> DEFINE urgent == {b \in S : SourceOf[b] = SourceOf[a] /\ PriorityOf[b] >= PriorityOf[a]}
  <2>1. urgent \subseteq OfSource(S, SourceOf[a]) /\ OfSource(S, SourceOf[a]) \subseteq Article
        /\ urgent \subseteq Article
    BY <1>1 DEF OfSource
  <2>2. /\ IsFiniteSet(OfSource(S, SourceOf[a])) /\ Cardinality(OfSource(S, SourceOf[a])) \in Nat
        /\ Cardinality(urgent) \in Nat
    BY <2>1, SlotsType
  <2>3. Cardinality(urgent) <= Cardinality(OfSource(S, SourceOf[a]))
    BY <2>1, <2>2, FS_Subset
  <2>4. SourceCount(SourceOf[a], now) + Cardinality(OfSource(S, SourceOf[a])) <= MaxSource
    BY DEF LoopInv, WithinLimits
  <2>5. SourceUse(S, a, now) = SourceCount(SourceOf[a], now) + Cardinality(urgent)
    BY DEF SourceUse
  <2> HIDE DEF urgent
  <2>6. SourceCount(SourceOf[a], now) \in Nat /\ MaxSource \in Nat
    BY SlotsType
  <2> QED
    BY <2>2, <2>3, <2>4, <2>5, <2>6
<1>3. ASSUME NEW a \in Candidates(now) \ S, ~Settled(S, a)
      PROVE  /\ Cardinality(S) = FreeSlots(now)
             /\ \A b \in S : MayPrecede(b, a, S, now)
  <2>1. Filled(selection) /\ (PriorityOf[a] \in selection.visited => PriorityOf[a] = selection.level)
    BY <1>1, <1>3 DEF LoopInv, Waiting, Finished
  <2>2. Cardinality(S) = FreeSlots(now)
    BY <1>1, <2>1 DEF Filled
  <2>3. ASSUME NEW b \in S PROVE MayPrecede(b, a, S, now)
    <3>1. PriorityOf[a] \in Nat /\ PriorityOf[b] \in Nat
      BY <1>1, <1>3, <2>3, SlotsType
    <3>2. PriorityOf[b] >= PriorityOf[a]
      <4>1. PriorityOf[b] \in selection.visited /\ selection.level <= PriorityOf[b]
        BY <2>3 DEF LoopInv, Descending
      <4>2. PriorityOf[a] \notin selection.visited => PriorityOf[a] < PriorityOf[b]
        BY <1>3, <4>1 DEF LoopInv, Descending
      <4> QED
        BY <2>1, <3>1, <4>1, <4>2
    <3>3. SameBucket(a, b) => ~Older(a, b, now)
      BY <1>3, <2>3 DEF LoopInv, OldestTaken
    <3>4. ASSUME PriorityOf[b] = PriorityOf[a], SourceOf[b] # SourceOf[a]
          PROVE  \/ Turns(S, b) <= Turns(S, a)
                 \/ /\ Turns(S, b) = Turns(S, a) + 1
                    /\ \E d \in Candidates(now) :
                          /\ SameBucket(d, b)
                          /\ \A x \in Candidates(now) : SameBucket(x, a) => ~Older(x, d, now)
      <4>1. CASE Turns(S, b) <= Turns(S, a)
        BY <4>1
      <4>2. CASE /\ Turns(S, b) = Turns(S, a) + 1
                 /\ MetBefore(PriorityOf[a], SourceOf[b], SourceOf[a])
        <5>1. PICK d \in AtLevel(Candidates(now), PriorityOf[a], SourceOf[b]) :
                 \A x \in AtLevel(Candidates(now), PriorityOf[a], SourceOf[a]) : ~Older(x, d, now)
          BY <4>2 DEF MetBefore
        <5>2. d \in Candidates(now) /\ SameBucket(d, b)
          BY <3>4 DEF AtLevel, SameBucket
        <5>3. \A x \in Candidates(now) : SameBucket(x, a) => ~Older(x, d, now)
          BY <5>1 DEF AtLevel, SameBucket
        <5> QED
          BY <4>2, <5>2, <5>3
      <4> QED
        BY <1>3, <2>3, <3>4, <4>1, <4>2 DEF LoopInv, Balanced
    <3> QED
      BY <3>2, <3>3, <3>4 DEF MayPrecede
  <2> QED
    BY <2>2, <2>3
<1>4. \A a \in Candidates(now) \ S, b \in S : SameBucket(a, b) => ~Older(a, b, now)
  BY DEF LoopInv, OldestTaken
<1> QED
  BY <1>1, <1>2, <1>3, <1>4 DEF FairSelection, Settled

(***************************************************************************)
(* Whatever the queue holds and in whatever order jobs of the same age are *)
(* met, the loops end with a fair selection.                               *)
(***************************************************************************)
THEOREM SelectionsAreFair == ASSUME IsFiniteSet(Article) PROVE SelectionSpec => []SelectsFairly
<1>1. LoopInv(selection) => SelectsFairly
  BY FairWhenDone DEF SelectsFairly
<1> QED
  BY <1>1, LoopInvHolds, PTL

-----------------------------------------------------------------------------
(***************************************************************************)
(* A fair selection is the only one when no two articles are of one age.   *)
(***************************************************************************)
\* The fewer are more urgent, the more urgent it is.
LEMMA MostUrgent ==
    ASSUME IsFiniteSet(Article), NEW D \in SUBSET Article, D # {}
    PROVE  \E a \in D : \A b \in D : PriorityOf[b] <= PriorityOf[a]
<1> DEFINE above(a) == {b \in D : PriorityOf[b] > PriorityOf[a]}
           T == {Cardinality(above(a)) : a \in D}
<1>1. \A a \in D : above(a) \in SUBSET Article
  OBVIOUS
<1>2. \A a \in D : IsFiniteSet(above(a)) /\ Cardinality(above(a)) \in Nat
  BY <1>1, SlotsType
<1>3. T \in SUBSET Nat /\ T # {}
  BY <1>2
<1>4. PICK n \in T : \A m \in T : n <= m
  <2> HIDE DEF T
  <2> QED
    BY <1>3, LeastOf
<1>5. PICK a \in D : Cardinality(above(a)) = n
  OBVIOUS
<1>6. ASSUME NEW b \in D, ~(PriorityOf[b] <= PriorityOf[a]) PROVE FALSE
  <2>1. PriorityOf[a] \in Nat /\ PriorityOf[b] \in Nat
    BY SlotsType
  <2>2. b \in above(a) /\ b \notin above(b)
    BY <1>6, <2>1
  <2>3. above(b) \in SUBSET above(a)
    <3>1. \A d \in D : PriorityOf[d] \in Nat
      BY SlotsType
    <3> QED
      BY <1>6, <2>1, <3>1
  <2>4. Cardinality(above(a)) <= Cardinality(above(b))
    BY <1>4, <1>5
  <2> HIDE DEF above
  <2>5. Cardinality(above(b)) <= Cardinality(above(a))
    BY <1>2, <2>3, FS_Subset
  <2>6. Cardinality(above(b)) = Cardinality(above(a))
    BY <1>2, <2>4, <2>5
  <2>7. above(b) = above(a)
    BY <1>2, <2>3, <2>6, FS_Subset
  <2> QED
    BY <2>2, <2>7
<1> QED
  BY <1>6

DistinctAges == \A j, k \in Eligible(now) : jobs[j].created = jobs[k].created => j[1] = k[1]

\* Of two candidates one is older than the other.
LEMMA AgesOrdered ==
    ASSUME DistinctAges, \A j \in Job : jobs[j].created \in Nat,
           NEW a \in Candidates(now), NEW b \in Candidates(now), a # b
    PROVE  Older(a, b, now) \/ Older(b, a, now)
<1>0. \A x \in Candidates(now) : \E j \in Eligible(now) :
        j[1] = x /\ \A k \in Eligible(now) : k[1] = x => jobs[j].created <= jobs[k].created
  <2> TAKE x \in Candidates(now)
  <2> DEFINE E == {j \in Eligible(now) : j[1] = x}
             T == {jobs[j].created : j \in E}
  <2>1. T \in SUBSET Nat /\ T # {}
    BY DEF Candidates, Eligible
  <2>2. PICK n \in T : \A m \in T : n <= m
    <3> HIDE DEF T
    <3> QED
      BY <2>1, LeastOf
  <2>3. PICK j \in E : jobs[j].created = n
    OBVIOUS
  <2> QED
    BY <2>2, <2>3
<1>1. PICK j \in Eligible(now) :
        j[1] = a /\ \A k \in Eligible(now) : k[1] = a => jobs[j].created <= jobs[k].created
  BY <1>0
<1>2. PICK l \in Eligible(now) :
        l[1] = b /\ \A k \in Eligible(now) : k[1] = b => jobs[l].created <= jobs[k].created
  BY <1>0
<1>3. \A k \in Eligible(now) : jobs[k].created \in Nat
  BY DEF Eligible
<1>4. jobs[j].created # jobs[l].created
  BY <1>1, <1>2 DEF DistinctAges
<1>5. CASE jobs[j].created < jobs[l].created
  <2>1. \A k \in Eligible(now) : k[1] = b => jobs[j].created < jobs[k].created
    BY <1>2, <1>3, <1>5
  <2> QED
    BY <1>1, <2>1 DEF Older
<1>6. CASE jobs[l].created < jobs[j].created
  <2>1. \A k \in Eligible(now) : k[1] = a => jobs[l].created < jobs[k].created
    BY <1>1, <1>3, <1>6
  <2> QED
    BY <1>2, <2>1 DEF Older
<1> QED
  BY <1>3, <1>4, <1>5, <1>6

(***************************************************************************)
(* Two selections that agree on what is more urgent than a: the one that   *)
(* passes a over took less of its bucket, and had no slot for it.          *)
(***************************************************************************)
LEMMA PassedOver ==
    ASSUME IsFiniteSet(Article), DistinctAges, \A j \in Job : jobs[j].created \in Nat,
           NEW S \in SUBSET Candidates(now), NEW R \in SUBSET Candidates(now),
           FairSelection(S, now), FairSelection(R, now), NEW a \in R \ S,
           \A x \in Candidates(now) : PriorityOf[x] > PriorityOf[a] => (x \in S <=> x \in R)
    PROVE  /\ AtLevel(S, PriorityOf[a], SourceOf[a]) \subseteq AtLevel(R, PriorityOf[a], SourceOf[a])
           /\ Turns(S, a) < Turns(R, a) /\ Turns(S, a) \in Nat /\ Turns(R, a) \in Nat
           /\ Cardinality(S) = FreeSlots(now)
           /\ \A b \in S : MayPrecede(b, a, S, now)
<1> DEFINE bucket(T) == AtLevel(T, PriorityOf[a], SourceOf[a])
           urgent(T) == {b \in T : SourceOf[b] = SourceOf[a] /\ PriorityOf[b] >= PriorityOf[a]}
<1>1. S \subseteq Article /\ R \subseteq Article /\ a \in Candidates(now) \ S
  BY SlotsType
<1>2. bucket(S) \in SUBSET bucket(R)
  <2> SUFFICES ASSUME NEW b \in bucket(S), b \notin R PROVE FALSE
    BY DEF AtLevel
  <2>1. b \in S /\ SameBucket(a, b) /\ SameBucket(b, a) /\ b \in Candidates(now) \ R /\ a # b
    BY DEF AtLevel, SameBucket
  <2>2. ~Older(a, b, now)
    BY <1>1, <2>1 DEF FairSelection, MayPrecede
  <2>3. ~Older(b, a, now)
    BY <2>1 DEF FairSelection, MayPrecede
  <2> QED
    BY <1>1, <2>1, <2>2, <2>3, AgesOrdered
<1>3. a \in bucket(R) /\ a \notin bucket(S) /\ a \in urgent(R) /\ a \notin urgent(S)
  <2>1. PriorityOf[a] \in Nat
    BY <1>1, SlotsType
  <2> QED
    BY <2>1 DEF AtLevel
<1>4. urgent(S) \in SUBSET urgent(R)
  <2> SUFFICES ASSUME NEW b \in urgent(S) PROVE b \in R
    OBVIOUS
  <2>1. PriorityOf[b] \in Nat /\ PriorityOf[a] \in Nat
    BY <1>1, SlotsType
  <2>2. CASE PriorityOf[b] = PriorityOf[a]
    BY <1>2, <2>2 DEF AtLevel
  <2>3. CASE PriorityOf[b] > PriorityOf[a]
    BY <2>3
  <2> QED
    BY <2>1, <2>2, <2>3
<1>5. \A T \in SUBSET R : \A Q \in SUBSET T :
         a \in T /\ a \notin Q => /\ Cardinality(Q) < Cardinality(T)
                                  /\ Cardinality(Q) \in Nat /\ Cardinality(T) \in Nat
  <2> TAKE T \in SUBSET R
  <2> TAKE Q \in SUBSET T
  <2> HAVE a \in T /\ a \notin Q
  <2>1. IsFiniteSet(T) /\ Cardinality(Q) \in Nat /\ Cardinality(T) \in Nat
    BY <1>1, SlotsType
  <2>2. Cardinality(Q) <= Cardinality(T) /\ (Cardinality(T) = Cardinality(Q) => T = Q)
    BY <2>1, FS_Subset
  <2> QED
    BY <2>1, <2>2
<1>6. /\ Cardinality(bucket(S)) < Cardinality(bucket(R))
      /\ Cardinality(bucket(S)) \in Nat /\ Cardinality(bucket(R)) \in Nat
  <2>1. bucket(R) \in SUBSET R
    BY DEF AtLevel
  <2> HIDE DEF bucket
  <2> QED
    BY <1>2, <1>3, <1>5, <2>1
<1>7. Turns(S, a) = Cardinality(bucket(S)) /\ Turns(R, a) = Cardinality(bucket(R))
  BY TurnsIs
<1>8. ~(SourceUse(S, a, now) >= MaxSource)
  <2>1. /\ Cardinality(urgent(S)) < Cardinality(urgent(R))
        /\ Cardinality(urgent(S)) \in Nat /\ Cardinality(urgent(R)) \in Nat
    <3>1. urgent(R) \in SUBSET R
      OBVIOUS
    <3> HIDE DEF urgent
    <3> QED
      BY <1>3, <1>4, <1>5, <3>1
  <2>2. /\ SourceUse(S, a, now) = SourceCount(SourceOf[a], now) + Cardinality(urgent(S))
        /\ SourceUse(R, a, now) = SourceCount(SourceOf[a], now) + Cardinality(urgent(R))
    BY DEF SourceUse
  <2>3. SourceUse(R, a, now) <= MaxSource
    BY DEF FairSelection
  <2>4. SourceCount(SourceOf[a], now) \in Nat /\ MaxSource \in Nat
    BY SlotsType
  <2> HIDE DEF urgent
  <2> QED
    BY <2>1, <2>2, <2>3, <2>4
<1>9. Cardinality(S) = FreeSlots(now) /\ \A b \in S : MayPrecede(b, a, S, now)
  BY <1>1, <1>8 DEF FairSelection
<1> QED
  BY <1>2, <1>6, <1>7, <1>9

LEMMA OneFairSelection ==
    ASSUME IsFiniteSet(Article), DistinctAges, \A j \in Job : jobs[j].created \in Nat,
           NEW S \in SUBSET Candidates(now), NEW R \in SUBSET Candidates(now),
           FairSelection(S, now), FairSelection(R, now)
    PROVE  S = R
<1> DEFINE Differ(P, Q, a) ==
      /\ a \in Q \ P
      /\ \A x \in (P \ Q) \cup (Q \ P) : PriorityOf[x] <= PriorityOf[a]
<1>1. ASSUME NEW P \in SUBSET Candidates(now), NEW Q \in SUBSET Candidates(now),
             FairSelection(P, now), FairSelection(Q, now), NEW a \in Q \ P, Differ(P, Q, a)
      PROVE  FALSE
  <2>1. P \subseteq Article /\ Q \subseteq Article /\ Candidates(now) \subseteq Article
    BY SlotsType
  <2>2. \A x \in Candidates(now) : PriorityOf[x] > PriorityOf[a] => (x \in P <=> x \in Q)
    <3> SUFFICES ASSUME NEW x \in Candidates(now), PriorityOf[x] > PriorityOf[a],
                        ~(x \in P <=> x \in Q)
                 PROVE  FALSE
      OBVIOUS
    <3>1. PriorityOf[x] <= PriorityOf[a]
      BY <1>1
    <3>2. PriorityOf[x] \in Nat /\ PriorityOf[a] \in Nat
      BY <1>1, <2>1, SlotsType
    <3> QED
      BY <3>1, <3>2
  <2> HIDE DEF Differ
  <2>3. /\ AtLevel(P, PriorityOf[a], SourceOf[a]) \subseteq AtLevel(Q, PriorityOf[a], SourceOf[a])
        /\ Turns(P, a) < Turns(Q, a) /\ Turns(P, a) \in Nat /\ Turns(Q, a) \in Nat
        /\ Cardinality(P) = FreeSlots(now)
        /\ \A b \in P : MayPrecede(b, a, P, now)
    BY <1>1, <2>2, PassedOver
  <2>4. PICK d \in P : d \notin Q
    <3> SUFFICES ASSUME P \in SUBSET Q PROVE FALSE
      OBVIOUS
    <3>1. IsFiniteSet(Q) /\ Cardinality(Q) \in Nat /\ Cardinality(P) \in Nat
      BY <2>1, SlotsType
    <3>2. Cardinality(Q) <= Cardinality(P)
      BY <1>1, <2>3 DEF FairSelection
    <3>3. Cardinality(P) <= Cardinality(Q) /\ (Cardinality(Q) = Cardinality(P) => Q = P)
      BY <3>1, FS_Subset
    <3> QED
      BY <1>1, <3>1, <3>2, <3>3
  <2>5. PriorityOf[d] = PriorityOf[a]
    <3>1. PriorityOf[d] >= PriorityOf[a]
      BY <2>3 DEF MayPrecede
    <3>2. PriorityOf[d] <= PriorityOf[a]
      BY <1>1, <2>4 DEF Differ
    <3>3. PriorityOf[d] \in Nat /\ PriorityOf[a] \in Nat
      BY <1>1, <2>1, SlotsType
    <3> QED
      BY <3>1, <3>2, <3>3
  <2>6. SourceOf[d] # SourceOf[a]
    BY <2>3, <2>4, <2>5 DEF AtLevel
  <2>7. /\ Turns(Q, d) < Turns(P, d) /\ Turns(P, d) \in Nat /\ Turns(Q, d) \in Nat
        /\ \A b \in Q : MayPrecede(b, d, Q, now)
    <3>1. \A x \in Candidates(now) : PriorityOf[x] > PriorityOf[d] => (x \in Q <=> x \in P)
      BY <2>2, <2>5
    <3>2. d \in P \ Q
      BY <2>4
    <3> QED
      BY <1>1, <3>1, <3>2, PassedOver
  <2>8. \/ Turns(P, d) <= Turns(P, a)
        \/ /\ Turns(P, d) = Turns(P, a) + 1
           /\ \E c \in Candidates(now) :
                 /\ SameBucket(c, d)
                 /\ \A x \in Candidates(now) : SameBucket(x, a) => ~Older(x, c, now)
    BY <2>3, <2>5, <2>6 DEF MayPrecede
  <2>9. \/ Turns(Q, a) <= Turns(Q, d)
        \/ /\ Turns(Q, a) = Turns(Q, d) + 1
           /\ \E c \in Candidates(now) :
                 /\ SameBucket(c, a)
                 /\ \A x \in Candidates(now) : SameBucket(x, d) => ~Older(x, c, now)
    BY <1>1, <2>5, <2>6, <2>7 DEF MayPrecede
  <2>10. ~(Turns(P, d) <= Turns(P, a)) /\ ~(Turns(Q, a) <= Turns(Q, d))
    BY <2>3, <2>7, <2>8, <2>9
  <2>11. PICK c \in Candidates(now) :
            /\ SameBucket(c, d)
            /\ \A x \in Candidates(now) : SameBucket(x, a) => ~Older(x, c, now)
    BY <2>8, <2>10
  <2>12. PICK e \in Candidates(now) :
            /\ SameBucket(e, a)
            /\ \A x \in Candidates(now) : SameBucket(x, d) => ~Older(x, e, now)
    BY <2>9, <2>10
  <2>13. c # e /\ ~Older(e, c, now) /\ ~Older(c, e, now)
    BY <2>6, <2>11, <2>12 DEF SameBucket
  <2> QED
    BY <2>13, AgesOrdered
<1>2. ASSUME S # R PROVE FALSE
  <2> DEFINE D == (S \ R) \cup (R \ S)
  <2>1. D \in SUBSET Article /\ D # {}
    BY <1>2, SlotsType
  <2>2. PICK a \in D : \A b \in D : PriorityOf[b] <= PriorityOf[a]
    <3> HIDE DEF D
    <3> QED
      BY <2>1, MostUrgent
  <2>3. CASE a \in R \ S
    BY <1>1, <2>2, <2>3
  <2>4. CASE a \in S \ R
    <3>1. Differ(R, S, a)
      BY <2>2, <2>4
    <3> QED
      BY <1>1, <2>4, <3>1
  <2> QED
    BY <2>3, <2>4
<1> QED
  BY <1>2

(***************************************************************************)
(* With jobs of different ages the loops end with the one fair selection:  *)
(* the order in which they meet priorities and sources is no choice.       *)
(***************************************************************************)
LEMMA AgesKnown == SelectionSpec => [](\A j \in Job : jobs[j].created \in Nat)
<1>1. SelectionInit => \A j \in Job : jobs[j].created \in Nat
  <2> SUFFICES ASSUME SelectionInit, NEW j \in Job PROVE jobs[j].created \in Nat
    OBVIOUS
  <2>1. jobs[j] \in {Queued(age) : age \in Ages} \cup {Claimed(Queued(1), now)}
    BY DEF SelectionInit
  <2>2. \A age \in Ages : Queued(age).created \in Nat
    BY AgesAssumption DEF AgesAssumption, Queued, NoRow
  <2>3. Claimed(Queued(1), now).created \in Nat
    BY DEF Claimed, Queued, NoRow
  <2> QED
    BY <2>1, <2>2, <2>3
<1>2. (\A j \in Job : jobs[j].created \in Nat) /\ [SelectionNext]_selectionVars
      => (\A j \in Job : jobs[j].created \in Nat)'
  BY DEF SelectionNext, NextPriority, StartPass, TakeTurn, EndPass, selectionVars, storeVars, store
<1> QED
  BY <1>1, <1>2, PTL DEF SelectionSpec

THEOREM OnlySelection == ASSUME IsFiniteSet(Article) PROVE SelectionSpec => []SelectionDetermined
<1>1. LoopInv(selection) /\ (\A j \in Job : jobs[j].created \in Nat) => SelectionDetermined
  <2> SUFFICES ASSUME LoopInv(selection), \A j \in Job : jobs[j].created \in Nat,
                      selection.step = "done", DistinctAges,
                      NEW S \in SUBSET Candidates(now), FairSelection(S, now)
               PROVE  S = selection.selected
    BY DEF SelectionDetermined, DistinctAges
  <2>1. FairSelection(selection.selected, now) /\ selection.selected \in SUBSET Candidates(now)
    BY FairWhenDone DEF LoopInv, LoopState
  <2> QED
    BY <2>1, OneFairSelection
<1> QED
  BY <1>1, LoopInvHolds, AgesKnown, PTL

=============================================================================
