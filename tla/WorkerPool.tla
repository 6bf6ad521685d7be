----------------------------- MODULE WorkerPool -----------------------------
(***************************************************************************)
(* Workers on the publication engine and processes that ingest feeds, all  *)
(* on one database.                                                        *)
(***************************************************************************)
EXTENDS FeedIngestion, QueueEngine

CONSTANT Ingester    \* the processes that ingest

ASSUME PoolAssumption == Ingester \subseteq Process

vars == <<storeVars, intake, claim>>

TypeOK == StoreTypeOK /\ IntakeTypeOK /\ ClaimTypeOK

Init ==
    /\ StoreInit
    /\ IntakeInit
    /\ ClaimInit

(***************************************************************************)
(* Nothing makes the processes wait for each other: a batch is ingested    *)
(* beside the claims, and what it lists may be claimed before it is saved. *)
(***************************************************************************)
IngestStep(p) ==
    /\ \/ Ingest(p)
       \/ /\ intake[p].step = "done"
          /\ intake' = [intake EXCEPT ![p] = NoIntake]
          /\ UNCHANGED storeVars
    /\ UNCHANGED claim

WorkStep(w) ==
    /\ RecoverLeases(w) \/ RunOnce(w) \/ LoseClaim(w)
    /\ UNCHANGED intake

TickStep == PassTime /\ UNCHANGED intake

Next ==
    \/ TickStep
    \/ \E p \in Ingester : IngestStep(p)
    \/ \E w \in Worker : WorkStep(w)

Spec == Init /\ [][Next]_vars

-----------------------------------------------------------------------------
(***************************************************************************)
(* A key vouches for a real post, and a version key goes with the key of   *)
(* its article.                                                            *)
(***************************************************************************)
KeyHasPost ==
    /\ \A j \in legacyKeys : \E post \in posts : post[1] = j
    /\ \A key \in versionKeys : key[1] \in legacyKeys

(***************************************************************************)
(* The articles the limits account for and those being worked on together  *)
(* fit the global and the per source limit.                                *)
(***************************************************************************)
SlotsWithinLimits ==
    LET reserved == Consumed(now) \cup
                    {claim[w].job[1] : w \in {v \in Worker : claim[v].step # "idle"}}
    IN  /\ Cardinality(reserved) <= MaxGlobal
        /\ \A s \in Source : Cardinality({a \in reserved : SourceOf[a] = s}) <= MaxSource

=============================================================================
