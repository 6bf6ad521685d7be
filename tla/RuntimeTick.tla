----------------------------- MODULE RuntimeTick -----------------------------
(***************************************************************************)
(* The runtime that "yasinpress run" builds: a tick ingests the feeds if   *)
(* their interval is due and then runs one publication cycle, in the same  *)
(* thread.  With one process, ingestion and publication never overlap but  *)
(* time passes, and the process may die, between any two of their steps.   *)
(* With more processes on one database their ticks interleave.             *)
(***************************************************************************)
EXTENDS FeedIngestion, QueueProcessor

vars == <<storeVars, intake, cycle>>

TypeOK == StoreTypeOK /\ IntakeTypeOK /\ CycleTypeOK

Init == StoreInit /\ IntakeInit /\ CycleInit

(***************************************************************************)
(* run_due and run_once come first in a tick, process_cycle second; a due  *)
(* fetch waits for the next tick.                                          *)
(***************************************************************************)
IngestStep(p) ==
    /\ cycle[p].step = "idle"
    /\ Ingest(p)
    /\ UNCHANGED cycle

StartCycle(p) ==
    /\ intake[p].step \in {"idle", "done"}
    /\ RecoverLeases(p)
    /\ intake' = [intake EXCEPT ![p] = NoIntake]

CycleStepOf(p) == PublishBatch(p) /\ UNCHANGED intake

(***************************************************************************)
(* What the process held in memory is gone; what it committed stays.       *)
(***************************************************************************)
Crash(p) ==
    /\ intake[p] # NoIntake \/ cycle[p] # Idle
    /\ LoseCycle(p)
    /\ intake' = [intake EXCEPT ![p] = NoIntake]
    /\ UNCHANGED storeVars

TickStep == PassTime /\ UNCHANGED intake

Next ==
    \/ TickStep
    \/ \E p \in Process : IngestStep(p) \/ StartCycle(p) \/ CycleStepOf(p) \/ Crash(p)

Spec == Init /\ [][Next]_vars

-----------------------------------------------------------------------------
(***************************************************************************)
(* The runtime implements the delivery contract: through ingestion, lease  *)
(* recovery, retries and crashes, a job is acknowledged only after its key *)
(* was marked, its key is marked only after a real post, and a job that is *)
(* acknowledged posts nothing before ingestion queues it again.            *)
(***************************************************************************)
Contract == INSTANCE DeliveryContract WITH
    Version  <- NewsTime \cup {0},
    received <- posts,
    vouched  <- legacyKeys,
    acked    <- {j \in Job : jobs[j].status = "succeeded"}

ImplementsContract == Contract!ContractSpec

(***************************************************************************)
(* A retried job is acknowledged only for a version that was posted: a     *)
(* publish that failed is made up for, not written off.                    *)
(***************************************************************************)
RetriedIsPosted ==
    [][\A j \in Job :
         jobs[j].attempts > 1 /\ jobs[j].status = "processing" /\ jobs'[j].status = "succeeded"
           => <<j, articles[j[1]].ts>> \in posts]_vars

=============================================================================
