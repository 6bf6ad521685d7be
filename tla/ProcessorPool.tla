---------------------------- MODULE ProcessorPool ----------------------------
(***************************************************************************)
(* Several processes run publication cycles on one database, as            *)
(* overlapping ticks do, on a backlog that ingestion left behind: nothing  *)
(* is queued while they run.                                               *)
(***************************************************************************)
EXTENDS QueueProcessor

CONSTANT Backlog   \* bound: when the articles of the backlog were queued

ASSUME BacklogAssumption == Backlog \subseteq Nat \ {0}

poolVars == <<storeVars, cycle>>

PoolTypeOK == StoreTypeOK /\ CycleTypeOK

PoolInit == BacklogInit(Backlog) /\ CycleInit

Die(p) ==
    /\ cycle[p] # Idle
    /\ LoseCycle(p)
    /\ UNCHANGED storeVars

PoolNext ==
    \/ PassTime
    \/ \E p \in Process : RecoverLeases(p) \/ PublishBatch(p) \/ Die(p)

PoolSpec == PoolInit /\ [][PoolNext]_poolVars

(***************************************************************************)
(* The clock advances, a process that is alive starts cycle after cycle,   *)
(* and a cycle that runs goes on: run_forever ticks until it is stopped.   *)
(***************************************************************************)
PoolFairness ==
    /\ WF_poolVars(PassTime)
    /\ \A p \in Process : WF_poolVars(RecoverLeases(p)) /\ WF_poolVars(PublishBatch(p))

PoolFairSpec == PoolSpec /\ PoolFairness

-----------------------------------------------------------------------------
(***************************************************************************)
(* No claim outlives its lease for ever, though the process that made it   *)
(* may have died: some process completes the job or takes it back          *)
(* (queue_processor.py:31-62).                                             *)
(***************************************************************************)
ClaimsEnd ==
    \A j \in Job :
        jobs[j].status = "processing" /\ jobs[j].lease <= MaxTime
          ~> jobs[j].status # "processing"

(***************************************************************************)
(* The processes of a pool together implement the delivery contract, and   *)
(* as nothing is queued while they run, its final form: when one of them   *)
(* has acknowledged a job, none posts it, and nobody takes the             *)
(* acknowledgement back (queue_processor.py:241-281).  The backlog has one *)
(* version of each article; zero is the date of an absent one.             *)
(***************************************************************************)
Contract == INSTANCE DeliveryContract WITH
    Version  <- {0, 1},
    received <- posts,
    vouched  <- legacyKeys,
    acked    <- {j \in Job : jobs[j].status = "succeeded"}

ImplementsFinalContract == Contract!FinalSpec

=============================================================================
