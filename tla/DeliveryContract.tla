-------------------------- MODULE DeliveryContract --------------------------
(***************************************************************************)
(* What the publication path promises about each job, an article and a     *)
(* destination, whatever its leases, retries and restarts do: at-least-    *)
(* once delivery with a durable acknowledgement.  A destination receives   *)
(* versions of the article; only a job whose destination received one is   *)
(* vouched for by an idempotency key; only a vouched job is acknowledged;  *)
(* and an acknowledged job publishes nothing until it is reopened.         *)
(***************************************************************************)
CONSTANTS Job, Version

VARIABLES
    received,   \* the <<job, version>> that reached their destination
    vouched,    \* the jobs with an idempotency key
    acked       \* the jobs acknowledged as published

contractVars == <<received, vouched, acked>>

ContractInit == received = {} /\ vouched = {} /\ acked = {}

Deliver(j, v) ==
    /\ j \notin acked
    /\ received' = received \cup {<<j, v>>}
    /\ UNCHANGED <<vouched, acked>>

Vouch(j) ==
    /\ \E m \in received : m[1] = j
    /\ vouched' = vouched \cup {j}
    /\ UNCHANGED <<received, acked>>

Acknowledge(j) ==
    /\ j \in vouched
    /\ acked' = acked \cup {j}
    /\ UNCHANGED <<received, vouched>>

Reopen(j) ==
    /\ acked' = acked \ {j}
    /\ UNCHANGED <<received, vouched>>

ContractNext ==
    \E j \in Job :
        \/ \E v \in Version : Deliver(j, v)
        \/ Vouch(j) \/ Acknowledge(j) \/ Reopen(j)

ContractSpec == ContractInit /\ [][ContractNext]_contractVars

(***************************************************************************)
(* The same while nothing is queued afresh: an acknowledgement is final.   *)
(***************************************************************************)
FinalNext ==
    \E j \in Job : (\E v \in Version : Deliver(j, v)) \/ Vouch(j) \/ Acknowledge(j)

FinalSpec == ContractInit /\ [][FinalNext]_contractVars

=============================================================================
