---------------------------- MODULE SourceHealth ----------------------------
(***************************************************************************)
(* SourceManager and ingest_source: each enabled source is fetched and     *)
(* parsed, and its health follows from how that ended.  The record is      *)
(* memory of the process.                                                  *)
(***************************************************************************)
EXTENDS Integers

CONSTANTS
    Source,   \* the sources the manager knows
    GiveUp    \* failures in a row after which a source is disabled: 3

ASSUME SourceAssumption == GiveUp \in Nat \ {0}

VARIABLES
    health,   \* Source -> [enabled, status, failures]
    raised    \* Source -> polls in a row that raised

healthVars == <<health, raised>>

Reply == {"unreachable", "malformed", "empty", "stale", "live"}

HealthTypeOK ==
    /\ health \in [Source -> [enabled : BOOLEAN, status : {"healthy", "degraded", "failed"},
                              failures : 0 .. GiveUp]]
    /\ raised \in [Source -> 0 .. GiveUp]

NewSource == [enabled |-> TRUE, status |-> "healthy", failures |-> 0]

HealthInit ==
    /\ health = [s \in Source |-> NewSource]
    /\ raised = [s \in Source |-> 0]

Enabled == {s \in Source : health[s].enabled}

Raises(reply) == reply \in {"unreachable", "malformed"}

\* Mutant: the failures of a source add up over its life.
FailuresAfterEver(s, reply) == health[s].failures + (IF Raises(reply) THEN 1 ELSE 0)

(***************************************************************************)
(* A fetched payload resets the failures before it is parsed: one that     *)
(* cannot be parsed counts as the first failure again.                     *)
(***************************************************************************)
FailuresAfter(s, reply) ==
    CASE reply = "unreachable" -> health[s].failures + 1
      [] reply = "malformed"   -> 1
      [] OTHER                 -> 0

HealthAfter(s, reply) ==
    LET failures == FailuresAfter(s, reply)
    IN  [enabled  |-> (Raises(reply) => failures < GiveUp),
         status   |-> IF Raises(reply) /\ failures >= GiveUp THEN "failed"
                      ELSE IF reply = "live" THEN "healthy" ELSE "degraded",
         failures |-> failures]

Poll(s, reply) ==
    /\ s \in Enabled
    /\ health' = [health EXCEPT ![s] = HealthAfter(s, reply)]
    /\ raised' = [raised EXCEPT ![s] = IF ~Raises(reply) THEN 0
                                      ELSE IF @ < GiveUp THEN @ + 1 ELSE @]

Forget ==
    /\ health' = [s \in Source |-> NewSource]
    /\ raised' = [s \in Source |-> 0]

-----------------------------------------------------------------------------
(***************************************************************************)
(* A source is given up for good only when that many polls in a row        *)
(* raised; feeds that come and go, or go stale, are kept.                  *)
(***************************************************************************)
GivenUpJustly == \A s \in Source : ~health[s].enabled => raised[s] >= GiveUp

=============================================================================
