----------------------------- MODULE Enrichment -----------------------------
(***************************************************************************)
(* The chain of AI adapters an article goes through: the fallback provider *)
(* asks its providers in order, each behind a resilient adapter that       *)
(* repeats a call that raised or timed out.  With an answer, or when all   *)
(* have failed and the feed's text stays, the article goes on.  (What the  *)
(* answer says is left out.)                                               *)
(***************************************************************************)
EXTENDS Integers

CONSTANTS
    Providers,      \* how many providers the chain has; none: AI is disabled
    CallAttempts    \* max_attempts of a resilient adapter

ASSUME EnrichmentAssumption == Providers \in Nat /\ CallAttempts \in Nat \ {0}

(***************************************************************************)
(* How a call ends: with an answer, with a result that is not a success,   *)
(* by raising, or not before its timeout.  The thread of a call that timed *)
(* out runs on, but nobody reads its answer any more.                      *)
(***************************************************************************)
CallOutcome == {"answered", "refused", "raised", "late"}

Call == [provider : 0 .. Providers, attempt : 0 .. CallAttempts]

NoCall == [provider |-> 0, attempt |-> 0]

FirstCall == [provider |-> 1, attempt |-> 1]

(***************************************************************************)
(* A provider that refuses is not asked again.                             *)
(***************************************************************************)
AskedAgain(call, outcome) ==
    outcome \in {"raised", "late"} /\ call.attempt < CallAttempts

Decided(call, outcome) ==
    \/ outcome = "answered"
    \/ ~AskedAgain(call, outcome) /\ call.provider = Providers

NextCall(call, outcome) ==
    IF AskedAgain(call, outcome)
    THEN [call EXCEPT !.attempt = @ + 1]
    ELSE [FirstCall EXCEPT !.provider = call.provider + 1]

=============================================================================
