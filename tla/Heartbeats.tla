----------------------------- MODULE Heartbeats -----------------------------
(***************************************************************************)
(* The heartbeat watchdog: components register and touch their heartbeats  *)
(* from their own threads while one supervisor inspects them and calls a   *)
(* recovery callback for those that have gone silent.  An inspection reads *)
(* the clock once and works through the dictionary of heartbeats.          *)
(***************************************************************************)
EXTENDS Integers, FiniteSets

CONSTANTS
    Component,    \* the names of the components
    NoComponent,  \* nobody
    StaleAfter,   \* WatchdogPolicy.stale_after
    Cooldown,     \* WatchdogPolicy.recovery_cooldown
    MaxRecovery,  \* WatchdogPolicy.max_recovery_attempts
    MaxTime       \* bound of the clock

ASSUME HeartbeatAssumption ==
    /\ NoComponent \notin Component
    /\ StaleAfter \in Nat \ {0} /\ Cooldown \in Nat \ {0}
    /\ MaxRecovery \in Nat \ {0} /\ MaxTime \in Nat

VARIABLES
    now,           \* the clock
    heartbeats,    \* Component -> its heartbeat
    lastRecovery,  \* Component -> when a recovery that did not succeed was called
    inspection,    \* the inspection in progress
    calls,         \* Component -> how often its recovery was called
    spent          \* Component -> the calls since a registration or a success

vars == <<now, heartbeats, lastRecovery, inspection, calls, spent>>

Never == -1
Time == 0 .. MaxTime

Heartbeat ==
    [known : BOOLEAN, seen : Time, state : {"healthy", "degraded", "failed"},
     attempts : 0 .. MaxRecovery]

Unknown == [known |-> FALSE, seen |-> 0, state |-> "healthy", attempts |-> 0]

Known == {c \in Component : heartbeats[c].known}

Idle ==
    [step |-> "idle", current |-> 0, todo |-> {}, seen |-> {}, target |-> NoComponent,
     recovers |-> FALSE, detached |-> FALSE]

TypeOK ==
    /\ now \in Time
    /\ heartbeats \in [Component -> Heartbeat]
    /\ lastRecovery \in [Component -> Time \cup {Never}]
    /\ inspection \in [step : {"idle", "visit", "recover"}, current : Time,
                       todo : SUBSET Component, seen : SUBSET Component,
                       target : Component \cup {NoComponent},
                       recovers : BOOLEAN, detached : BOOLEAN]
    /\ calls \in [Component -> Nat]
    /\ spent \in [Component -> Nat]

Init ==
    /\ now = 0
    /\ heartbeats = [c \in Component |-> Unknown]
    /\ lastRecovery = [c \in Component |-> Never]
    /\ inspection = Idle
    /\ calls = [c \in Component |-> 0]
    /\ spent = [c \in Component |-> 0]

-----------------------------------------------------------------------------
(***************************************************************************)
(* A registration puts a new heartbeat in the dictionary, and an           *)
(* inspection that waits for a recovery keeps the old one in its hands; a  *)
(* touch keeps the heartbeat and its attempts.                             *)
(***************************************************************************)
Register(c) ==
    /\ heartbeats' = [heartbeats EXCEPT ![c] = [Unknown EXCEPT !.known = TRUE, !.seen = now]]
    /\ spent' = [spent EXCEPT ![c] = 0]
    /\ inspection' = [inspection EXCEPT !.detached = @ \/ inspection.target = c]
    /\ UNCHANGED <<now, lastRecovery, calls>>

\* Mutant: a component that reports regains its attempts.
TouchedAnew(c, when) == [heartbeats[c] EXCEPT !.seen = when, !.state = "healthy", !.attempts = 0]

Touched(c, when) == [heartbeats[c] EXCEPT !.seen = when, !.state = "healthy"]

Touch(c) ==
    \/ c \notin Known /\ Register(c)
    \/ /\ c \in Known
       /\ heartbeats' = [heartbeats EXCEPT ![c] = Touched(c, now)]
       /\ UNCHANGED <<now, lastRecovery, inspection, calls, spent>>

-----------------------------------------------------------------------------
BeginInspection ==
    /\ inspection.step = "idle"
    /\ \E recovers \in BOOLEAN :
          inspection' = [Idle EXCEPT !.step = "visit", !.current = now, !.todo = Known,
                                     !.seen = Known, !.recovers = recovers]
    /\ UNCHANGED <<now, heartbeats, lastRecovery, calls, spent>>

Silent(c) == inspection.current - heartbeats[c].seen > StaleAfter

\* Mutant: no cooldown.
CoolingNever(c) == FALSE

Cooling(c) ==
    lastRecovery[c] # Never /\ inspection.current - lastRecovery[c] < Cooldown

Spent(c) == heartbeats[c].attempts >= MaxRecovery

Visited(c) == inspection' = [inspection EXCEPT !.todo = @ \ {c}]

(***************************************************************************)
(* A heartbeat in the dictionary.  Without a callback, or while the last   *)
(* recovery cools down, a silent component is only degraded; with its      *)
(* attempts used up, it is failed.                                         *)
(***************************************************************************)
\* Mutant: the first heartbeat that is not silent ends the loop.
VisitLiveLeaving(c) ==
    /\ ~Silent(c)
    /\ inspection' = [inspection EXCEPT !.todo = {}]
    /\ UNCHANGED <<heartbeats, lastRecovery, calls, spent>>

VisitLive(c) ==
    /\ ~Silent(c)
    /\ Visited(c)
    /\ UNCHANGED <<heartbeats, lastRecovery, calls, spent>>

Mark(c, state) ==
    /\ heartbeats' = [heartbeats EXCEPT ![c].state = state]
    /\ Visited(c)
    /\ UNCHANGED <<lastRecovery, calls, spent>>

VisitSilent(c) ==
    /\ Silent(c)
    /\ \/ ~inspection.recovers /\ Mark(c, "degraded")
       \/ /\ inspection.recovers
          /\ \/ Spent(c) /\ Mark(c, "failed")
             \/ ~Spent(c) /\ Cooling(c) /\ Mark(c, "degraded")

CallRecovery(c) ==
    /\ Silent(c) /\ inspection.recovers /\ ~Spent(c) /\ ~Cooling(c)
    /\ heartbeats' = [heartbeats EXCEPT ![c].state = "degraded", ![c].attempts = @ + 1]
    /\ lastRecovery' = [lastRecovery EXCEPT ![c] = inspection.current]
    /\ calls' = [calls EXCEPT ![c] = @ + 1]
    /\ spent' = [spent EXCEPT ![c] = @ + 1]
    /\ inspection' = [inspection EXCEPT !.step = "recover", !.todo = @ \ {c}, !.target = c]

(***************************************************************************)
(* The iteration goes on only if no new name came into the dictionary.     *)
(***************************************************************************)
Visit ==
    /\ inspection.step = "visit" /\ inspection.seen = Known
    /\ \E c \in inspection.todo : VisitLive(c) \/ VisitSilent(c) \/ CallRecovery(c)
    /\ UNCHANGED now

(***************************************************************************)
(* The end of the loop, or the RuntimeError of a changed dictionary.       *)
(***************************************************************************)
EndInspection ==
    /\ inspection.step = "visit"
    /\ inspection.todo = {} \/ inspection.seen # Known
    /\ inspection' = Idle
    /\ UNCHANGED <<now, heartbeats, lastRecovery, calls, spent>>

Resume == inspection' = [inspection EXCEPT !.step = "visit", !.target = NoComponent,
                                                !.detached = FALSE]

(***************************************************************************)
(* Meanwhile the component may have been touched, and the result is        *)
(* written over that.                                                      *)
(***************************************************************************)
Write(heartbeat) ==
    heartbeats' = IF inspection.detached THEN heartbeats
                  ELSE [heartbeats EXCEPT ![inspection.target] = heartbeat]

Recovered ==
    /\ inspection.step = "recover"
    /\ LET c == inspection.target
       IN  /\ Write([Touched(c, inspection.current) EXCEPT !.attempts = 0])
           /\ lastRecovery' = [lastRecovery EXCEPT ![c] = Never]
           /\ spent' = [spent EXCEPT ![c] = 0]
    /\ Resume
    /\ UNCHANGED <<now, calls>>

NotRecovered ==
    /\ inspection.step = "recover"
    /\ LET c == inspection.target
       IN  Write([heartbeats[c] EXCEPT !.state = IF Spent(c) THEN "failed" ELSE @])
    /\ Resume
    /\ UNCHANGED <<now, lastRecovery, calls, spent>>

PassTime ==
    /\ now < MaxTime
    /\ now' = now + 1
    /\ UNCHANGED <<heartbeats, lastRecovery, inspection, calls, spent>>

Inspect == BeginInspection \/ Visit \/ EndInspection \/ Recovered \/ NotRecovered

Next ==
    \/ PassTime \/ Inspect
    \/ \E c \in Component : Register(c) \/ Touch(c)

(***************************************************************************)
(* The supervisor goes on inspecting, and its callbacks return.            *)
(***************************************************************************)
Spec == Init /\ [][Next]_vars /\ WF_vars(Inspect)

-----------------------------------------------------------------------------
(***************************************************************************)
(* No restart loops: however components die, report and register again,    *)
(* and whatever the recoveries return, two recoveries of a component are   *)
(* apart by the cooldown or by the silence that follows a success.         *)
(***************************************************************************)
Apart == IF Cooldown <= StaleAfter THEN Cooldown ELSE StaleAfter + 1

RecoveriesRationed == \A c \in Component : calls[c] <= (now \div Apart) + 1

(***************************************************************************)
(* Recovery is bounded: only a success or a registration gives a component *)
(* new attempts, not the touches of one that keeps stalling.               *)
(***************************************************************************)
RecoveriesBounded == \A c \in Component : spent[c] <= MaxRecovery

(***************************************************************************)
(* A component fails only after all its recoveries failed, though touches  *)
(* and registrations come between a recovery and its result.               *)
(***************************************************************************)
FailedSpent ==
    \A c \in Component : heartbeats[c].state = "failed" => spent[c] >= MaxRecovery

(***************************************************************************)
(* A component that stays silent is noticed, though inspections break off  *)
(* when another one registers.                                             *)
(***************************************************************************)
SilenceNoticed ==
    \A c \in Component :
        c \in Known /\ now = MaxTime /\ now - heartbeats[c].seen > StaleAfter
            ~> heartbeats[c].state # "healthy" \/ now - heartbeats[c].seen <= StaleAfter

=============================================================================
