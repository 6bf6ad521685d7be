--------------------------- MODULE HeartbeatsProofs ---------------------------
(***************************************************************************)
(* The heartbeat watchdog, for any set of components and any policy:       *)
(* types, the bound on recoveries, and what "failed" means.                *)
(***************************************************************************)
EXTENDS Heartbeats, TLAPS

InspectionState ==
    [step : {"idle", "visit", "recover"}, current : Time,
     todo : SUBSET Component, seen : SUBSET Component,
     target : Component \cup {NoComponent}, recovers : BOOLEAN, detached : BOOLEAN]

(***************************************************************************)
(* A recovery in progress, and nothing else, has a target.                 *)
(***************************************************************************)
Targeted ==
    /\ inspection.step = "recover" <=> inspection.target \in Component
    /\ inspection.detached => inspection.step = "recover"

(***************************************************************************)
(* A heartbeat has counted every call since its registration or its last   *)
(* success; one that replaced the heartbeat an inspection holds in its     *)
(* hands has no calls yet.                                                 *)
(***************************************************************************)
Counted(c) ==
    /\ spent[c] = heartbeats[c].attempts
    /\ inspection.target = c /\ inspection.detached => heartbeats[c].attempts = 0

IInv ==
    /\ TypeOK /\ Targeted /\ FailedSpent
    /\ \A c \in Component : Counted(c)

LEMMA ZeroTime == 0 \in Time /\ 0 \in 0 .. MaxRecovery
BY HeartbeatAssumption DEF HeartbeatAssumption, Time

LEMMA InitInv == Init => IInv
<1> SUFFICES ASSUME Init PROVE IInv
  OBVIOUS
<1>1. Unknown \in Heartbeat /\ Unknown.attempts = 0 /\ Unknown.state = "healthy"
  BY ZeroTime DEF Unknown, Heartbeat
<1>2. Idle \in InspectionState /\ Idle.step = "idle" /\ Idle.target \notin Component
      /\ ~Idle.detached
  BY ZeroTime, HeartbeatAssumption DEF HeartbeatAssumption, Idle, InspectionState
<1>3. TypeOK
  BY <1>1, <1>2, ZeroTime DEF Init, TypeOK, InspectionState
<1>4. Targeted /\ FailedSpent
  BY <1>1, <1>2 DEF Init, Targeted, FailedSpent
<1>5. \A c \in Component : Counted(c)
  BY <1>1, <1>2 DEF Init, Counted
<1> QED
  BY <1>3, <1>4, <1>5 DEF IInv

(***************************************************************************)
(* A step that changes one heartbeat and leaves the calls alone.           *)
(***************************************************************************)
LEMMA Writes ==
    ASSUME IInv, NEW c \in Component, NEW h \in Heartbeat,
           heartbeats' = [heartbeats EXCEPT ![c] = h],
           spent' = [spent EXCEPT ![c] = h.attempts],
           lastRecovery' \in [Component -> Time \cup {Never}],
           calls' \in [Component -> Nat],
           h.state = "failed" => h.attempts >= MaxRecovery,
           inspection' \in InspectionState, Targeted', now' \in Time,
           inspection'.target \in Component =>
             \/ inspection'.target = inspection.target /\ inspection.target # c
                /\ inspection'.detached = inspection.detached
             \/ inspection'.target = c /\ (inspection'.detached => h.attempts = 0)
    PROVE  IInv'
<1>1. h.attempts \in Nat
  BY HeartbeatAssumption DEF HeartbeatAssumption, Heartbeat
<1>2. TypeOK'
  BY <1>1 DEF IInv, TypeOK, InspectionState
<1>3. \A d \in Component : /\ heartbeats'[d] = IF d = c THEN h ELSE heartbeats[d]
                           /\ spent'[d] = IF d = c THEN h.attempts ELSE spent[d]
  BY DEF IInv, TypeOK
<1>4. FailedSpent'
  BY <1>3 DEF IInv, FailedSpent
<1>5. \A d \in Component : Counted(d)'
  BY <1>3 DEF IInv, Counted
<1> QED
  BY <1>2, <1>4, <1>5 DEF IInv

(***************************************************************************)
(* A step that leaves all heartbeats alone.                                *)
(***************************************************************************)
LEMMA Looks ==
    ASSUME IInv, UNCHANGED <<heartbeats, spent>>,
           lastRecovery' \in [Component -> Time \cup {Never}],
           calls' \in [Component -> Nat],
           inspection' \in InspectionState, Targeted', now' \in Time,
           inspection'.target \in Component =>
             inspection'.target = inspection.target /\ inspection'.detached = inspection.detached
    PROVE  IInv'
<1>1. TypeOK'
  BY DEF IInv, TypeOK, InspectionState
<1>2. FailedSpent' /\ \A d \in Component : Counted(d)'
  BY DEF IInv, FailedSpent, Counted
<1> QED
  BY <1>1, <1>2 DEF IInv

LEMMA RegisterInv == ASSUME IInv, NEW c \in Component, Register(c) PROVE IInv'
<1> DEFINE h == [Unknown EXCEPT !.known = TRUE, !.seen = now]
<1>1. h \in Heartbeat /\ h.attempts = 0 /\ h.state = "healthy"
  BY ZeroTime DEF Unknown, Heartbeat, IInv, TypeOK
<1>2. heartbeats' = [heartbeats EXCEPT ![c] = h] /\ spent' = [spent EXCEPT ![c] = h.attempts]
  BY <1>1 DEF Register
<1> HIDE DEF h
<1>3. inspection' = [inspection EXCEPT !.detached = @ \/ inspection.target = c]
      /\ UNCHANGED <<now, lastRecovery, calls>>
  BY DEF Register
<1>4. inspection' \in InspectionState /\ inspection'.target = inspection.target
      /\ inspection'.step = inspection.step
      /\ (inspection.target # c => inspection'.detached = inspection.detached)
  BY <1>3 DEF IInv, TypeOK, InspectionState
<1>5. Targeted'
  BY <1>4 DEF IInv, Targeted
<1> QED
  BY <1>1, <1>2, <1>3, <1>4, <1>5, Writes DEF IInv, TypeOK

LEMMA TouchInv == ASSUME IInv, NEW c \in Component, Touch(c) PROVE IInv'
<1>1. CASE Register(c)
  BY <1>1, RegisterInv
<1>2. CASE ~Register(c)
  <2> DEFINE h == Touched(c, now)
  <2>1. h \in Heartbeat /\ h.attempts = heartbeats[c].attempts /\ h.state = "healthy"
    BY DEF Touched, Heartbeat, IInv, TypeOK
  <2>2. heartbeats' = [heartbeats EXCEPT ![c] = h]
        /\ UNCHANGED <<now, lastRecovery, inspection, calls, spent>>
    BY <1>2 DEF Touch
  <2> HIDE DEF h
  <2>3. spent' = [spent EXCEPT ![c] = h.attempts]
    BY <2>1, <2>2 DEF IInv, TypeOK, Counted
  <2>4. Targeted' /\ inspection' \in InspectionState
    BY <2>2 DEF IInv, TypeOK, Targeted, InspectionState
  <2>5. inspection.target = c /\ inspection.detached => h.attempts = 0
    BY <2>1 DEF IInv, Counted
  <2> QED
    BY <2>1, <2>2, <2>3, <2>4, <2>5, Writes DEF IInv, TypeOK
<1> QED
  BY <1>1, <1>2

(***************************************************************************)
(* The visit of one heartbeat; no recovery is in progress.                 *)
(***************************************************************************)
LEMMA VisitInv ==
    ASSUME IInv, inspection.step = "visit", UNCHANGED now, NEW c \in Component,
           VisitLive(c) \/ VisitSilent(c) \/ CallRecovery(c)
    PROVE  IInv'
<1>1. inspection.target \notin Component
  BY DEF IInv, Targeted
<1>2. heartbeats[c] \in Heartbeat /\ spent[c] = heartbeats[c].attempts
  BY DEF IInv, TypeOK, Counted
<1>3. ASSUME Visited(c)
      PROVE  inspection' \in InspectionState /\ inspection'.target \notin Component /\ Targeted'
  BY <1>1, <1>3 DEF Visited, IInv, TypeOK, InspectionState, Targeted
<1>4. CASE VisitLive(c)
  BY <1>3, <1>4, Looks DEF VisitLive, IInv, TypeOK
<1>5. ASSUME NEW state \in {"degraded", "failed"}, Mark(c, state), state = "failed" => Spent(c)
      PROVE  IInv'
  <2> DEFINE h == [heartbeats[c] EXCEPT !.state = state]
  <2>1. h \in Heartbeat /\ h.attempts = heartbeats[c].attempts /\ h.state = state
    BY <1>2 DEF Heartbeat
  <2>2. heartbeats' = [heartbeats EXCEPT ![c] = h] /\ Visited(c)
        /\ UNCHANGED <<lastRecovery, calls, spent>>
    BY <1>5 DEF Mark
  <2> HIDE DEF h
  <2>3. spent' = [spent EXCEPT ![c] = h.attempts]
    BY <1>2, <2>1, <2>2 DEF IInv, TypeOK
  <2>4. h.state = "failed" => h.attempts >= MaxRecovery
    BY <1>5, <2>1 DEF Spent
  <2> QED
    BY <1>3, <2>1, <2>2, <2>3, <2>4, Writes DEF IInv, TypeOK
<1>6. CASE VisitSilent(c)
  BY <1>5, <1>6 DEF VisitSilent
<1>7. CASE CallRecovery(c)
  <2> DEFINE h == [heartbeats[c] EXCEPT !.state = "degraded", !.attempts = @ + 1]
  <2>1. heartbeats[c].attempts + 1 \in 0 .. MaxRecovery
    BY <1>2, <1>7, HeartbeatAssumption DEF HeartbeatAssumption, CallRecovery, Spent, Heartbeat
  <2>2. h \in Heartbeat /\ h.attempts = spent[c] + 1 /\ h.state = "degraded"
    BY <1>2, <2>1 DEF Heartbeat
  <2>3. heartbeats' = [heartbeats EXCEPT ![c] = h] /\ spent' = [spent EXCEPT ![c] = @ + 1]
    BY <1>7 DEF CallRecovery, IInv, TypeOK
  <2> HIDE DEF h
  <2>4. spent' = [spent EXCEPT ![c] = h.attempts]
    BY <2>2, <2>3 DEF IInv, TypeOK
  <2>5. inspection' = [inspection EXCEPT !.step = "recover", !.todo = @ \ {c}, !.target = c]
    BY <1>7 DEF CallRecovery
  <2>6. inspection' \in InspectionState /\ Targeted' /\ inspection'.target = c
        /\ ~inspection'.detached
    BY <2>5 DEF IInv, TypeOK, InspectionState, Targeted
  <2>7. lastRecovery' \in [Component -> Time \cup {Never}] /\ calls' \in [Component -> Nat]
    BY <1>7 DEF CallRecovery, IInv, TypeOK
  <2> QED
    BY <2>2, <2>3, <2>4, <2>6, <2>7, Writes DEF IInv, TypeOK
<1> QED
  BY <1>4, <1>6, <1>7

(***************************************************************************)
(* The end of a recovery: the result is written to the heartbeat, or to    *)
(* one that is no longer in the dictionary.                                *)
(***************************************************************************)
LEMMA Resumes ==
    ASSUME IInv, Resume
    PROVE  inspection' \in InspectionState /\ Targeted' /\ inspection'.target \notin Component
BY HeartbeatAssumption DEF HeartbeatAssumption, Resume, IInv, TypeOK, InspectionState, Targeted

LEMMA RecoveredInv == ASSUME IInv, Recovered PROVE IInv'
<1> DEFINE c == inspection.target
           h == [Touched(c, inspection.current) EXCEPT !.attempts = 0]
<1>1. c \in Component
  BY DEF Recovered, IInv, Targeted
<1>2. h \in Heartbeat /\ h.attempts = 0 /\ h.state = "healthy"
  <2>1. heartbeats[c] \in Heartbeat /\ inspection.current \in Time
    BY <1>1 DEF IInv, TypeOK
  <2> QED
    BY <2>1, ZeroTime DEF Touched, Heartbeat
<1>3. Write(h) /\ Resume /\ UNCHANGED <<now, calls>>
      /\ lastRecovery' = [lastRecovery EXCEPT ![c] = Never] /\ spent' = [spent EXCEPT ![c] = 0]
  BY DEF Recovered
<1>4. lastRecovery' \in [Component -> Time \cup {Never}]
  BY <1>3 DEF IInv, TypeOK
<1>5. CASE inspection.detached
  <2>1. UNCHANGED <<heartbeats, spent>>
    BY <1>1, <1>3, <1>5 DEF Write, IInv, TypeOK, Counted
  <2> QED
    BY <1>3, <1>4, <2>1, Resumes, Looks DEF IInv, TypeOK
<1>6. CASE ~inspection.detached
  <2>1. heartbeats' = [heartbeats EXCEPT ![c] = h] /\ spent' = [spent EXCEPT ![c] = h.attempts]
    BY <1>2, <1>3, <1>6 DEF Write
  <2> HIDE DEF h
  <2> QED
    BY <1>1, <1>2, <1>3, <1>4, <2>1, Resumes, Writes DEF IInv, TypeOK
<1> QED
  BY <1>5, <1>6

LEMMA NotRecoveredInv == ASSUME IInv, NotRecovered PROVE IInv'
<1> DEFINE c == inspection.target
           h == [heartbeats[c] EXCEPT !.state = IF Spent(c) THEN "failed" ELSE @]
<1>1. c \in Component
  BY DEF NotRecovered, IInv, Targeted
<1>2. h \in Heartbeat /\ h.attempts = heartbeats[c].attempts
      /\ (h.state = "failed" => h.attempts >= MaxRecovery)
  BY <1>1 DEF Heartbeat, Spent, IInv, TypeOK, FailedSpent, Counted
<1>3. Write(h) /\ Resume /\ UNCHANGED <<now, lastRecovery, calls, spent>>
  BY DEF NotRecovered
<1>4. CASE inspection.detached
  <2>1. UNCHANGED heartbeats
    BY <1>3, <1>4 DEF Write
  <2> QED
    BY <1>3, <2>1, Resumes, Looks DEF IInv, TypeOK
<1>5. CASE ~inspection.detached
  <2>1. heartbeats' = [heartbeats EXCEPT ![c] = h]
    BY <1>3, <1>5 DEF Write
  <2>2. spent' = [spent EXCEPT ![c] = h.attempts]
    BY <1>1, <1>2, <1>3 DEF IInv, TypeOK, Counted
  <2> HIDE DEF h
  <2> QED
    BY <1>1, <1>2, <1>3, <2>1, <2>2, Resumes, Writes DEF IInv, TypeOK
<1> QED
  BY <1>4, <1>5

LEMMA NextInv == IInv /\ [Next]_vars => IInv'
<1> SUFFICES ASSUME IInv, [Next]_vars PROVE IInv'
  OBVIOUS
<1>1. CASE PassTime
  <2>1. now' \in Time
    BY <1>1, HeartbeatAssumption DEF HeartbeatAssumption, PassTime, IInv, TypeOK, Time
  <2>2. Targeted' /\ inspection' \in InspectionState
    BY <1>1 DEF PassTime, IInv, TypeOK, InspectionState, Targeted
  <2> QED
    BY <1>1, <2>1, <2>2, Looks DEF PassTime, IInv, TypeOK
<1>2. ASSUME NEW c \in Component, Register(c) \/ Touch(c) PROVE IInv'
  BY <1>2, RegisterInv, TouchInv
<1>3. CASE BeginInspection
  <2>1. PICK recovers \in BOOLEAN :
          inspection' = [Idle EXCEPT !.step = "visit", !.current = now, !.todo = Known,
                                     !.seen = Known, !.recovers = recovers]
    BY <1>3 DEF BeginInspection
  <2>2. inspection' \in InspectionState /\ Targeted' /\ inspection'.target \notin Component
    BY <2>1, HeartbeatAssumption
    DEF HeartbeatAssumption, Idle, InspectionState, Targeted, Known, IInv, TypeOK
  <2> QED
    BY <1>3, <2>2, Looks DEF BeginInspection, IInv, TypeOK
<1>4. CASE Visit
  BY <1>4, VisitInv DEF Visit, IInv, TypeOK
<1>5. CASE EndInspection
  <2>1. inspection' \in InspectionState /\ Targeted' /\ inspection'.target \notin Component
    BY <1>5, ZeroTime, HeartbeatAssumption
    DEF HeartbeatAssumption, EndInspection, Idle, InspectionState, Targeted
  <2> QED
    BY <1>5, <2>1, Looks DEF EndInspection, IInv, TypeOK
<1>6. CASE UNCHANGED vars
  <2>1. Targeted' /\ inspection' \in InspectionState
    BY <1>6 DEF vars, IInv, TypeOK, InspectionState, Targeted
  <2> QED
    BY <1>6, <2>1, Looks DEF vars, IInv, TypeOK
<1> QED
  BY <1>1, <1>2, <1>3, <1>4, <1>5, <1>6, RecoveredInv, NotRecoveredInv DEF Next, Inspect

LEMMA Inductive == Spec => []IInv
BY InitInv, NextInv, PTL DEF Spec

(***************************************************************************)
(* Types hold, and with them the number of attempts of a heartbeat.        *)
(***************************************************************************)
THEOREM TypeCorrect == Spec => []TypeOK
<1>1. IInv => TypeOK
  BY DEF IInv
<1> QED
  BY <1>1, Inductive, PTL

(***************************************************************************)
(* Between two successes or registrations of a component its recovery is   *)
(* called at most max_recovery_attempts times, however it is touched.      *)
(***************************************************************************)
THEOREM RecoveriesAreBounded == Spec => []RecoveriesBounded
<1>1. IInv => RecoveriesBounded
  <2> SUFFICES ASSUME IInv, NEW c \in Component PROVE spent[c] <= MaxRecovery
    BY DEF RecoveriesBounded
  <2>1. spent[c] = heartbeats[c].attempts /\ heartbeats[c].attempts \in 0 .. MaxRecovery
    BY DEF IInv, TypeOK, Heartbeat, Counted
  <2> QED
    BY <2>1, HeartbeatAssumption DEF HeartbeatAssumption
<1> QED
  BY <1>1, Inductive, PTL

(***************************************************************************)
(* A component is failed only when all its recoveries were called.         *)
(***************************************************************************)
THEOREM FailuresAreFinal == Spec => []FailedSpent
<1>1. IInv => FailedSpent
  BY DEF IInv
<1> QED
  BY <1>1, Inductive, PTL

-----------------------------------------------------------------------------
(***************************************************************************)
(* The rationing of recoveries in time.  The last recovery of a component  *)
(* is remembered until it succeeds, and its success is the sign of life    *)
(* the next silence is counted from.                                       *)
(***************************************************************************)
LastSign(c) == IF lastRecovery[c] # Never THEN lastRecovery[c] ELSE heartbeats[c].seen

Rationed(c) ==
    /\ calls[c] > 0 => (calls[c] - 1) * Apart <= LastSign(c)
    /\ lastRecovery[c] <= now /\ heartbeats[c].seen <= now

Remembered ==
    inspection.step = "recover" =>
        /\ lastRecovery[inspection.target] = inspection.current
        /\ inspection.detached => heartbeats[inspection.target].seen >= inspection.current

RationInv ==
    /\ \A c \in Component : Rationed(c)
    /\ inspection.current <= now
    /\ Remembered

LEMMA ApartType == Apart \in Nat \ {0} /\ Apart <= Cooldown /\ Apart <= StaleAfter + 1
BY HeartbeatAssumption DEF HeartbeatAssumption, Apart

LEMMA TimesType ==
    ASSUME IInv, NEW c \in Component
    PROVE  /\ lastRecovery[c] \in Int /\ heartbeats[c].seen \in Nat /\ heartbeats[c].seen # Never
           /\ calls[c] \in Nat /\ now \in Nat
           /\ inspection.current \in Nat /\ inspection.current # Never
           /\ LastSign(c) \in Int /\ (calls[c] - 1) * Apart \in Int
<1>1. /\ lastRecovery[c] \in Time \cup {Never} /\ heartbeats[c] \in Heartbeat
      /\ calls[c] \in Nat /\ now \in Time /\ inspection.current \in Time
  BY DEF IInv, TypeOK
<1>2. /\ lastRecovery[c] \in Int /\ heartbeats[c].seen \in Nat /\ calls[c] \in Nat /\ now \in Nat
      /\ inspection.current \in Nat
  BY <1>1, HeartbeatAssumption DEF HeartbeatAssumption, Heartbeat, Time, Never
<1>3. heartbeats[c].seen # Never /\ inspection.current # Never
  BY <1>2 DEF Never
<1>4. LastSign(c) \in Int
  BY <1>2 DEF LastSign
<1>5. (calls[c] - 1) * Apart \in Int
  BY <1>2, ApartType
<1> QED
  BY <1>2, <1>3, <1>4, <1>5

LEMMA RationStarts == Init => RationInv
<1> SUFFICES ASSUME Init PROVE RationInv
  OBVIOUS
<1>1. \A c \in Component : calls[c] = 0 /\ lastRecovery[c] = Never /\ heartbeats[c].seen = 0
  BY DEF Init, Unknown
<1> QED
  BY <1>1 DEF Init, Idle, RationInv, Rationed, Remembered, Never

(***************************************************************************)
(* A component that registers or reports only comes nearer.                *)
(***************************************************************************)
LEMMA SignsRation ==
    ASSUME IInv, RationInv, NEW c \in Component, NEW h,
           heartbeats' = [heartbeats EXCEPT ![c] = h], h.seen = now,
           UNCHANGED <<now, lastRecovery, calls>>,
           inspection'.step = inspection.step, inspection'.current = inspection.current,
           inspection'.target = inspection.target,
           inspection.target # c => inspection'.detached = inspection.detached
    PROVE  RationInv'
<1>1. \A d \in Component : heartbeats'[d] = IF d = c THEN h ELSE heartbeats[d]
  BY DEF IInv, TypeOK
<1>2. ASSUME NEW d \in Component PROVE Rationed(d)'
  <2>1. Rationed(d) /\ heartbeats'[d].seen >= heartbeats[d].seen /\ heartbeats'[d].seen <= now
    BY <1>1, TimesType DEF RationInv, Rationed
  <2>2. LastSign(d)' >= LastSign(d) /\ LastSign(d)' \in Int
    BY <1>1, <2>1, TimesType DEF LastSign
  <2>3. (calls[d] - 1) * Apart \in Int /\ LastSign(d) \in Int
    BY TimesType
  <2> HIDE DEF LastSign
  <2>4. calls'[d] > 0 => (calls'[d] - 1) * Apart <= LastSign(d)'
    BY <2>1, <2>2, <2>3 DEF Rationed
  <2> QED
    BY <2>1, <2>4 DEF Rationed
<1>3. Remembered'
  BY <1>1 DEF RationInv, Remembered, IInv, Targeted
<1> QED
  BY <1>2, <1>3 DEF RationInv

(***************************************************************************)
(* The steps of an inspection that call no recovery and end none keep all  *)
(* times.                                                                  *)
(***************************************************************************)
LEMMA LooksRation ==
    ASSUME IInv, RationInv, \A c \in Component : heartbeats'[c].seen = heartbeats[c].seen,
           UNCHANGED <<now, lastRecovery, calls>>,
           inspection'.step # "recover", inspection'.current \in {inspection.current, now, 0}
    PROVE  RationInv'
<1>1. \A c \in Component : Rationed(c)'
  BY DEF RationInv, Rationed, LastSign
<1>2. inspection'.current <= now'
  BY HeartbeatAssumption DEF HeartbeatAssumption, RationInv, IInv, TypeOK, Time
<1>3. Remembered'
  BY DEF Remembered
<1> QED
  BY <1>1, <1>2, <1>3 DEF RationInv

(***************************************************************************)
(* A call comes after the cooldown, or after the silence that followed a   *)
(* success.                                                                *)
(***************************************************************************)
LEMMA OneMoreApart ==
    ASSUME NEW n \in Nat, NEW a \in Nat, NEW last \in Int, NEW next \in Nat,
           n > 0 => (n - 1) * a <= last, n > 0 => next - last >= a
    PROVE  ((n + 1) - 1) * a <= next
<1>1. CASE n = 0
  BY <1>1
<1>2. CASE n > 0
  <2> DEFINE m == (n - 1) * a
  <2>1. m \in Int /\ ((n + 1) - 1) * a = m + a
    OBVIOUS
  <2>2. m <= last /\ next - last >= a
    BY <1>2
  <2> HIDE DEF m
  <2> QED
    BY <2>1, <2>2
<1> QED
  BY <1>1, <1>2

LEMMA CallRation ==
    ASSUME IInv, RationInv, NEW c \in Component, inspection.step = "visit", CallRecovery(c),
           UNCHANGED now
    PROVE  RationInv'
<1>1. /\ Silent(c) /\ ~Cooling(c)
      /\ lastRecovery' = [lastRecovery EXCEPT ![c] = inspection.current]
      /\ calls' = [calls EXCEPT ![c] = @ + 1]
      /\ inspection' = [inspection EXCEPT !.step = "recover", !.todo = @ \ {c}, !.target = c]
  BY DEF CallRecovery
<1>2. \A d \in Component : /\ lastRecovery'[d] = IF d = c THEN inspection.current ELSE lastRecovery[d]
                           /\ calls'[d] = IF d = c THEN calls[d] + 1 ELSE calls[d]
                           /\ heartbeats'[d].seen = heartbeats[d].seen
  BY <1>1 DEF IInv, TypeOK, CallRecovery
<1>3. inspection'.current = inspection.current /\ inspection'.target = c /\ ~inspection'.detached
      /\ inspection'.step = "recover"
  BY <1>1 DEF IInv, TypeOK, Targeted
<1>4. inspection.current - LastSign(c) >= Apart
  <2>1. CASE lastRecovery[c] # Never
    BY <1>1, <2>1, ApartType, TimesType, HeartbeatAssumption
    DEF HeartbeatAssumption, Cooling, LastSign
  <2>2. CASE lastRecovery[c] = Never
    BY <1>1, <2>2, ApartType, TimesType, HeartbeatAssumption
    DEF HeartbeatAssumption, Silent, LastSign
  <2> QED
    BY <2>1, <2>2
<1>5. ((calls[c] + 1) - 1) * Apart <= inspection.current
  BY <1>4, ApartType, TimesType, OneMoreApart DEF RationInv, Rationed
<1>6. ASSUME NEW d \in Component PROVE Rationed(d)'
  <2>1. CASE d = c
    <3>1. LastSign(c)' = inspection.current
      BY <1>2, TimesType DEF LastSign
    <3>2. calls'[c] = calls[c] + 1
      BY <1>2
    <3>3. (calls'[c] - 1) * Apart <= LastSign(c)'
      BY <1>5, <3>1, <3>2
    <3> QED
      BY <1>2, <2>1, <3>3 DEF RationInv, Rationed
  <2>2. CASE d # c
    BY <1>2, <2>2 DEF RationInv, Rationed, LastSign
  <2> QED
    BY <2>1, <2>2
<1>7. Remembered'
  BY <1>2, <1>3 DEF Remembered
<1> QED
  BY <1>3, <1>6, <1>7 DEF RationInv

(***************************************************************************)
(* A success is forgotten as a recovery and kept as a sign of life.        *)
(***************************************************************************)
LEMMA RecoveredRation == ASSUME IInv, RationInv, Recovered PROVE RationInv'
<1>1. PICK c \in Component : c = inspection.target /\ inspection.step = "recover"
  BY DEF Recovered, IInv, Targeted
<1> DEFINE h == [Touched(c, inspection.current) EXCEPT !.attempts = 0]
<1>2. heartbeats[c] \in Heartbeat
  BY <1>1 DEF IInv, TypeOK
<1>3. h.seen = inspection.current
  BY <1>2 DEF Touched, Heartbeat
<1>4. /\ Write(h) /\ UNCHANGED <<now, calls>>
      /\ lastRecovery' = [lastRecovery EXCEPT ![c] = Never]
      /\ inspection' = [inspection EXCEPT !.step = "visit", !.target = NoComponent, !.detached = FALSE]
  BY <1>1 DEF Recovered, Resume
<1> HIDE DEF h
<1>5. /\ heartbeats'[c].seen >= inspection.current /\ heartbeats'[c].seen <= now
      /\ heartbeats'[c].seen \in Int
      /\ \A d \in Component : d # c => heartbeats'[d] = heartbeats[d]
  <2>1. CASE inspection.detached
    BY <1>1, <1>4, <2>1, TimesType DEF Write, RationInv, Rationed, Remembered
  <2>2. CASE ~inspection.detached
    <3>1. heartbeats' = [heartbeats EXCEPT ![c] = h]
      BY <1>1, <1>4, <2>2 DEF Write
    <3>2. heartbeats'[c] = h
      BY <1>1, <3>1 DEF IInv, TypeOK
    <3> QED
      BY <1>1, <1>3, <3>1, <3>2, TimesType DEF RationInv, IInv, TypeOK
  <2> QED
    BY <2>1, <2>2
<1>6. \A d \in Component : lastRecovery'[d] = IF d = c THEN Never ELSE lastRecovery[d]
  BY <1>4 DEF IInv, TypeOK
<1>7. ASSUME NEW d \in Component PROVE Rationed(d)'
  <2>1. CASE d = c
    <3>1. LastSign(c)' = heartbeats'[c].seen /\ LastSign(c) = inspection.current
      BY <1>1, <1>6, TimesType DEF LastSign, RationInv, Remembered
    <3>2. (calls[c] - 1) * Apart \in Int /\ inspection.current \in Int
      BY <1>1, TimesType
    <3>3. calls[c] > 0 => (calls[c] - 1) * Apart <= inspection.current
      BY <1>1, <3>1 DEF RationInv, Rationed
    <3>4. calls'[c] > 0 => (calls'[c] - 1) * Apart <= LastSign(c)'
      BY <1>4, <1>5, <3>1, <3>2, <3>3
    <3>5. lastRecovery'[c] <= now'
      BY <1>1, <1>4, <1>6, TimesType DEF Never
    <3> QED
      BY <1>4, <1>5, <2>1, <3>4, <3>5 DEF Rationed
  <2>2. CASE d # c
    BY <1>4, <1>5, <1>6, <2>2 DEF RationInv, Rationed, LastSign
  <2> QED
    BY <2>1, <2>2
<1>8. inspection'.current = inspection.current /\ inspection'.step = "visit"
  BY <1>4 DEF IInv, TypeOK
<1> QED
  BY <1>4, <1>7, <1>8 DEF RationInv, Remembered

LEMMA NextRation == IInv /\ RationInv /\ [Next]_vars => RationInv'
<1> SUFFICES ASSUME IInv, RationInv, [Next]_vars PROVE RationInv'
  OBVIOUS
<1>1. CASE PassTime
  <2>1. now' = now + 1 /\ UNCHANGED <<heartbeats, lastRecovery, inspection, calls>>
    BY <1>1 DEF PassTime
  <2>2. ASSUME NEW c \in Component PROVE Rationed(c)'
    BY <2>1, TimesType DEF RationInv, Rationed, LastSign
  <2>3. inspection'.current <= now' /\ Remembered'
    BY <2>1, HeartbeatAssumption DEF HeartbeatAssumption, RationInv, Remembered, IInv, TypeOK, Time
  <2> QED
    BY <2>2, <2>3 DEF RationInv
<1>2. ASSUME NEW c \in Component, Register(c) PROVE RationInv'
  <2> DEFINE h == [Unknown EXCEPT !.known = TRUE, !.seen = now]
  <2>1. heartbeats' = [heartbeats EXCEPT ![c] = h] /\ UNCHANGED <<now, lastRecovery, calls>>
        /\ inspection' = [inspection EXCEPT !.detached = @ \/ inspection.target = c]
    BY <1>2 DEF Register
  <2>2. h.seen = now
    BY DEF Unknown
  <2> HIDE DEF h
  <2>3. /\ inspection'.step = inspection.step /\ inspection'.current = inspection.current
        /\ inspection'.target = inspection.target
        /\ (inspection.target # c => inspection'.detached = inspection.detached)
    BY <2>1 DEF IInv, TypeOK
  <2> QED
    BY <2>1, <2>2, <2>3, SignsRation
<1>3. ASSUME NEW c \in Component, Touch(c), ~Register(c) PROVE RationInv'
  <2> DEFINE h == Touched(c, now)
  <2>1. heartbeats' = [heartbeats EXCEPT ![c] = h]
        /\ UNCHANGED <<now, lastRecovery, inspection, calls>>
    BY <1>3 DEF Touch
  <2>2. h.seen = now
    BY DEF Touched, Heartbeat, IInv, TypeOK
  <2> HIDE DEF h
  <2> QED
    BY <2>1, <2>2, SignsRation
<1>4. CASE BeginInspection \/ EndInspection
  <2>1. UNCHANGED <<heartbeats, now, lastRecovery, calls>>
    BY <1>4 DEF BeginInspection, EndInspection
  <2>2. inspection'.step # "recover" /\ inspection'.current \in {now, 0}
    <3>1. ASSUME NEW recovers \in BOOLEAN,
                 inspection' = [Idle EXCEPT !.step = "visit", !.current = now, !.todo = Known,
                                            !.seen = Known, !.recovers = recovers]
          PROVE  inspection'.step # "recover" /\ inspection'.current \in {now, 0}
      BY <3>1 DEF Idle
    <3>2. CASE inspection' = Idle
      BY <3>2 DEF Idle
    <3> QED
      BY <1>4, <3>1, <3>2 DEF BeginInspection, EndInspection
  <2> QED
    BY <2>1, <2>2, LooksRation
<1>5. ASSUME NEW c \in Component, inspection.step = "visit", UNCHANGED now,
             VisitLive(c) \/ VisitSilent(c)
      PROVE  RationInv'
  <2>1. Visited(c) /\ UNCHANGED <<lastRecovery, calls>>
    BY <1>5 DEF VisitLive, VisitSilent, Mark
  <2>2. \A d \in Component : heartbeats'[d].seen = heartbeats[d].seen
    BY <1>5 DEF VisitLive, VisitSilent, Mark, IInv, TypeOK, Heartbeat
  <2>3. inspection'.step = "visit" /\ inspection'.current = inspection.current
    BY <1>5, <2>1 DEF Visited, IInv, TypeOK
  <2> QED
    BY <1>5, <2>1, <2>2, <2>3, LooksRation
<1>6. CASE Visit
  BY <1>5, <1>6, CallRation DEF Visit, IInv, TypeOK
<1>7. CASE NotRecovered
  <2>1. UNCHANGED <<now, lastRecovery, calls>> /\ Resume
        /\ \A d \in Component : heartbeats'[d].seen = heartbeats[d].seen
    BY <1>7 DEF NotRecovered, Write, IInv, TypeOK, Heartbeat
  <2>2. inspection'.step = "visit" /\ inspection'.current = inspection.current
    BY <2>1 DEF Resume, IInv, TypeOK
  <2> QED
    BY <2>1, <2>2, LooksRation
<1>8. CASE UNCHANGED vars
  BY <1>8 DEF vars, RationInv, Rationed, LastSign, Remembered
<1> QED
  BY <1>1, <1>2, <1>3, <1>4, <1>6, <1>7, <1>8, RecoveredRation DEF Next, Inspect

LEMMA TimesApart ==
    ASSUME NEW n \in Nat, NEW a \in Nat \ {0}, NEW t \in Nat, n * a <= t
    PROVE  n <= t \div a
<1> DEFINE q == t \div a
<1>1. q \in Nat /\ t < (q + 1) * a
  OBVIOUS
<1> HIDE DEF q
<1>2. SUFFICES ASSUME n > q PROVE FALSE
  BY <1>1 DEF q
<1>3. n * a >= (q + 1) * a
  BY <1>1, <1>2
<1>4. n * a \in Int /\ (q + 1) * a \in Int
  BY <1>1
<1> QED
  BY <1>1, <1>3, <1>4

(***************************************************************************)
(* No restart loops: recoveries of a component are apart, whatever the     *)
(* callbacks return and whatever components do meanwhile.                  *)
(***************************************************************************)
THEOREM RecoveriesAreRationed == Spec => []RecoveriesRationed
<1>1. IInv /\ RationInv => RecoveriesRationed
  <2> SUFFICES ASSUME IInv, RationInv, NEW c \in Component
               PROVE  calls[c] <= (now \div Apart) + 1
    BY DEF RecoveriesRationed
  <2>1. calls[c] \in Nat /\ now \in Nat /\ now \div Apart \in Nat
    BY ApartType, TimesType
  <2>2. CASE calls[c] = 0
    BY <2>1, <2>2
  <2>3. CASE calls[c] > 0
    <3>1. (calls[c] - 1) * Apart <= LastSign(c)
      BY <2>3 DEF RationInv, Rationed
    <3>2. LastSign(c) <= now
      BY DEF RationInv, Rationed, LastSign
    <3>3. calls[c] - 1 \in Nat /\ (calls[c] - 1) * Apart \in Int /\ LastSign(c) \in Int
      BY <2>1, <2>3, TimesType
    <3>4. (calls[c] - 1) * Apart <= now
      BY <2>1, <3>1, <3>2, <3>3
    <3>5. calls[c] - 1 <= now \div Apart
      BY <2>1, <3>3, <3>4, ApartType, TimesApart
    <3> QED
      BY <2>1, <3>5
  <2> QED
    BY <2>1, <2>2, <2>3
<1> QED
  BY <1>1, Inductive, RationStarts, NextRation, PTL DEF Spec

=============================================================================
