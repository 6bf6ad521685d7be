----------------------- MODULE RuntimeSchedulingProofs -----------------------
(***************************************************************************)
(* The scheduler, for any number of threads and any intervals: types,      *)
(* single flight, the detection of hanging ticks, and that shutdown lets   *)
(* no thread begin a second tick.                                          *)
(***************************************************************************)
EXTENDS RuntimeScheduling, TLAPS

(***************************************************************************)
(* What the watchdog remembers was read before the tick in progress began. *)
(***************************************************************************)
RecordedEarlier ==
    /\ watchdog.last <= now
    /\ \A t \in Thread : /\ thread[t].current <= now
                         /\ InTick(t) => watchdog.last <= thread[t].current

(***************************************************************************)
(* A thread that began a tick after the stop is not about to begin one.    *)
(***************************************************************************)
LateOnce ==
    \A t \in Thread : late[t] # 0 => late[t] = 1 /\ stopped /\ thread[t].step # "acquire"

IInv == TypeOK /\ SingleFlight /\ RecordedEarlier /\ LateOnce

ThreadState == [step : Step, current : Time, begun : Time, ok : BOOLEAN]

LEMMA OffType == Off \in ThreadState /\ Off.step = "off" /\ Off.current = 0
BY SchedulingAssumption DEF SchedulingAssumption, Off, ThreadState, Step, Time

LEMMA ClockStarts == 0 \in Time /\ 0 \in 0 .. FailureCap
BY SchedulingAssumption DEF SchedulingAssumption, Time

LEMMA InitInv == Init => IInv
<1> SUFFICES ASSUME Init PROVE IInv
  OBVIOUS
<1>a. thread \in [Thread -> ThreadState] /\ late \in [Thread -> 0 .. 2]
  BY OffType DEF Init
<1>b. watchdog \in [last : Time \cup {Never}, failures : 0 .. FailureCap]
      /\ reports \in [last : Time \cup {Never}, confirmed : Nat]
  BY ClockStarts DEF Init
<1>1. TypeOK
  BY <1>a, <1>b, ClockStarts DEF Init, TypeOK, ThreadState
<1>2. \A t \in Thread : ~InTick(t)
  BY OffType DEF Init, InTick
<1>3. SingleFlight /\ RecordedEarlier /\ LateOnce
  BY <1>2, OffType DEF Init, SingleFlight, RecordedEarlier, LateOnce, Never
<1> QED
  BY <1>1, <1>3 DEF IInv

(***************************************************************************)
(* A step of one thread that leaves lock, clock, watchdog and event alone  *)
(* and stays on its side of the lock.                                      *)
(***************************************************************************)
LEMMA Moves ==
    ASSUME IInv, NEW t \in Thread, NEW s \in ThreadState,
           thread' = [thread EXCEPT ![t] = s],
           s.current = thread[t].current,
           s.step \in {"leases", "publish", "report", "send", "succeeded", "failed", "counting"}
              => InTick(t),
           s.step = "acquire" => ~stopped,
           reports' \in [last : Time \cup {Never}, confirmed : Nat],
           UNCHANGED <<now, started, stopped, running, watchdog, late>>
    PROVE  IInv'
<1>1. TypeOK'
  BY DEF IInv, TypeOK, ThreadState
<1>2. \A u \in Thread : thread'[u] = IF u = t THEN s ELSE thread[u]
  BY DEF IInv, TypeOK
<1>3. \A u \in Thread : InTick(u)' => InTick(u)
  BY <1>2 DEF InTick
<1>4. SingleFlight'
  BY <1>3 DEF IInv, SingleFlight
<1>5. RecordedEarlier'
  BY <1>2, <1>3 DEF IInv, RecordedEarlier
<1>6. LateOnce'
  BY <1>2 DEF IInv, LateOnce
<1> QED
  BY <1>1, <1>4, <1>5, <1>6 DEF IInv

(***************************************************************************)
(* Goto is such a step.                                                    *)
(***************************************************************************)
LEMMA Goes ==
    ASSUME IInv, NEW t \in Thread, NEW step \in Step, Goto(t, step),
           step \in {"leases", "publish", "report", "send", "succeeded", "failed", "counting"}
              => InTick(t),
           step = "acquire" => ~stopped,
           reports' \in [last : Time \cup {Never}, confirmed : Nat],
           UNCHANGED <<now, started, stopped, running, watchdog, late>>
    PROVE  IInv'
<1> DEFINE s == [thread[t] EXCEPT !.step = step]
<1>1. s \in ThreadState /\ s.current = thread[t].current /\ s.step = step
  BY DEF IInv, TypeOK, ThreadState
<1>2. thread' = [thread EXCEPT ![t] = s]
  BY DEF Goto
<1> HIDE DEF s
<1> QED
  BY <1>1, <1>2, Moves

LEMMA AcquireInv == ASSUME IInv, NEW t \in Thread, Acquire(t) PROVE IInv'
<1> USE SchedulingAssumption DEF SchedulingAssumption
<1>1. CASE running # NoThread
  <2>1. Goto(t, After(t)) /\ After(t) \in Step /\ After(t) \in {"wait", "off"}
    BY <1>1 DEF Acquire, After, Step
  <2> QED
    BY <1>1, <2>1, Goes DEF Acquire, IInv, TypeOK
<1>2. CASE running = NoThread
  <2> DEFINE s == [thread[t] EXCEPT !.step = "leases", !.current = now]
  <2>1. s \in ThreadState /\ s.current = now /\ s.step = "leases"
    BY DEF IInv, TypeOK, ThreadState, Step
  <2>2. thread' = [thread EXCEPT ![t] = s] /\ running' = t /\ late' = Begun(t)
    BY <1>2 DEF Acquire
  <2>3. UNCHANGED <<now, started, stopped, watchdog, reports>>
    BY DEF Acquire
  <2>4. thread[t].step = "acquire"
    BY DEF Acquire
  <2> HIDE DEF s
  <2>5. \A u \in Thread : thread'[u] = IF u = t THEN s ELSE thread[u]
    BY <2>2 DEF IInv, TypeOK
  <2>6. \A u \in Thread : ~InTick(u)
    BY <1>2 DEF IInv, SingleFlight
  <2>7. \A u \in Thread : InTick(u)' => u = t
    BY <2>5, <2>6 DEF InTick
  <2>8. late[t] = 0
    BY <2>4 DEF IInv, LateOnce
  <2>9. late' = IF stopped THEN [late EXCEPT ![t] = 1] ELSE late
    BY <2>2, <2>8 DEF Begun, IInv, TypeOK
  <2>10. TypeOK'
    BY <2>1, <2>2, <2>3, <2>9 DEF IInv, TypeOK, ThreadState
  <2>11. SingleFlight'
    BY <2>2, <2>7 DEF SingleFlight
  <2>12. RecordedEarlier'
    BY <2>1, <2>3, <2>5, <2>7 DEF IInv, RecordedEarlier, TypeOK, Time
  <2>13. LateOnce'
    BY <2>1, <2>3, <2>5, <2>9 DEF IInv, LateOnce, TypeOK
  <2> QED
    BY <2>10, <2>11, <2>12, <2>13 DEF IInv
<1> QED
  BY <1>1, <1>2

LEMMA RecordTimeInv == ASSUME IInv, NEW t \in Thread, RecordTime(t) PROVE IInv'
<1> DEFINE s == [thread[t] EXCEPT !.step = "counting", !.ok = thread[t].step = "succeeded"]
<1>1. s \in ThreadState /\ s.current = thread[t].current /\ s.step = "counting"
  BY DEF IInv, TypeOK, ThreadState, Step
<1>2. thread' = [thread EXCEPT ![t] = s]
  BY DEF RecordTime
<1> HIDE DEF s
<1>3. InTick(t) /\ watchdog' = [watchdog EXCEPT !.last = thread[t].current]
      /\ UNCHANGED <<now, started, stopped, running, reports, late>>
  BY DEF RecordTime, InTick
<1>4. \A u \in Thread : thread'[u] = IF u = t THEN s ELSE thread[u]
  BY <1>2 DEF IInv, TypeOK
<1>5. \A u \in Thread : (InTick(u)' => InTick(u)) /\ (InTick(u) => u = t)
  BY <1>1, <1>3, <1>4 DEF InTick, IInv, SingleFlight
<1>6. TypeOK'
  BY <1>1, <1>2, <1>3 DEF IInv, TypeOK, ThreadState
<1>7. watchdog'.last = thread[t].current
  BY <1>3 DEF IInv, TypeOK
<1>8. SingleFlight'
  BY <1>3, <1>5 DEF IInv, SingleFlight
<1>9. RecordedEarlier'
  BY <1>1, <1>3, <1>4, <1>5, <1>7 DEF IInv, RecordedEarlier, TypeOK, Time
<1>10. LateOnce'
  BY <1>1, <1>3, <1>4 DEF IInv, LateOnce
<1> QED
  BY <1>6, <1>8, <1>9, <1>10 DEF IInv

LEMMA CountInv == ASSUME IInv, NEW t \in Thread, Count(t) PROVE IInv'
<1> DEFINE s == [Off EXCEPT !.step = After(t)]
<1>1. s \in ThreadState /\ s.current = 0 /\ s.step \in {"wait", "off"}
  BY OffType DEF After, ThreadState, Step, Off
<1>2. thread' = [thread EXCEPT ![t] = s] /\ running' = NoThread
  BY DEF Count
<1> HIDE DEF s
<1>3. InTick(t) /\ UNCHANGED <<now, started, stopped, reports, late>>
  BY DEF Count, InTick
<1>4. Failures(t) \in 0 .. FailureCap
  BY SchedulingAssumption DEF SchedulingAssumption, Failures, IInv, TypeOK
<1>5. watchdog' = [watchdog EXCEPT !.failures = Failures(t)]
  BY DEF Count
<1>6. \A u \in Thread : thread'[u] = IF u = t THEN s ELSE thread[u]
  BY <1>2 DEF IInv, TypeOK
<1>7. \A u \in Thread : ~InTick(u)'
  BY <1>1, <1>3, <1>6 DEF InTick, IInv, SingleFlight
<1>8. watchdog'.last = watchdog.last
  BY <1>5 DEF IInv, TypeOK
<1>9. TypeOK'
  BY <1>1, <1>2, <1>3, <1>4, <1>5 DEF IInv, TypeOK, ThreadState
<1>10. SingleFlight'
  BY <1>7 DEF SingleFlight
<1>11. RecordedEarlier'
  BY <1>1, <1>3, <1>6, <1>7, <1>8 DEF IInv, RecordedEarlier, TypeOK, Time
<1>12. LateOnce'
  BY <1>1, <1>3, <1>6 DEF IInv, LateOnce
<1> QED
  BY <1>9, <1>10, <1>11, <1>12 DEF IInv

LEMMA SendInv == ASSUME IInv, NEW t \in Thread, Send(t) PROVE IInv'
<1>1. InTick(t)
  BY DEF Send, InTick
<1>2. reports' \in [last : Time \cup {Never}, confirmed : Nat]
  BY DEF Send, IInv, TypeOK
<1>3. "succeeded" \in Step
  BY DEF Step
<1> QED
  BY <1>1, <1>2, <1>3, Goes DEF Send

LEMMA RecoverLeasesInv == ASSUME IInv, NEW t \in Thread, RecoverLeases(t) PROVE IInv'
<1>1. PICK step \in {"publish", "failed"} :
        thread' = [thread EXCEPT ![t].step = step, ![t].begun = now]
  BY DEF RecoverLeases
<1> DEFINE s == [thread[t] EXCEPT !.step = step, !.begun = now]
<1>2. s \in ThreadState /\ s.current = thread[t].current /\ s.step = step
  BY DEF IInv, TypeOK, ThreadState, Step
<1>3. thread' = [thread EXCEPT ![t] = s]
  BY <1>1 DEF IInv, TypeOK
<1>4. InTick(t)
  BY DEF RecoverLeases, InTick
<1>5. UNCHANGED <<now, started, stopped, running, watchdog, reports, late>>
  BY DEF RecoverLeases
<1>6. reports' \in [last : Time \cup {Never}, confirmed : Nat]
  BY <1>5 DEF IInv, TypeOK
<1> HIDE DEF s
<1> QED
  BY <1>2, <1>3, <1>4, <1>5, <1>6, Moves

(***************************************************************************)
(* The steps that only move a thread.                                      *)
(***************************************************************************)
LEMMA GotoInv ==
    ASSUME IInv, NEW t \in Thread,
           Call(t) \/ Check(t) \/ PublishOnce(t) \/ Dispatch(t) \/ Wake(t)
    PROVE  IInv'
<1>1. reports' \in [last : Time \cup {Never}, confirmed : Nat]
      /\ UNCHANGED <<now, started, stopped, running, watchdog, late>>
  BY DEF Call, Check, PublishOnce, Dispatch, Wake, IInv, TypeOK
<1> USE <1>1, Goes DEF Step, InTick
<1>2. CASE Call(t)
  BY <1>2 DEF Call
<1>3. CASE Check(t)
  <2>1. Goto(t, "off") \/ (Goto(t, "acquire") /\ ~stopped)
    BY <1>3 DEF Check
  <2> QED
    BY <2>1
<1>4. CASE PublishOnce(t)
  <2>1. Goto(t, "report") \/ Goto(t, "failed")
    BY <1>4 DEF PublishOnce
  <2>2. InTick(t)
    BY <1>4 DEF PublishOnce
  <2> QED
    BY <2>1, <2>2
<1>5. CASE Dispatch(t)
  <2>1. Goto(t, "send") \/ Goto(t, "failed") \/ Goto(t, "succeeded")
    BY <1>5 DEF Dispatch
  <2>2. InTick(t)
    BY <1>5 DEF Dispatch
  <2> QED
    BY <2>1, <2>2
<1>6. CASE Wake(t)
  BY <1>6 DEF Wake
<1> QED
  BY <1>2, <1>3, <1>4, <1>5, <1>6

LEMMA NextInv == IInv /\ [Next]_vars => IInv'
<1> SUFFICES ASSUME IInv, [Next]_vars PROVE IInv'
  OBVIOUS
<1>1. CASE Stop
  BY <1>1 DEF Stop, IInv, TypeOK, SingleFlight, InTick, RecordedEarlier, LateOnce
<1>2. CASE Restart
  <2>1. \A t \in Thread : thread'[t] = Off
    BY <1>2 DEF Restart, Fresh
  <2>2. \A t \in Thread : ~InTick(t)'
    BY <2>1, OffType DEF InTick
  <2>a. thread' \in [Thread -> ThreadState] /\ late' \in [Thread -> 0 .. 2]
    BY <1>2, OffType DEF Restart, Fresh
  <2>b. watchdog' \in [last : Time \cup {Never}, failures : 0 .. FailureCap]
        /\ reports' \in [last : Time \cup {Never}, confirmed : Nat]
    BY <1>2, ClockStarts DEF Restart, Fresh
  <2>3. TypeOK'
    BY <1>2, <2>a, <2>b DEF Restart, Fresh, IInv, TypeOK, ThreadState
  <2>4. SingleFlight'
    BY <2>2 DEF SingleFlight
  <2>5. RecordedEarlier'
    BY <1>2, <2>1, <2>2, OffType DEF Restart, Fresh, RecordedEarlier, IInv, TypeOK, Time, Never
  <2>6. LateOnce'
    BY <1>2 DEF Restart, Fresh, LateOnce
  <2> QED
    BY <2>3, <2>4, <2>5, <2>6 DEF IInv
<1>3. CASE PassTime
  <2>1. now' = now + 1 /\ now' \in Time
        /\ UNCHANGED <<started, stopped, running, thread, watchdog, reports, late>>
    BY <1>3, SchedulingAssumption DEF SchedulingAssumption, PassTime, IInv, TypeOK, Time
  <2>2. TypeOK' /\ SingleFlight' /\ LateOnce'
    BY <2>1 DEF IInv, TypeOK, SingleFlight, InTick, LateOnce
  <2>3. RecordedEarlier'
    BY <2>1 DEF IInv, TypeOK, RecordedEarlier, InTick, Time, Never
  <2> QED
    BY <2>2, <2>3 DEF IInv
<1>4. ASSUME NEW t \in Thread, Call(t) \/ Advance(t) PROVE IInv'
  BY <1>4, GotoInv, AcquireInv, RecoverLeasesInv, SendInv, RecordTimeInv, CountInv DEF Advance
<1>5. CASE UNCHANGED vars
  BY <1>5 DEF vars, IInv, TypeOK, SingleFlight, InTick, RecordedEarlier, LateOnce
<1> QED
  BY <1>1, <1>2, <1>3, <1>4, <1>5 DEF Next

LEMMA Inductive == Spec => []IInv
BY InitInv, NextInv, PTL DEF Spec

(***************************************************************************)
(* Types hold with any number of threads.                                  *)
(***************************************************************************)
THEOREM TypeCorrect == Spec => []TypeOK
<1>1. IInv => TypeOK
  BY DEF IInv
<1> QED
  BY <1>1, Inductive, PTL

(***************************************************************************)
(* Ticks never overlap, and the lock is never released under one.          *)
(***************************************************************************)
THEOREM TicksAreExclusive == Spec => []SingleFlight
<1>1. IInv => SingleFlight
  BY DEF IInv
<1> QED
  BY <1>1, Inductive, PTL

(***************************************************************************)
(* No thread begins a second tick after the stop.                          *)
(***************************************************************************)
THEOREM ShutdownIsPrompt == Spec => []FewLateTicks
<1>1. IInv => FewLateTicks
  <2> SUFFICES ASSUME IInv, NEW t \in Thread PROVE late[t] <= 1
    BY DEF FewLateTicks
  <2>1. late[t] = 0 \/ late[t] = 1
    BY DEF IInv, LateOnce
  <2> QED
    BY <2>1
<1> QED
  BY <1>1, Inductive, PTL

(***************************************************************************)
(* A tick that hangs makes the watchdog stale, and no other tick undoes    *)
(* that.                                                                   *)
(***************************************************************************)
THEOREM HangsAreDetected == Spec => []HangDetected
<1>1. IInv => HangDetected
  <2> SUFFICES ASSUME IInv, NEW t \in Thread, InTick(t), now - thread[t].current > StaleAfter
               PROVE  Stale
    BY DEF HangDetected, Healthy
  <2>1. watchdog.last <= thread[t].current
    BY DEF IInv, RecordedEarlier
  <2>2. now \in Int /\ thread[t].current \in Int /\ watchdog.last \in Int
    BY DEF IInv, TypeOK, Time, Never
  <2> QED
    BY <2>1, <2>2, SchedulingAssumption DEF SchedulingAssumption, Stale
<1> QED
  BY <1>1, Inductive, PTL

(***************************************************************************)
(* The last tick time goes forward, or is forgotten with the process.      *)
(***************************************************************************)
THEOREM TickTimeGoesForward == Spec => TickTimeAdvances
<1>1. IInv /\ [Next]_vars => (watchdog'.last >= watchdog.last \/ watchdog'.last = Never)
  <2> SUFFICES ASSUME IInv, [Next]_vars
               PROVE  watchdog'.last >= watchdog.last \/ watchdog'.last = Never
    OBVIOUS
  <2>0. watchdog.last \in Int
    BY DEF IInv, TypeOK, Time, Never
  <2>1. ASSUME NEW t \in Thread, RecordTime(t) PROVE watchdog'.last >= watchdog.last
    <3>1. InTick(t) /\ watchdog'.last = thread[t].current
      BY <2>1 DEF RecordTime, InTick, IInv, TypeOK
    <3>2. thread[t].current \in Int
      BY DEF IInv, TypeOK, Time
    <3> QED
      BY <2>0, <3>1, <3>2 DEF IInv, RecordedEarlier
  <2>2. ASSUME NEW t \in Thread, Count(t) PROVE watchdog'.last = watchdog.last
    BY <2>2 DEF Count, IInv, TypeOK
  <2>3. CASE Restart
    BY <2>3 DEF Restart, Fresh
  <2>4. ASSUME UNCHANGED watchdog PROVE watchdog'.last = watchdog.last
    BY <2>4
  <2>5. (\E t \in Thread : RecordTime(t)) \/ (\E t \in Thread : Count(t)) \/ Restart
        \/ UNCHANGED watchdog
    <3>1. ASSUME NEW t \in Thread, Call(t) \/ Advance(t)
          PROVE  RecordTime(t) \/ Count(t) \/ UNCHANGED watchdog
      BY <3>1 DEF Advance, Call, Check, Acquire, RecoverLeases, PublishOnce, Dispatch, Send, Wake
    <3> QED
      BY <3>1 DEF Next, Stop, PassTime, vars
  <2> QED
    BY <2>0, <2>1, <2>2, <2>3, <2>4, <2>5
<1> QED
  BY <1>1, Inductive, PTL DEF Spec, TickTimeAdvances

-----------------------------------------------------------------------------
(***************************************************************************)
(* Reports.  The confirmed ones are spaced by the interval: the last of    *)
(* them was sent by a tick that began late enough, and the report a tick   *)
(* is about to send is due until it is sent, since no other tick runs.     *)
(***************************************************************************)
ReportsSpaced ==
    /\ reports.last = Never => reports.confirmed = 0
    /\ reports.last # Never =>
         /\ reports.confirmed >= 1
         /\ started + (reports.confirmed - 1) * ReportInterval <= reports.last
         /\ reports.last <= now

BegunInLife ==
    \A t \in Thread : thread[t].step \in {"publish", "report", "send"} =>
        started <= thread[t].begun /\ thread[t].begun <= now

SendsWhenDue == \A t \in Thread : thread[t].step = "send" => Due(t)

PaceInv == started <= now /\ ReportsSpaced /\ BegunInLife /\ SendsWhenDue

LEMMA PaceStarts == Init => PaceInv
BY OffType DEF Init, PaceInv, ReportsSpaced, BegunInLife, SendsWhenDue, Off, Never

(***************************************************************************)
(* A confirmed report of a due tick is one interval after the last.        *)
(***************************************************************************)
LEMMA OneMoreInterval ==
    ASSUME NEW s \in Int, NEW n \in Nat, NEW i \in Nat, NEW last \in Int, NEW next \in Int,
           s + (n - 1) * i <= last, next - last >= i
    PROVE  s + ((n + 1) - 1) * i <= next
<1>1. ((n + 1) - 1) * i = (n - 1) * i + i
  OBVIOUS
<1> DEFINE m == (n - 1) * i
<1>2. m \in Int
  OBVIOUS
<1> HIDE DEF m
<1> QED
  BY <1>1, <1>2 DEF m

LEMMA SendPace == ASSUME IInv, PaceInv, NEW t \in Thread, Send(t) PROVE PaceInv'
<1>1. /\ thread[t].step = "send" /\ Due(t) /\ InTick(t)
      /\ started <= thread[t].begun /\ thread[t].begun <= now
  BY DEF Send, InTick, PaceInv, SendsWhenDue, BegunInLife
<1>2. UNCHANGED <<now, started>> /\ thread' = [thread EXCEPT ![t].step = "succeeded"]
  BY DEF Send, Goto
<1>3. \A u \in Thread : u # t => thread[u].step # "send"
  BY <1>1 DEF IInv, SingleFlight, InTick
<1>4. BegunInLife' /\ SendsWhenDue'
  BY <1>2, <1>3 DEF PaceInv, BegunInLife, SendsWhenDue, IInv, TypeOK
<1>5. /\ started \in Int /\ now \in Int /\ thread[t].begun \in Int /\ thread[t].begun # Never
      /\ reports.confirmed \in Nat /\ ReportInterval \in Nat /\ reports.last \in Int
  BY SchedulingAssumption DEF SchedulingAssumption, IInv, TypeOK, Time, Never
<1>6. CASE reports' = reports
  BY <1>2, <1>4, <1>6 DEF PaceInv, ReportsSpaced
<1>7. CASE reports' = [last |-> thread[t].begun, confirmed |-> reports.confirmed + 1]
  <2>1. reports'.last = thread[t].begun /\ reports'.confirmed = reports.confirmed + 1
    BY <1>7
  <2>2. started + ((reports.confirmed + 1) - 1) * ReportInterval <= thread[t].begun
    <3>1. CASE reports.last = Never
      <4>1. ((reports.confirmed + 1) - 1) * ReportInterval = 0
        BY <1>5, <3>1 DEF PaceInv, ReportsSpaced
      <4> QED
        BY <1>1, <1>5, <4>1
    <3>2. CASE reports.last # Never
      <4>1. thread[t].begun - reports.last >= ReportInterval
        BY <1>1, <3>2 DEF Due
      <4>2. started + (reports.confirmed - 1) * ReportInterval <= reports.last
        BY <3>2 DEF PaceInv, ReportsSpaced
      <4> QED
        BY <1>5, <4>1, <4>2, OneMoreInterval
    <3> QED
      BY <3>1, <3>2
  <2>3. reports'.confirmed >= 1 /\ reports'.last # Never /\ reports'.last <= now
    BY <1>1, <1>5, <2>1
  <2>4. ReportsSpaced'
    BY <1>2, <2>1, <2>2, <2>3 DEF ReportsSpaced
  <2> QED
    BY <1>2, <1>4, <2>4 DEF PaceInv
<1> QED
  BY <1>6, <1>7 DEF Send

(***************************************************************************)
(* The other steps of a thread leave the reports alone.                    *)
(***************************************************************************)
LEMMA StepsPace ==
    ASSUME IInv, PaceInv, NEW t \in Thread, Call(t) \/ Advance(t), ~Send(t)
    PROVE  PaceInv'
<1>1. UNCHANGED <<now, started, reports>>
  BY DEF Advance, Call, Check, Acquire, RecoverLeases, PublishOnce, Dispatch, RecordTime, Count, Wake
<1>2. ReportsSpaced'
  BY <1>1 DEF PaceInv, ReportsSpaced
<1>3. ASSUME NEW s \in ThreadState, thread' = [thread EXCEPT ![t] = s],
             s.step \in {"publish", "report", "send"} =>
                started <= s.begun /\ s.begun <= now,
             s.step = "send" =>
                reports.last = Never \/ s.begun - reports.last >= ReportInterval
      PROVE  PaceInv'
  <2>1. \A u \in Thread : thread'[u] = IF u = t THEN s ELSE thread[u]
    BY <1>3 DEF IInv, TypeOK
  <2>2. BegunInLife'
    BY <1>1, <1>3, <2>1 DEF PaceInv, BegunInLife
  <2>3. SendsWhenDue'
    BY <1>1, <1>3, <2>1 DEF PaceInv, SendsWhenDue, Due
  <2> QED
    BY <1>1, <1>2, <2>2, <2>3 DEF PaceInv
<1>4. thread[t] \in ThreadState
  BY DEF IInv, TypeOK, ThreadState
<1>5. ASSUME NEW step \in Step, Goto(t, step),
             step \in {"publish", "report", "send"} => thread[t].step \in {"publish", "report"},
             step = "send" => Due(t)
      PROVE  PaceInv'
  <2> DEFINE s == [thread[t] EXCEPT !.step = step]
  <2>1. s \in ThreadState /\ s.step = step /\ s.begun = thread[t].begun
    BY <1>4 DEF ThreadState
  <2>2. thread' = [thread EXCEPT ![t] = s]
    BY <1>5 DEF Goto
  <2>3. thread[t].step \in {"publish", "report"} => started <= thread[t].begun /\ thread[t].begun <= now
    BY DEF PaceInv, BegunInLife
  <2> HIDE DEF s
  <2> QED
    BY <1>3, <1>5, <2>1, <2>2, <2>3 DEF Due
<1>6. CASE Acquire(t) /\ running = NoThread
  <2> DEFINE s == [thread[t] EXCEPT !.step = "leases", !.current = now]
  <2>1. s \in ThreadState /\ s.step = "leases"
    BY <1>4 DEF ThreadState, Step, IInv, TypeOK
  <2>2. thread' = [thread EXCEPT ![t] = s]
    BY <1>6 DEF Acquire
  <2> HIDE DEF s
  <2> QED
    BY <1>3, <2>1, <2>2
<1>7. CASE RecoverLeases(t)
  <2>1. PICK step \in {"publish", "failed"} :
          thread' = [thread EXCEPT ![t].step = step, ![t].begun = now]
    BY <1>7 DEF RecoverLeases
  <2> DEFINE s == [thread[t] EXCEPT !.step = step, !.begun = now]
  <2>2. s \in ThreadState /\ s.step = step /\ s.begun = now
    BY <1>4 DEF ThreadState, Step, IInv, TypeOK
  <2>3. thread' = [thread EXCEPT ![t] = s]
    BY <2>1 DEF IInv, TypeOK
  <2>4. started <= now /\ now <= now
    BY DEF PaceInv, IInv, TypeOK, Time
  <2> HIDE DEF s
  <2> QED
    BY <1>3, <2>2, <2>3, <2>4
<1>8. CASE RecordTime(t)
  <2> DEFINE s == [thread[t] EXCEPT !.step = "counting", !.ok = thread[t].step = "succeeded"]
  <2>1. s \in ThreadState /\ s.step = "counting"
    BY <1>4 DEF ThreadState, Step
  <2>2. thread' = [thread EXCEPT ![t] = s]
    BY <1>8 DEF RecordTime
  <2> HIDE DEF s
  <2> QED
    BY <1>3, <2>1, <2>2
<1>9. CASE Count(t)
  <2> DEFINE s == [Off EXCEPT !.step = After(t)]
  <2>1. s \in ThreadState /\ s.step \in {"wait", "off"}
    BY OffType DEF After, ThreadState, Step, Off
  <2>2. thread' = [thread EXCEPT ![t] = s]
    BY <1>9 DEF Count
  <2> HIDE DEF s
  <2> QED
    BY <1>3, <2>1, <2>2
<1>10. CASE Call(t) \/ Check(t) \/ (Acquire(t) /\ running # NoThread) \/ Wake(t)
  <2>1. \E step \in {"check", "off", "acquire", "wait"} : Goto(t, step)
    BY <1>10 DEF Call, Check, Acquire, Wake, After
  <2> QED
    BY <1>5, <2>1 DEF Step
<1>11. CASE PublishOnce(t)
  <2>1. thread[t].step = "publish" /\ (Goto(t, "report") \/ Goto(t, "failed"))
    BY <1>11 DEF PublishOnce
  <2> QED
    BY <1>5, <2>1 DEF Step
<1>12. CASE Dispatch(t)
  <2>1. thread[t].step = "report"
        /\ ((Goto(t, "send") /\ Due(t)) \/ Goto(t, "failed") \/ Goto(t, "succeeded"))
    BY <1>12 DEF Dispatch
  <2> QED
    BY <1>5, <2>1 DEF Step
<1> QED
  BY <1>6, <1>7, <1>8, <1>9, <1>10, <1>11, <1>12 DEF Advance

LEMMA NextPace == IInv /\ PaceInv /\ [Next]_vars => PaceInv'
<1> SUFFICES ASSUME IInv, PaceInv, [Next]_vars PROVE PaceInv'
  OBVIOUS
<1>1. CASE Stop
  BY <1>1 DEF Stop, PaceInv, ReportsSpaced, BegunInLife, SendsWhenDue, Due
<1>2. CASE Restart
  <2>1. \A t \in Thread : thread'[t].step = "off"
    BY <1>2, OffType DEF Restart, Fresh
  <2>2. reports'.last = Never /\ reports'.confirmed = 0
    BY <1>2 DEF Restart, Fresh
  <2>3. started' <= now'
    BY <1>2 DEF Restart, Fresh, IInv, TypeOK, Time
  <2> QED
    BY <2>1, <2>2, <2>3 DEF PaceInv, ReportsSpaced, BegunInLife, SendsWhenDue
<1>3. CASE PassTime
  <2>1. now' = now + 1 /\ UNCHANGED <<started, thread, reports>>
    BY <1>3 DEF PassTime
  <2>2. now \in Int /\ started \in Int /\ reports.last \in Int
        /\ \A t \in Thread : thread[t].begun \in Int
    BY DEF IInv, TypeOK, Time, Never
  <2>3. ReportsSpaced'
    BY <2>1, <2>2 DEF PaceInv, ReportsSpaced
  <2>4. BegunInLife' /\ SendsWhenDue' /\ started' <= now'
    BY <2>1, <2>2 DEF PaceInv, BegunInLife, SendsWhenDue, Due
  <2> QED
    BY <2>3, <2>4 DEF PaceInv
<1>4. ASSUME NEW t \in Thread, Call(t) \/ Advance(t) PROVE PaceInv'
  BY <1>4, SendPace, StepsPace
<1>5. CASE UNCHANGED vars
  BY <1>5 DEF vars, PaceInv, ReportsSpaced, BegunInLife, SendsWhenDue, Due
<1> QED
  BY <1>1, <1>2, <1>3, <1>4, <1>5 DEF Next

LEMMA IntervalsWithin ==
    ASSUME NEW n \in Nat, NEW i \in Nat \ {0}, NEW a \in Nat, n * i <= a
    PROVE  n <= a \div i
<1> DEFINE q == a \div i
<1>1. q \in Nat /\ a < (q + 1) * i
  OBVIOUS
<1> HIDE DEF q
<1>2. SUFFICES ASSUME n > q PROVE FALSE
  BY <1>1 DEF q
<1>3. n * i >= (q + 1) * i
  BY <1>1, <1>2
<1>4. n * i \in Int /\ (q + 1) * i \in Int
  BY <1>1
<1> QED
  BY <1>1, <1>3, <1>4

(***************************************************************************)
(* A process confirms at most one report for each interval of its life.    *)
(***************************************************************************)
THEOREM ReportsArePaced == Spec => []ReportsPaced
<1>1. IInv /\ PaceInv => ReportsPaced
  <2> SUFFICES ASSUME IInv, PaceInv PROVE ReportsPaced
    OBVIOUS
  <2> DEFINE n == reports.confirmed
             lived == now - started
  <2>1. n \in Nat /\ lived \in Nat /\ ReportInterval \in Nat \ {0}
    BY SchedulingAssumption DEF SchedulingAssumption, IInv, TypeOK, Time, PaceInv
  <2>2. CASE n = 0
    <3>1. lived \div ReportInterval \in Nat
      BY <2>1
    <3> QED
      BY <2>2, <3>1 DEF ReportsPaced
  <2>3. CASE n # 0
    <3>1. started + (n - 1) * ReportInterval <= reports.last /\ reports.last <= now
      BY <2>3 DEF PaceInv, ReportsSpaced
    <3>2. n - 1 \in Nat /\ reports.last \in Int /\ started \in Int /\ now \in Int
          /\ (n - 1) * ReportInterval \in Int
      BY <2>1, <2>3 DEF IInv, TypeOK, Time, Never
    <3>3. (n - 1) * ReportInterval <= lived
      BY <3>1, <3>2
    <3>4. n - 1 <= lived \div ReportInterval
      BY <2>1, <3>2, <3>3, IntervalsWithin
    <3>5. lived \div ReportInterval \in Nat
      BY <2>1
    <3> QED
      BY <2>1, <3>4, <3>5 DEF ReportsPaced
  <2> QED
    BY <2>2, <2>3
<1> QED
  BY <1>1, Inductive, PaceStarts, NextPace, PTL DEF Spec

=============================================================================
