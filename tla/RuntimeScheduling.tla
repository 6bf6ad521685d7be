-------------------------- MODULE RuntimeScheduling --------------------------
(***************************************************************************)
(* RuntimeScheduler driving a PublicationWorker: one thread runs the loop, *)
(* others call tick_once or stop.  A tick recovers leases, publishes once  *)
(* and dispatches the hourly report; the scheduler lets one tick run at a  *)
(* time and tells its watchdog how the tick ended.  All of it is memory:   *)
(* a new process starts afresh.                                            *)
(***************************************************************************)
EXTENDS Integers

CONSTANTS
    Thread,          \* the threads of the process
    Loop,            \* the one that runs the loop
    NoThread,        \* nobody
    ReportInterval,  \* HourlyReportDispatcher.interval
    StaleAfter,      \* Watchdog.stale_after
    FailureCap,      \* bound: failures counted
    MaxTime          \* bound of the clock

ASSUME SchedulingAssumption ==
    /\ Loop \in Thread /\ NoThread \notin Thread
    /\ ReportInterval \in Nat \ {0} /\ StaleAfter \in Nat \ {0}
    /\ FailureCap \in Nat \ {0} /\ MaxTime \in Nat

VARIABLES
    now,       \* the clock
    started,   \* when the process started
    stopped,   \* the stop event
    running,   \* the thread that holds the single-flight lock
    thread,    \* Thread -> where it is, and the times it read
    watchdog,  \* last_tick_at and consecutive_failures
    reports,   \* last_sent_at, and how many sends the sender confirmed
    late       \* Thread -> the ticks it began after the stop: none, one, more

vars == <<now, started, stopped, running, thread, watchdog, reports, late>>

Never == -1
Time == 0 .. MaxTime

Step ==
    {"off", "check", "acquire", "leases", "publish", "report", "send",
     "succeeded", "failed", "counting", "wait"}

InTick(t) ==
    thread[t].step \in {"leases", "publish", "report", "send", "succeeded", "failed", "counting"}

TypeOK ==
    /\ now \in Time /\ started \in Time
    /\ stopped \in BOOLEAN
    /\ running \in Thread \cup {NoThread}
    /\ thread \in [Thread -> [step : Step, current : Time, begun : Time, ok : BOOLEAN]]
    /\ watchdog \in [last : Time \cup {Never}, failures : 0 .. FailureCap]
    /\ reports \in [last : Time \cup {Never}, confirmed : Nat]
    /\ late \in [Thread -> 0 .. 2]

Off == [step |-> "off", current |-> 0, begun |-> 0, ok |-> FALSE]

\* A new process: no tick, no failure, no report yet.
Fresh ==
    /\ started' = now
    /\ stopped' = FALSE /\ running' = NoThread
    /\ late' = [t \in Thread |-> 0]
    /\ thread' = [t \in Thread |-> Off]
    /\ watchdog' = [last |-> Never, failures |-> 0]
    /\ reports' = [last |-> Never, confirmed |-> 0]

Init ==
    /\ now = 0 /\ started = 0
    /\ stopped = FALSE /\ running = NoThread
    /\ late = [t \in Thread |-> 0]
    /\ thread = [t \in Thread |-> Off]
    /\ watchdog = [last |-> Never, failures |-> 0]
    /\ reports = [last |-> Never, confirmed |-> 0]

Goto(t, step) == thread' = [thread EXCEPT ![t].step = step]

-----------------------------------------------------------------------------
(***************************************************************************)
(* start on the loop's thread, tick_once on another one.                   *)
(***************************************************************************)
Call(t) ==
    /\ thread[t].step = "off"
    /\ Goto(t, "check")
    /\ UNCHANGED <<now, started, stopped, running, watchdog, reports, late>>

\* Mutant: only the wait of the loop looks at the event.
CheckUnstopped(t) ==
    /\ thread[t].step = "check"
    /\ Goto(t, "acquire")
    /\ UNCHANGED <<now, started, stopped, running, watchdog, reports, late>>

Check(t) ==
    /\ thread[t].step = "check"
    /\ Goto(t, IF stopped THEN "off" ELSE "acquire")
    /\ UNCHANGED <<now, started, stopped, running, watchdog, reports, late>>

\* Where a thread goes on after its run_once.
After(t) == IF t = Loop THEN "wait" ELSE "off"

Begun(t) ==
    IF stopped THEN [late EXCEPT ![t] = IF @ = 0 THEN 1 ELSE 2] ELSE late

\* Mutant: the finally clause that releases the lock covers its acquisition.
AcquireReleasing(t) ==
    /\ thread[t].step = "acquire"
    /\ IF running = NoThread
       THEN /\ running' = t
            /\ thread' = [thread EXCEPT ![t].step = "leases", ![t].current = now]
       ELSE running' = NoThread /\ Goto(t, After(t))
    /\ late' = IF running = NoThread THEN Begun(t) ELSE late
    /\ UNCHANGED <<now, started, stopped, watchdog, reports>>

(***************************************************************************)
(* A thread that finds the lock taken skips its tick.  The time that will  *)
(* be recorded is read under the lock.                                     *)
(***************************************************************************)
Acquire(t) ==
    /\ thread[t].step = "acquire"
    /\ IF running = NoThread
       THEN /\ running' = t
            /\ thread' = [thread EXCEPT ![t].step = "leases", ![t].current = now]
            /\ late' = Begun(t)
       ELSE Goto(t, After(t)) /\ UNCHANGED <<running, late>>
    /\ UNCHANGED <<now, started, stopped, watchdog, reports>>

-----------------------------------------------------------------------------
(***************************************************************************)
(* PublicationWorker.tick.  What it does to the queue is the subject of    *)
(* WorkerPool; here its calls return or raise.                             *)
(***************************************************************************)
RecoverLeases(t) ==
    /\ thread[t].step = "leases"
    /\ \E step \in {"publish", "failed"} :
          thread' = [thread EXCEPT ![t].step = step, ![t].begun = now]
    /\ UNCHANGED <<now, started, stopped, running, watchdog, reports, late>>

PublishOnce(t) ==
    /\ thread[t].step = "publish"
    /\ Goto(t, "report") \/ Goto(t, "failed")
    /\ UNCHANGED <<now, started, stopped, running, watchdog, reports, late>>

\* Mutant: the wait is one second too short.
DueEarly(t) == reports.last = Never \/ thread[t].begun - reports.last >= ReportInterval - 1

Due(t) == reports.last = Never \/ thread[t].begun - reports.last >= ReportInterval

(***************************************************************************)
(* The snapshot of a due report is taken outside of the try block.         *)
(***************************************************************************)
Dispatch(t) ==
    /\ thread[t].step = "report"
    /\ IF Due(t) THEN Goto(t, "send") \/ Goto(t, "failed") ELSE Goto(t, "succeeded")
    /\ UNCHANGED <<now, started, stopped, running, watchdog, reports, late>>

(***************************************************************************)
(* A sender that raises fails the report, not the tick.                    *)
(***************************************************************************)
Send(t) ==
    /\ thread[t].step = "send"
    /\ \/ reports' = [last |-> thread[t].begun, confirmed |-> reports.confirmed + 1]
       \/ UNCHANGED reports
    /\ Goto(t, "succeeded")
    /\ UNCHANGED <<now, started, stopped, running, watchdog, late>>

-----------------------------------------------------------------------------
(***************************************************************************)
(* record_success and record_failure set the time before the counter, so   *)
(* that a reader of the watchdog can come in between.                      *)
(***************************************************************************)
RecordTime(t) ==
    /\ thread[t].step \in {"succeeded", "failed"}
    /\ watchdog' = [watchdog EXCEPT !.last = thread[t].current]
    /\ thread' = [thread EXCEPT ![t].step = "counting", ![t].ok = thread[t].step = "succeeded"]
    /\ UNCHANGED <<now, started, stopped, running, reports, late>>

Failures(t) ==
    IF thread[t].ok THEN 0
    ELSE IF watchdog.failures < FailureCap THEN watchdog.failures + 1 ELSE FailureCap

\* Mutant: a failed tick leaves run_once before the lock is released.
CountKeeping(t) ==
    /\ thread[t].step = "counting"
    /\ watchdog' = [watchdog EXCEPT !.failures = Failures(t)]
    /\ running' = IF thread[t].ok THEN NoThread ELSE running
    /\ thread' = [thread EXCEPT ![t] = [Off EXCEPT !.step = After(t)]]
    /\ UNCHANGED <<now, started, stopped, reports, late>>

Count(t) ==
    /\ thread[t].step = "counting"
    /\ watchdog' = [watchdog EXCEPT !.failures = Failures(t)]
    /\ running' = NoThread
    /\ thread' = [thread EXCEPT ![t] = [Off EXCEPT !.step = After(t)]]
    /\ UNCHANGED <<now, started, stopped, reports, late>>

(***************************************************************************)
(* The loop waits for its interval, or for the event.                      *)
(***************************************************************************)
Wake(t) ==
    /\ thread[t].step = "wait"
    /\ Goto(t, "check")
    /\ UNCHANGED <<now, started, stopped, running, watchdog, reports, late>>

Stop ==
    /\ ~stopped
    /\ stopped' = TRUE
    /\ UNCHANGED <<now, started, running, thread, watchdog, reports, late>>

Restart == Fresh /\ UNCHANGED now

PassTime ==
    /\ now < MaxTime
    /\ now' = now + 1
    /\ UNCHANGED <<started, stopped, running, thread, watchdog, reports, late>>

Advance(t) ==
    \/ Check(t) \/ Acquire(t) \/ RecoverLeases(t) \/ PublishOnce(t) \/ Dispatch(t)
    \/ Send(t) \/ RecordTime(t) \/ Count(t) \/ Wake(t)

Next ==
    \/ Stop \/ Restart \/ PassTime
    \/ \E t \in Thread : Call(t) \/ Advance(t)

Fairness == \A t \in Thread : WF_vars(Advance(t))

Spec == Init /\ [][Next]_vars /\ Fairness

-----------------------------------------------------------------------------
(***************************************************************************)
(* Single flight: ticks of several threads never overlap, and a thread in  *)
(* a tick holds the lock until the end.                                    *)
(***************************************************************************)
SingleFlight == \A t \in Thread : InTick(t) => running = t

(***************************************************************************)
(* A process confirms at most one report for each interval it has lived    *)
(* ("at most one report per configured hour", dispatcher.py:19), however   *)
(* long ticks take and whichever threads run them.                         *)
(***************************************************************************)
ReportsPaced == reports.confirmed <= ((now - started) \div ReportInterval) + 1

(***************************************************************************)
(* Shutdown: every thread begins at most one tick after the stop, the one  *)
(* it had passed the test for.                                             *)
(***************************************************************************)
FewLateTicks == \A t \in Thread : late[t] <= 1

(***************************************************************************)
(* Watchdog.status: what a thread may read at any moment.                  *)
(***************************************************************************)
Stale == watchdog.last = Never \/ now - watchdog.last > StaleAfter
Healthy == ~Stale /\ watchdog.failures = 0

(***************************************************************************)
(* A hanging tick is detected: while a tick runs for longer than           *)
(* stale_after, no tick of another thread keeps the watchdog healthy.      *)
(***************************************************************************)
HangDetected ==
    \A t \in Thread : InTick(t) /\ now - thread[t].current > StaleAfter => ~Healthy

(***************************************************************************)
(* The last tick time of a process never goes back, though several threads *)
(* record ticks that began at different times.                             *)
(***************************************************************************)
TickTimeAdvances ==
    [][watchdog'.last >= watchdog.last \/ watchdog'.last = Never]_vars

(***************************************************************************)
(* Whatever leases, publisher, snapshot or sender raise, and whichever     *)
(* thread holds the lock: another tick follows as long as the loop runs    *)
(* and nobody stops it.                                                    *)
(***************************************************************************)
TicksGoOn ==
    thread[Loop].step # "off" ~>
        stopped \/ thread[Loop].step = "off" \/ \E t \in Thread : thread[t].step = "leases"

=============================================================================
