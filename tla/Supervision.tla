----------------------------- MODULE Supervision -----------------------------
(***************************************************************************)
(* The life of a yasinpress process: build_runtime migrates the database,  *)
(* checks it and recovers the jobs an earlier process left running; "run"  *)
(* then ticks, submitting a fetch job when it is due and executing one     *)
(* queued job per tick; "status" and "health" end after build_runtime.     *)
(* Jobs live in two places: their rows, which survive, and the queue of    *)
(* the process that submitted them, which does not.                        *)
(***************************************************************************)
EXTENDS SchemaMigration

CONSTANTS
    Runner,       \* the processes started as "yasinpress run"
    Job,          \* the ids new_job draws, as many as an instance may submit
    Attempts,     \* JobRetryPolicy.attempts
    Interval,     \* time from one fetch to the next
    StoreFails,   \* may a save of a job row raise
    NoJob         \* no job

ASSUME SupervisionAssumption ==
    /\ Runner \subseteq Process
    /\ Attempts \in Nat \ {0} /\ Interval \in Nat \ {0}
    /\ StoreFails \in BOOLEAN
    /\ NoJob \notin Job

VARIABLES
    rows,       \* Job -> its row of the jobs table
    handled,    \* Job -> how often its handler completed
    process     \* Process -> what it does and holds in memory

vars == <<schemaVars, rows, handled, process>>

-----------------------------------------------------------------------------
JobRow ==
    [status : {"absent", "pending", "running", "succeeded", "failed"}, attempts : 0 .. Attempts]

NoRow == [status |-> "absent", attempts |-> 0]

Finished == {"succeeded", "failed"}

Off ==
    [step |-> "off", seen |-> [j \in Job |-> NoRow], queue |-> {}, job |-> NoJob,
     tries |-> 0, wait |-> 0, stopped |-> FALSE]

ProcessStep ==
    {"off", "migrate", "check", "recover", "due", "pick", "run", "cycle"} \cup Finished

InLoop(p) == process[p].step \in {"due", "pick", "run", "cycle"} \cup Finished

TypeOK ==
    /\ SchemaTypeOK
    /\ rows \in [Job -> JobRow]
    /\ handled \in [Job -> Nat]
    /\ process \in [Process -> [step : ProcessStep, seen : [Job -> JobRow],
                                queue : SUBSET Job, job : Job \cup {NoJob},
                                tries : 0 .. Attempts, wait : 0 .. Interval,
                                stopped : BOOLEAN]]

Init ==
    /\ SchemaInit
    /\ rows = [j \in Job |-> NoRow]
    /\ handled = [j \in Job |-> 0]
    /\ process = [p \in Process |-> Off]

(***************************************************************************)
(* The lifecycle object of a job in the hands of a process counts its      *)
(* attempts there; the row learns of them when it is saved.                *)
(***************************************************************************)
Save(j, status, attempts) ==
    rows' = [rows EXCEPT ![j] = [status |-> status, attempts |-> attempts]]

Goto(p, step) == process' = [process EXCEPT ![p].step = step]

\* A tick that raised and one that did not go on with the next one.
EndTick(p) ==
    process' = [process EXCEPT ![p] = [@ EXCEPT !.step = "due", !.job = NoJob, !.tries = 0]]

-----------------------------------------------------------------------------
(***************************************************************************)
(* Start-up.                                                               *)
(***************************************************************************)
Start(p) ==
    /\ process[p].step = "off"
    /\ Goto(p, "migrate")
    /\ UNCHANGED <<schemaVars, rows, handled>>

Migrate(p) ==
    /\ process[p].step = "migrate"
    /\ \/ MigrateStep(p) /\ UNCHANGED process
       \/ Release(p) /\ Goto(p, "check")
       \/ change[p].step # "none" /\ Rollback(p) /\ process' = [process EXCEPT ![p] = Off]
    /\ UNCHANGED <<rows, handled>>

\* Mutant: only failed jobs are recovered.
InterruptedFailed == {j \in Job : rows[j].status = "failed"}

\* Mutant: every job that is not pending is recovered.
InterruptedAll == {j \in Job : rows[j].status \notin {"absent", "pending"}}

Interrupted == {j \in Job : rows[j].status = "running"}

(***************************************************************************)
(* recover_jobs works on the rows as database.jobs.all() read them.        *)
(***************************************************************************)
CheckDatabase(p) ==
    /\ process[p].step = "check"
    /\ process' = [process EXCEPT
          ![p].step = "recover",
          ![p].seen = [j \in Job |-> IF j \in Interrupted THEN rows[j] ELSE NoRow]]
    /\ UNCHANGED <<schemaVars, rows, handled>>

ToRecover(p) == {j \in Job : process[p].seen[j] # NoRow}

RecoverJob(p) ==
    /\ process[p].step = "recover"
    /\ \E j \in ToRecover(p) :
          /\ Save(j, "pending", process[p].seen[j].attempts)
          /\ process' = [process EXCEPT ![p].seen[j] = NoRow]
    /\ UNCHANGED <<schemaVars, handled>>

FinishStart(p) ==
    /\ process[p].step = "recover" /\ ToRecover(p) = {}
    /\ process' = [process EXCEPT ![p] = IF p \in Runner THEN [Off EXCEPT !.step = "due"] ELSE Off]
    /\ UNCHANGED <<schemaVars, rows, handled>>

-----------------------------------------------------------------------------
(***************************************************************************)
(* A tick: Scheduler.run_due, Worker.run_once, process_cycle.              *)
(***************************************************************************)
Fresh == {j \in Job : rows[j].status = "absent"}

Due(p) == process[p].wait = 0 /\ Fresh # {}

Submit(p, j) ==
    /\ Save(j, "pending", 0)
    /\ process' = [process EXCEPT ![p].step = "pick", ![p].queue = @ \cup {j},
                                  ![p].wait = Interval]

(***************************************************************************)
(* JobExecution.run swallows the exception of a submission that could not  *)
(* save its row; the next one is an interval away all the same.            *)
(***************************************************************************)
FailToSubmit(p) ==
    /\ StoreFails
    /\ process' = [process EXCEPT ![p].step = "pick", ![p].wait = Interval]
    /\ UNCHANGED rows

RunDue(p) ==
    /\ process[p].step = "due" /\ ~process[p].stopped
    /\ \/ Due(p) /\ \E j \in Fresh : Submit(p, j)
       \/ Due(p) /\ FailToSubmit(p)
       \/ ~Due(p) /\ Goto(p, "pick") /\ UNCHANGED rows
    /\ UNCHANGED <<schemaVars, handled>>

(***************************************************************************)
(* The job leaves the queue before its row says that it runs.              *)
(***************************************************************************)
\* Mutant: the job is read from the queue and left there.
PickKeeping(p) ==
    /\ process[p].step = "pick"
    /\ IF process[p].queue = {}
       THEN Goto(p, "cycle") /\ UNCHANGED rows
       ELSE \E j \in process[p].queue :
               /\ Save(j, "running", 0)
               /\ process' = [process EXCEPT ![p].step = "run", ![p].job = j]
    /\ UNCHANGED <<schemaVars, handled>>

Pick(p) ==
    /\ process[p].step = "pick"
    /\ IF process[p].queue = {}
       THEN Goto(p, "cycle") /\ UNCHANGED rows
       ELSE \E j \in process[p].queue :
               \/ /\ Save(j, "running", 0)
                  /\ process' = [process EXCEPT ![p].step = "run", ![p].queue = @ \ {j},
                                                ![p].job = j]
               \/ /\ StoreFails
                  /\ process' = [process EXCEPT ![p].step = "due", ![p].queue = @ \ {j}]
                  /\ UNCHANGED rows
    /\ UNCHANGED <<schemaVars, handled>>

Tried(p) == process[p].tries + 1

\* Mutant: the loop over the attempts goes on after a success.
AttemptOn(p) ==
    /\ process[p].step = "run"
    /\ \E result \in Finished :
          /\ handled' = [handled EXCEPT ![process[p].job] =
                            IF result = "succeeded" THEN @ + 1 ELSE @]
          /\ process' = [process EXCEPT ![p].tries = Tried(p),
                                        ![p].step = IF Tried(p) < Attempts THEN "run" ELSE result]
    /\ UNCHANGED <<schemaVars, rows>>

Attempt(p) ==
    /\ process[p].step = "run"
    /\ \/ /\ handled' = [handled EXCEPT ![process[p].job] = @ + 1]
          /\ process' = [process EXCEPT ![p].tries = Tried(p), ![p].step = "succeeded"]
       \/ /\ process' = [process EXCEPT ![p].tries = Tried(p),
                                        ![p].step = IF Tried(p) < Attempts THEN "run" ELSE "failed"]
          /\ UNCHANGED handled
    /\ UNCHANGED <<schemaVars, rows>>

SaveResult(p) ==
    /\ process[p].step \in Finished
    /\ \/ /\ Save(process[p].job, process[p].step, process[p].tries)
          /\ process' = [process EXCEPT ![p] = [@ EXCEPT !.step = "cycle", !.job = NoJob,
                                                         !.tries = 0]]
       \/ StoreFails /\ EndTick(p) /\ UNCHANGED rows
    /\ UNCHANGED <<schemaVars, handled>>

ProcessCycle(p) ==
    /\ process[p].step = "cycle"
    /\ EndTick(p)
    /\ UNCHANGED <<schemaVars, rows, handled>>

-----------------------------------------------------------------------------
(***************************************************************************)
(* stop sets an event that the loop looks at between two ticks.            *)
(***************************************************************************)
Stop(p) ==
    /\ InLoop(p) /\ ~process[p].stopped
    /\ process' = [process EXCEPT ![p].stopped = TRUE]
    /\ UNCHANGED <<schemaVars, rows, handled>>

Close(p) ==
    /\ process[p].step = "due" /\ process[p].stopped
    /\ process' = [process EXCEPT ![p] = Off]
    /\ UNCHANGED <<schemaVars, rows, handled>>

(***************************************************************************)
(* A signal, KeyboardInterrupt or an exception of build_runtime ends the   *)
(* process wherever it is; SQLite rolls its savepoint back.                *)
(***************************************************************************)
Die(p) ==
    /\ process[p].step # "off"
    /\ Rollback(p)
    /\ process' = [process EXCEPT ![p] = Off]
    /\ UNCHANGED <<rows, handled>>

PassTime ==
    /\ \E p \in Process : process[p].wait > 0
    /\ process' = [p \in Process |->
                     [process[p] EXCEPT !.wait = IF @ > 0 THEN @ - 1 ELSE 0]]
    /\ UNCHANGED <<schemaVars, rows, handled>>

Advance(p) ==
    \/ Migrate(p) \/ CheckDatabase(p) \/ RecoverJob(p) \/ FinishStart(p)
    \/ RunDue(p) \/ Pick(p) \/ Attempt(p) \/ SaveResult(p) \/ ProcessCycle(p) \/ Close(p)

Next ==
    \/ PassTime
    \/ \E p \in Process : Start(p) \/ Advance(p) \/ Stop(p) \/ Die(p)

Fairness == \A p \in Process : WF_vars(Advance(p))

Spec == Init /\ [][Next]_vars /\ Fairness

-----------------------------------------------------------------------------
(***************************************************************************)
(* A process works on the complete schema only: not on the table another   *)
(* start was still changing or left when it died.                          *)
(***************************************************************************)
StartedComplete ==
    \A p \in Process : process[p].step \notin {"off", "migrate"} => Complete(table)

(***************************************************************************)
(* A finished row tells what happened, whoever rewrote it meanwhile: a     *)
(* handler never completes twice, it completed once if the row succeeded,  *)
(* and never within all its attempts if the row failed.                    *)
(***************************************************************************)
RecordedTruthfully ==
    \A j \in Job :
        /\ handled[j] <= 1
        /\ rows[j].status = "succeeded" => handled[j] = 1
        /\ rows[j].status = "failed" => handled[j] = 0 /\ rows[j].attempts = Attempts

(***************************************************************************)
(* The one interval task of the runtime never runs ahead of its worker: at *)
(* most one job is queued or executed, through failed saves and failed     *)
(* ticks.                                                                  *)
(***************************************************************************)
BacklogBounded ==
    \A p \in Process : Cardinality(process[p].queue \cup ({process[p].job} \ {NoJob})) <= 1

(***************************************************************************)
(* No row claims to run when the loop of a runner starts, unless another   *)
(* process executes it.                                                    *)
(***************************************************************************)
RecoveryComplete ==
    [][\A p \in Runner : process[p].step = "recover" /\ process'[p].step = "due" =>
         \A j \in Job : rows[j].status = "running" => \E q \in Process \ {p} : process[q].job = j]_vars

(***************************************************************************)
(* A finished row changes only if a start-up read it while the job ran.    *)
(***************************************************************************)
RecordsStable ==
    [][\A j \in Job : rows[j].status \in Finished /\ rows'[j] # rows[j] =>
         \E p \in Process : process[p].seen[j].status = "running"]_vars

(***************************************************************************)
(* A queued job leaves the hands of its process, though saves and ticks    *)
(* fail.                                                                   *)
(***************************************************************************)
QueuedJobsEnd ==
    \A p \in Runner, j \in Job :
        j \in process[p].queue ~> j \notin process[p].queue \cup {process[p].job}

=============================================================================
