----------------------------- MODULE Stablehand -----------------------------
(***************************************************************************)
(* The worker, the executors and the runners around the run lifecycle of    *)
(* RunService (worker.py, executors/, runner/main.py).                      *)
(*                                                                         *)
(* One worker holds the advisory lock and runs reconcile() over and over.   *)
(* A tick is a fixed sequence of phases; a phase selects its rows once and  *)
(* then treats them one by one, each with transactions of its own, so that  *)
(* handlers, users and runners act between any two steps.  The run state a  *)
(* step decides on is the one its session loaded, perhaps earlier in the    *)
(* tick: sessions are made with expire_on_commit=False and a SELECT does    *)
(* not refresh a row the identity map still holds.                          *)
(*                                                                         *)
(* An execution row and the token of its dispatch have the same key here:   *)
(* tokens[e] gives the run and the phase of execution e.                    *)
(***************************************************************************)
EXTENDS RunService, Naturals

CONSTANTS
    Backend,        \* executor of every stack: "local" or "kubernetes"
    MaxFaults,      \* bound on aborted ticks and executor errors
    NoExecution

ASSUME SystemAssumption ==
    /\ Backend \in {"local", "kubernetes"}
    /\ MaxFaults \in Nat
    /\ NoExecution \notin Execution

VARIABLES
    executions,     \* table executions
    jobs,           \* the runner process or Job of each execution
    worker,         \* the worker process
    faults          \* how many faults have happened

systemVars == <<executions, jobs, worker, faults>>
allVars == <<vars, systemVars>>

-----------------------------------------------------------------------------
\* exitSeen: finished_at is set although the status is still running.
\* late: PENDING_GRACE has passed since started_at, or GRACE since finished_at.
ExecutionRow == [status : {"none", "pending", "running", "finished", "failed"},
                 exitSeen : BOOLEAN, late : BOOLEAN]

\* exited: the process ended, the Job object remains; gone: nothing remains.
Job == {"none", "alive", "exited", "gone"}

\* step: the phase of the tick the worker is in; start, record and look are the
\* moments inside the phases at which it calls the executor.
\* todo: the rows the phase selected and has not treated yet.
\* seen: the state each run had when this tick's session loaded it.
WorkerState ==
    [step : {"idle", "schedule", "check", "apply", "start", "record",
             "recover", "look", "sweep", "poll"},
     todo : SUBSET (Run \cup Execution),
     current : Execution \cup {NoExecution},
     seen : [Run -> RunState \cup {"unloaded"}]]

NothingSeen == [r \in Run |-> "unloaded"]

Idle == [step |-> "idle", todo |-> {}, current |-> NoExecution, seen |-> NothingSeen]

SystemTypeOK ==
    /\ executions \in [Execution -> ExecutionRow]
    /\ jobs \in [Execution -> Job]
    /\ worker \in WorkerState
    /\ faults \in 0 .. MaxFaults

SystemInit ==
    /\ Init
    /\ executions = [e \in Execution |->
                        [status |-> "none", exitSeen |-> FALSE, late |-> FALSE]]
    /\ jobs = [e \in Execution |-> "none"]
    /\ worker = Idle
    /\ faults = 0

Active(e) == executions[e].status \in {"pending", "running"}

TokenPhase(e) == tokens[e].phase

ExpectedState(e) == RunningState(TokenPhase(e))

\* exitSeen and late start anew: they matter within one status only.
SetStatus(e, status) ==
    executions' = [executions EXCEPT ![e] = [status |-> status, exitSeen |-> FALSE,
                                             late |-> FALSE]]

\* The worker has treated x and goes on with the phase.
Treated(x) == worker' = [worker EXCEPT !.todo = @ \ {x}]

Fault == faults < MaxFaults /\ faults' = faults + 1

\* fail_run on a run loaded in its running state, without the comparison.
BugFailLoaded(r, phase) ==
    /\ runs' = [runs EXCEPT ![r].state = FailedState(phase)]
    /\ Revoke(r, phase)
    /\ UNCHANGED <<deliveries, calls, requests, offered>>

\* fail_run on a run loaded in the running state of `phase`: the UPDATE misses
\* if the run has moved since.
FailLoaded(r, phase) ==
    IF runs[r].state = RunningState(phase) THEN FailRun(r, phase) ELSE UNCHANGED vars

-----------------------------------------------------------------------------
(* Scheduling and dispatch.                                                *)

StartTick ==
    /\ worker.step = "idle"
    /\ worker' = [worker EXCEPT !.step = "schedule"]
    /\ UNCHANGED <<vars, executions, jobs, faults>>

\* A due stack whose commit cannot be resolved.  A due stack whose commit can
\* is CreateRun below, which CI and users share.
ScheduleFails(r) ==
    /\ worker.step = "schedule"
    /\ RecordScheduleFailure(r)
    /\ UNCHANGED systemVars

\* _dispatch selects the queued runs of a phase: check runs first.
SelectQueued(phase) ==
    /\ worker.todo = {}
    /\ worker.step = IF phase = "check" THEN "schedule" ELSE "check"
    /\ worker' = [worker EXCEPT !.step = phase,
                                !.todo = {r \in Run : runs[r].state = QueuedState(phase)}]
    /\ UNCHANGED <<vars, executions, jobs, faults>>

\* uq_executions_one_active_per_phase refuses another execution.
PhaseIsBusy(r, phase) ==
    \E e \in Execution : Active(e) /\ TokenRun(e) = r /\ TokenPhase(e) = phase

Claim(r, e) ==
    LET phase == worker.step IN
    /\ phase \in Phase
    /\ r \in worker.todo
    /\ ~ PhaseIsBusy(r, phase)
    /\ Dispatch(r, e, phase)
    /\ SetStatus(e, "pending")
    /\ worker' = [worker EXCEPT !.step = "start", !.todo = @ \ {r}, !.current = e,
                                !.seen[r] = RunningState(phase)]
    /\ UNCHANGED <<jobs, faults>>

\* The compare-and-swap missed, or the transaction failed: it is rolled back,
\* which expires everything the session holds.  The last disjunct is the bound
\* on executions.
ClaimFails(r) ==
    /\ worker.step \in Phase
    /\ r \in worker.todo
    /\ \/ runs[r].state # QueuedState(worker.step)
       \/ PhaseIsBusy(r, worker.step)
       \/ \A e \in Execution : tokens[e].status # "none"
    /\ worker' = [worker EXCEPT !.todo = @ \ {r}, !.seen = NothingSeen]
    /\ UNCHANGED <<vars, executions, jobs, faults>>

\* Back to the loop of a phase, with what the session now knows of the runs.
BackTo(step, seen) ==
    worker' = [worker EXCEPT !.step = step, !.current = NoExecution, !.seen = seen]

\* fail_run refreshes a run its UPDATE has hit.  Such a run is finished, and
\* seeing it finished is no different from loading it again later.
SeenAfterFail == IF runs' = runs THEN worker.seen
                 ELSE [worker.seen EXCEPT ![TokenRun(worker.current)] = "unloaded"]

Start ==
    /\ worker.step = "start"
    /\ jobs' = [jobs EXCEPT ![worker.current] = "alive"]
    /\ worker' = [worker EXCEPT !.step = "record"]
    /\ UNCHANGED <<vars, executions, faults>>

\* start() raised.  A Job it may have created is deleted; that may fail too.
StartFails ==
    LET e == worker.current IN
    /\ worker.step = "start"
    /\ \/ UNCHANGED jobs
       \/ Backend = "kubernetes" /\ jobs' = [jobs EXCEPT ![e] = "alive"]
    /\ FailLoaded(TokenRun(e), TokenPhase(e))
    /\ SetStatus(e, "failed")
    /\ BackTo(TokenPhase(e), SeenAfterFail)
    /\ UNCHANGED faults

RecordStart ==
    /\ worker.step = "record"
    /\ SetStatus(worker.current, "running")
    /\ BackTo(TokenPhase(worker.current), worker.seen)
    /\ UNCHANGED <<vars, jobs, faults>>

-----------------------------------------------------------------------------
(* Recovering executions whose start was never recorded.                   *)

SelectPending ==
    /\ worker.step = "apply" /\ worker.todo = {}
    /\ worker' = [worker EXCEPT
          !.step = "recover",
          !.todo = {e \in Execution : executions[e].status = "pending" /\ executions[e].late}]
    /\ UNCHANGED <<vars, executions, jobs, faults>>

\* The run has left the phase of the execution.
RecoverTooLate(e) ==
    /\ worker.step = "recover" /\ e \in worker.todo
    /\ runs[TokenRun(e)].state # ExpectedState(e)
    /\ SetStatus(e, "failed")
    /\ Treated(e)
    /\ UNCHANGED <<vars, jobs, faults>>

RecoverLoad(e) ==
    /\ worker.step = "recover" /\ e \in worker.todo
    /\ runs[TokenRun(e)].state = ExpectedState(e)
    /\ worker' = [worker EXCEPT !.step = "look", !.todo = @ \ {e}, !.current = e,
                                !.seen[TokenRun(e)] = ExpectedState(e)]
    /\ UNCHANGED <<vars, executions, jobs, faults>>

\* Only the Kubernetes executor can find an execution by its key.
Recoverable(e) == Backend = "kubernetes" /\ jobs[e] \in {"alive", "exited"}

RecoverFound ==
    /\ worker.step = "look"
    /\ Recoverable(worker.current)
    /\ SetStatus(worker.current, "running")
    /\ BackTo("recover", worker.seen)
    /\ UNCHANGED <<vars, jobs, faults>>

\* "The runner never started."
RecoverLost ==
    LET e == worker.current IN
    /\ worker.step = "look"
    /\ ~ Recoverable(e)
    /\ FailLoaded(TokenRun(e), TokenPhase(e))
    /\ SetStatus(e, "failed")
    /\ BackTo("recover", SeenAfterFail)
    /\ UNCHANGED <<jobs, faults>>

\* recover() raised: the session is rolled back and everything in it expires.
RecoverRaises ==
    /\ worker.step = "look" /\ Fault
    /\ BackTo("recover", NothingSeen)
    /\ UNCHANGED <<vars, executions, jobs>>

-----------------------------------------------------------------------------
(* Sweeping and polling.                                                   *)

\* _sweep_unstarted fails the runs that are running without an active
\* execution.
Sweep ==
    LET lost == {r \in Run : /\ runs[r].state \in {"check_running", "apply_running"}
                             /\ ~ \E e \in Execution : Active(e) /\ TokenRun(e) = r}
    IN
    /\ worker.step = "recover" /\ worker.todo = {}
    /\ runs' = [r \in Run |-> IF r \notin lost THEN runs[r]
                 ELSE [runs[r] EXCEPT !.state = IF @ = "check_running" THEN "check_failed"
                                                                     ELSE "apply_failed"]]
    /\ tokens' = [e \in Execution |-> IF TokenRun(e) \in lost /\ runs[TokenRun(e)].state = ExpectedState(e)
                                      THEN [tokens[e] EXCEPT !.status = "revoked"] ELSE tokens[e]]
    /\ worker' = [worker EXCEPT !.step = "sweep"]
    /\ UNCHANGED <<deliveries, calls, requests, offered, executions, jobs, faults>>

\* _poll selects the running executions with their runs.  A run this tick's
\* session has loaded before keeps the state it had then, unless the object was
\* garbage-collected.
SelectRunning ==
    LET polled == {e \in Execution : executions[e].status = "running"}
        owners == {TokenRun(e) : e \in polled}
    IN
    /\ worker.step = "sweep"
    /\ \E kept \in SUBSET {r \in owners : worker.seen[r] # "unloaded"} :
          worker' = [worker EXCEPT
              !.step = "poll", !.todo = polled,
              !.seen = [r \in Run |-> IF r \in kept THEN @[r]
                                      ELSE IF r \in owners THEN runs[r].state
                                      ELSE "unloaded"]]
    /\ UNCHANGED <<vars, executions, jobs, faults>>

Polls(e) == worker.step = "poll" /\ e \in worker.todo

\* The session believes the run of e is running, in whichever phase.
SeenRunning(e) == worker.seen[TokenRun(e)] \in {"check_running", "apply_running"}

\* The phase whose state the session saw.
SeenPhase(e) == IF worker.seen[TokenRun(e)] = "check_running" THEN "check" ELSE "apply"

\* The runner still runs, or its exit is less than GRACE old, or the Job is gone
\* and reading it raises.
PollSkips(e) ==
    /\ Polls(e)
    /\ \/ jobs[e] \in {"alive", "gone"}
       \/ jobs[e] = "exited" /\ SeenRunning(e) /\ executions[e].exitSeen /\ ~ executions[e].late
    /\ Treated(e)
    /\ UNCHANGED <<vars, executions, jobs, faults>>

\* finished_at is written by every poll, so that GRACE never passes.
BugPollNotesExit(e) ==
    /\ Polls(e)
    /\ jobs[e] = "exited" /\ SeenRunning(e)
    /\ executions' = [executions EXCEPT ![e].exitSeen = TRUE, ![e].late = FALSE]
    /\ Treated(e)
    /\ UNCHANGED <<vars, jobs, faults>>

PollNotesExit(e) ==
    /\ Polls(e)
    /\ jobs[e] = "exited" /\ SeenRunning(e) /\ ~ executions[e].exitSeen
    /\ executions' = [executions EXCEPT ![e].exitSeen = TRUE, ![e].late = FALSE]
    /\ Treated(e)
    /\ UNCHANGED <<vars, jobs, faults>>

\* The execution row is closed but its run is left running.
BugPollGivesUp(e) ==
    /\ Polls(e)
    /\ jobs[e] = "exited" /\ SeenRunning(e)
    /\ executions[e].exitSeen /\ executions[e].late
    /\ SetStatus(e, "finished")
    /\ jobs' = [jobs EXCEPT ![e] = "gone"]
    /\ Treated(e)
    /\ UNCHANGED <<vars, faults>>

\* The run is given up without waiting for GRACE.
BugPollImpatient(e) ==
    /\ Polls(e)
    /\ jobs[e] = "exited" /\ SeenRunning(e)
    /\ FailLoaded(TokenRun(e), SeenPhase(e))
    /\ SetStatus(e, "finished")
    /\ jobs' = [jobs EXCEPT ![e] = "gone"]
    /\ Treated(e)
    /\ UNCHANGED faults

\* "The runner exited without posting a result."  fail_run refreshes the run if
\* its UPDATE hit.  The row is closed in any case.
PollGivesUp(e) ==
    LET r == TokenRun(e) IN
    /\ Polls(e)
    /\ jobs[e] = "exited" /\ SeenRunning(e)
    /\ executions[e].exitSeen /\ executions[e].late
    /\ FailLoaded(r, SeenPhase(e))
    /\ SetStatus(e, "finished")
    /\ jobs' = [jobs EXCEPT ![e] = "gone"]
    /\ worker' = [worker EXCEPT !.todo = @ \ {e},
                                !.seen[r] = IF runs'[r] # runs[r] THEN runs'[r].state ELSE @]
    /\ UNCHANGED faults

\* The row gets a status of the poll's vocabulary.
BugPollStoresAnswer(e) ==
    /\ Polls(e)
    /\ jobs[e] = "exited" /\ ~ SeenRunning(e)
    /\ SetStatus(e, "succeeded")
    /\ Treated(e)
    /\ UNCHANGED <<vars, jobs, faults>>

\* The row of an execution whose run has moved on is not closed.
BugPollLeavesRow(e) ==
    /\ Polls(e)
    /\ jobs[e] = "exited" /\ ~ SeenRunning(e)
    /\ Treated(e)
    /\ UNCHANGED <<vars, executions, jobs, faults>>

PollFinishes(e) ==
    /\ Polls(e)
    /\ jobs[e] = "exited" /\ ~ SeenRunning(e)
    /\ SetStatus(e, "finished")
    /\ jobs' = [jobs EXCEPT ![e] = "gone"]
    /\ Treated(e)
    /\ UNCHANGED <<vars, faults>>

PollRaises(e) ==
    /\ Polls(e) /\ Fault
    /\ Treated(e)
    /\ UNCHANGED <<vars, executions, jobs>>

EndTick ==
    /\ worker.step = "poll" /\ worker.todo = {}
    /\ worker' = Idle
    /\ UNCHANGED <<vars, executions, jobs, faults>>

\* An exception leaves reconcile(), or the worker process dies and restarts.
AbortTick ==
    /\ worker.step # "idle" /\ Fault
    /\ worker' = Idle
    /\ UNCHANGED <<vars, executions, jobs>>

-----------------------------------------------------------------------------
(* Runners, clocks, users.                                                 *)

\* The runner ends, after its last call or at any moment before it.
RunnerExits(e) ==
    /\ jobs[e] = "alive"
    /\ jobs' = [jobs EXCEPT ![e] = "exited"]
    /\ UNCHANGED <<vars, executions, worker, faults>>

\* ttl_seconds_after_finished: Kubernetes deletes a finished Job.
JobExpires(e) ==
    /\ Backend = "kubernetes" /\ jobs[e] = "exited"
    /\ jobs' = [jobs EXCEPT ![e] = "gone"]
    /\ UNCHANGED <<vars, executions, worker, faults>>

GracePasses(e) ==
    /\ ~ executions[e].late
    /\ \/ executions[e].status = "pending"
       \/ executions[e].status = "running" /\ executions[e].exitSeen
    /\ executions' = [executions EXCEPT ![e].late = TRUE]
    /\ UNCHANGED <<vars, jobs, worker, faults>>

\* A request can only be sent by a living runner; a handler that has loaded
\* finishes without it.
RunnerCalls(e) ==
    /\ jobs[e] = "alive"
    /\ RefuseCall(e) \/ LoadCheck(e) \/ LoadPrecheck(e) \/ LoadResult(e)
    /\ UNCHANGED systemVars

HandlerCommits(e) ==
    /\ \/ RefuseCommit(e)
       \/ \E up \in Upload : \/ CommitCheck(e, up)
                             \/ PrecheckFailed(e, up) \/ PrecheckMoved(e, up)
                             \/ PrecheckAgreed(e, up) \/ CommitResult(e, up)
    /\ UNCHANGED systemVars

TokenExpires(e) == ExpireToken(e) /\ UNCHANGED systemVars

UserActs ==
    /\ \/ \E r \in Run : CreateRun(r)
       \/ \E u \in User, r \in Run : LoadApprove(u, r) \/ LoadReject(u, r)
       \/ \E u \in User : CommitApprove(u) \/ CommitReject(u) \/ RequestMissed(u)
    /\ UNCHANGED systemVars

-----------------------------------------------------------------------------
\* The steps of reconcile() that no fault disturbs.
WorkerStep ==
    \/ StartTick \/ SelectPending \/ Sweep \/ SelectRunning \/ EndTick
    \/ \E phase \in Phase : SelectQueued(phase)
    \/ \E r \in Run : ClaimFails(r) \/ \E e \in Execution : Claim(r, e)
    \/ Start \/ RecordStart
    \/ RecoverFound \/ RecoverLost
    \/ \E e \in Execution : \/ RecoverTooLate(e) \/ RecoverLoad(e)
                            \/ PollSkips(e) \/ PollNotesExit(e)
                            \/ PollGivesUp(e) \/ PollFinishes(e)

SystemNext ==
    \/ WorkerStep
    \/ StartFails \/ RecoverRaises \/ AbortTick
    \/ \E r \in Run : ScheduleFails(r)
    \/ \E e \in Execution : \/ PollRaises(e)
                            \/ RunnerExits(e) \/ JobExpires(e) \/ GracePasses(e)
                            \/ RunnerCalls(e) \/ HandlerCommits(e) \/ TokenExpires(e)
    \/ UserActs

System == SystemInit /\ [][SystemNext]_allVars

\* The worker's loop never ends, clocks run, and a runner ends some day.
Fairness ==
    /\ WF_allVars(WorkerStep)
    /\ \A e \in Execution : WF_allVars(RunnerExits(e)) /\ WF_allVars(GracePasses(e))

FairSystem == System /\ Fairness

-----------------------------------------------------------------------------
(* Properties.                                                             *)

\* An execution row is active as long as the token of its dispatch stands: the
\* worker never closes the row of a run it leaves running, so the sweep of
\* unstarted runs is a safety net that has nothing to catch.
TokenHolderIsActive ==
    \A e \in Execution : Unrevoked(e) => Active(e)

\* The worker gives up a check only once its runner has exited or was never
\* found, whatever it read earlier in the tick.
CheckIsGivenUpLate ==
    [][\A e \in Execution :
          /\ worker.step = "poll" /\ worker'.todo # worker.todo
          /\ Unrevoked(e) /\ TokenPhase(e) = "check" /\ tokens'[e].status = "revoked"
          => jobs[e] = "exited" /\ executions[e].late]_allVars

\* Stated by the message of worker.py:321 to whoever opens the run: a run that
\* polling fails has a runner that exited.
SilentRunnerHasExited ==
    [][\A e \in Execution :
          /\ worker.step = "poll" /\ worker'.todo # worker.todo
          /\ Unrevoked(e) /\ tokens'[e].status = "revoked"
          => jobs[e] # "alive"]_allVars

\* A running phase ends, by a result or by the worker's verdict, unless the Job
\* was deleted before the worker saw it finished.
RunningEnds ==
    \A r \in Run, phase \in Phase :
        runs[r].state = RunningState(phase) ~>
            \/ runs[r].state # RunningState(phase)
            \/ \E e \in Execution : /\ TokenRun(e) = r /\ TokenPhase(e) = phase
                                    /\ Active(e) /\ jobs[e] = "gone"

\* An approved run is taken up although the execution of its last apply may
\* still occupy the phase, unless that one's Job is gone (or the bound on
\* executions is reached).
ApprovedIsDispatched ==
    \A r \in Run :
        runs[r].state = "apply_queued" ~>
            \/ runs[r].state # "apply_queued"
            \/ \A e \in Execution : tokens[e].status # "none"
            \/ \E e \in Execution : Active(e) /\ TokenRun(e) = r /\ jobs[e] = "gone"
============================================================================
