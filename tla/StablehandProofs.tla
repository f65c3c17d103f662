-------------------------- MODULE StablehandProofs --------------------------
(* Proofs about Stablehand: whatever the worker reads and when, and however  *)
(* its ticks fail, it drives the runs only by the steps of RunService, and   *)
(* it never closes the execution of a run it leaves running.                 *)
EXTENDS Stablehand, RunServiceProofs

USE ConstantsAssumption, SystemAssumption

-----------------------------------------------------------------------------
(* The inductive invariant.                                                *)

Issued(e) == tokens[e].status # "none"

\* The worker works on executions that were dispatched.
WorkInv ==
    /\ worker.step \in {"start", "record", "look"} =>
          worker.current \in Execution /\ Issued(worker.current)
    /\ worker.step \in {"recover", "look", "poll"} =>
          \A e \in worker.todo : e \in Execution /\ Issued(e)

\* A token and its execution row are made together, and the row stays active
\* until the token is revoked.
HolderInv ==
    /\ TokenHolderIsActive
    /\ \A e \in Execution : executions[e].status = "none" <=> ~ Issued(e)

\* The states of a run that has not been checked yet.
Unchecked == {"absent", "check_queued", "check_running"}

\* A run whose apply was dispatched does not go back to be checked.
CheckedInv ==
    \A e \in Execution :
        Issued(e) /\ TokenPhase(e) = "apply" => runs[TokenRun(e)].state \notin Unchecked

\* What the session's copies of the runs, old as they may be, still tell: a run
\* seen checking has no apply execution, a run seen applying was checked, and
\* the run of a token that stands was seen running when its execution was
\* selected for polling.
SeenInv ==
    /\ \A r \in Run, e \in Execution :
          worker.seen[r] = "check_running" /\ Issued(e) /\ TokenRun(e) = r
             => TokenPhase(e) = "check"
    /\ \A r \in Run :
          worker.seen[r] = "apply_running" => runs[r].state \notin Unchecked
    /\ worker.step # "poll" =>
          \A r \in Run : worker.seen[r] \in {"unloaded", "check_running", "apply_running"}
    /\ worker.step = "poll" =>
          \A e \in Execution :
             e \in worker.todo /\ Unrevoked(e)
                => worker.seen[TokenRun(e)] \in {"check_running", "apply_running"}

SystemInv ==
    /\ TypeInv /\ KeyInv
    /\ SystemTypeOK /\ WorkInv /\ HolderInv /\ CheckedInv /\ SeenInv

-----------------------------------------------------------------------------
(* How steps of the service move keys and runs.                            *)

\* No token is issued, and none that was revoked stands again.
KeysFall ==
    \A e \in Execution :
        /\ TokenRun(e)' = TokenRun(e) /\ TokenPhase(e)' = TokenPhase(e)
        /\ Issued(e)' <=> Issued(e)
        /\ Unrevoked(e)' => Unrevoked(e)

LEMMA RevokedKeysFall ==
    ASSUME TypeInv, NEW r \in Run, NEW phase, Revoke(r, phase)
    PROVE  KeysFall
<1>1. \A e \in Execution : ~ Issued(e) => tokens[e].run # r
  BY DEF TypeInv, Linked, Issued
<1> QED BY <1>1, RevokeEffect DEF KeysFall, Issued, Unrevoked, TokenRun, TokenPhase, TypeInv

LEMMA SameKeysFall == ASSUME UNCHANGED tokens PROVE KeysFall
BY DEF KeysFall, Issued, Unrevoked, TokenRun, TokenPhase

LEMMA StateSet ==
    ASSUME TypeInv, NEW r \in Run, NEW from, NEW to, NEW values \in RunRow,
           Transition(r, from, to, values)
    PROVE  runs[r].state = from /\ runs'[r].state = to
BY DEF Transition, TypeInv, TypeOK, RunRow

LEMMA FailEffect ==
    ASSUME TypeInv, NEW r \in Run, NEW phase \in Phase, FailLoaded(r, phase)
    PROVE  /\ [Next]_vars /\ KeysFall
           /\ runs' = runs \/ runs'[r].state = FailedState(phase)
           /\ \A e \in Execution :
                 TokenRun(e) = r /\ TokenPhase(e) = phase =>
                    \/ Unrevoked(e)' = FALSE
                    \/ runs[r].state # RunningState(phase)
<1>1. CASE runs[r].state = RunningState(phase)
  <2>1. FailRun(r, phase)
    BY <1>1 DEF FailLoaded
  <2>2. Revoke(r, phase)
    BY <2>1 DEF FailRun
  <2>3. KeysFall
    BY <2>2, RevokedKeysFall
  <2>4. runs'[r].state = FailedState(phase)
    <3>1. runs[r] \in RunRow /\ Transition(r, RunningState(phase), FailedState(phase), runs[r])
      BY <2>1, Linkage DEF FailRun
    <3> QED BY <3>1, StateSet
  <2>5. \A e \in Execution :
           TokenRun(e) = r /\ TokenPhase(e) = phase => Unrevoked(e)' = FALSE
    BY <2>2, RevokeEffect DEF TypeInv, Unrevoked, TokenRun, TokenPhase
  <2> QED BY <2>1, <2>3, <2>4, <2>5 DEF Next
<1>2. CASE runs[r].state # RunningState(phase)
  <2>1. UNCHANGED vars
    BY <1>2 DEF FailLoaded
  <2>2. KeysFall
    BY <2>1, SameKeysFall DEF vars
  <2> QED BY <1>2, <2>1, <2>2 DEF vars
<1> QED BY <1>1, <1>2

LEMMA DispatchEffect ==
    ASSUME TypeInv, NEW r \in Run, NEW e \in Execution, NEW phase \in Phase,
           Dispatch(r, e, phase)
    PROVE  /\ ~ Issued(e)
           /\ Issued(e)' /\ TokenRun(e)' = r /\ TokenPhase(e)' = phase
           /\ \A d \in Execution : d # e => tokens'[d] = tokens[d]
           /\ runs[r].state = QueuedState(phase) /\ runs'[r].state = RunningState(phase)
<1>1. tokens' = [tokens EXCEPT ![e] = [run |-> r, phase |-> phase, status |-> "live"]]
  BY DEF Dispatch
<1>2. tokens[e].status = "none"
  BY DEF Dispatch
<1>3. runs[r].state = QueuedState(phase) /\ runs'[r].state = RunningState(phase)
  <2>1. /\ runs[r] \in RunRow
        /\ Transition(r, QueuedState(phase), RunningState(phase), runs[r])
    BY Linkage DEF Dispatch
  <2> QED BY <2>1, StateSet
<1> QED BY <1>1, <1>2, <1>3 DEF Issued, TokenRun, TokenPhase, TypeInv, TypeOK

\* A run that was checked stays checked.
LEMMA CheckedStays ==
    ASSUME TypeInv, [Next]_vars, NEW r \in Run, runs[r].state \notin Unchecked
    PROVE  runs'[r].state \notin Unchecked
BY OneRunMoves DEF Moves, AllowedTransitions, CanInsert, Unchecked

LEMMA RunOfIssued == TypeInv => \A e \in Execution : Issued(e) => TokenRun(e) \in Run
BY DEF TypeInv, Linked, Issued, TokenRun

\* The parts of the invariant that mention no worker.
LEMMA CheckedStep ==
    ASSUME TypeInv, CheckedInv, [Next]_vars, KeysFall
    PROVE  CheckedInv'
BY CheckedStays, RunOfIssued DEF CheckedInv, KeysFall

\* What the sessions saw stays true while the worker waits.
LEMMA SeenStep ==
    ASSUME TypeInv, SeenInv, [Next]_vars, KeysFall,
           worker'.step = worker.step, worker'.todo \subseteq worker.todo,
           worker'.seen = worker.seen
    PROVE  SeenInv'
BY CheckedStays DEF SeenInv, KeysFall

\* A service step in which neither the worker nor a backend takes part.
ServiceStep ==
    /\ [Next]_vars /\ KeysFall
    /\ UNCHANGED <<worker, executions>>

LEMMA ServiceStepKeeps ==
    ASSUME SystemInv, ServiceStep
    PROVE  WorkInv' /\ HolderInv' /\ CheckedInv' /\ SeenInv'
<1> USE DEF SystemInv, ServiceStep
<1>1. CheckedInv'
  BY CheckedStep
<1>2. SeenInv'
  BY SeenStep
<1>3. WorkInv'
  BY DEF WorkInv, KeysFall
<1>4. HolderInv'
  BY DEF HolderInv, KeysFall, TokenHolderIsActive, Active
<1> QED BY <1>1, <1>2, <1>3, <1>4

\* The steps of runners, users and handlers are service steps.
LEMMA UserServiceStep ==
    ASSUME TypeInv, UserActs \/ \E r \in Run : ScheduleFails(r)
    PROVE  ServiceStep
<1>1. UNCHANGED systemVars /\ UNCHANGED tokens
  BY DEF UserActs, ScheduleFails, RecordScheduleFailure, CreateRun, LoadApprove, LoadReject,
         CommitApprove, CommitReject, RequestMissed
<1>2. Next
  BY DEF UserActs, ScheduleFails, Next
<1> QED BY <1>1, <1>2, SameKeysFall DEF ServiceStep, systemVars

LEMMA RunnerServiceStep ==
    ASSUME TypeInv, NEW e \in Execution,
           RunnerCalls(e) \/ HandlerCommits(e) \/ TokenExpires(e)
    PROVE  ServiceStep
<1>1. UNCHANGED systemVars
  BY DEF RunnerCalls, HandlerCommits, TokenExpires
<1>2. Next
  BY DEF RunnerCalls, HandlerCommits, TokenExpires, Next
<1>3. CASE RunnerCalls(e)
  <2>1. UNCHANGED tokens
    BY <1>3 DEF RunnerCalls, RefuseCall, LoadCheck, LoadPrecheck, LoadResult
  <2> QED BY <1>1, <1>2, <2>1, SameKeysFall DEF ServiceStep, systemVars
<1>4. CASE HandlerCommits(e)
  <2>1. UNCHANGED tokens \/ \E phase : calls[e].stage # "none" /\ Revoke(TokenRun(e), phase)
    BY <1>4 DEF HandlerCommits, RefuseCommit, CommitCheck, PrecheckFailed, PrecheckMoved,
                PrecheckAgreed, CommitResult
  <2>2. calls[e].stage # "none" => TokenRun(e) \in Run
    BY Linkage
  <2> QED BY <1>1, <1>2, <2>1, <2>2, SameKeysFall, RevokedKeysFall DEF ServiceStep, systemVars
<1>5. CASE TokenExpires(e)
  <2>1. KeysFall
    BY <1>5 DEF TokenExpires, ExpireToken, KeysFall, Issued, Unrevoked, TokenRun, TokenPhase,
                TypeInv, TypeOK, TokenRow
  <2> QED BY <1>1, <1>2, <2>1 DEF ServiceStep, systemVars
<1> QED BY <1>3, <1>4, <1>5

-----------------------------------------------------------------------------
(* The steps of the worker.                                                *)

\* The fields of the worker that a step sets.
LEMMA WorkerType ==
    ASSUME SystemTypeOK
    PROVE  /\ worker.todo \subseteq Run \cup Execution
           /\ worker.current \in Execution \cup {NoExecution}
           /\ worker.seen \in [Run -> RunState \cup {"unloaded"}]
           /\ worker = [step |-> worker.step, todo |-> worker.todo,
                        current |-> worker.current, seen |-> worker.seen]
BY DEF SystemTypeOK, WorkerState

LEMMA StatusEffect ==
    ASSUME SystemTypeOK, NEW e, NEW status \in {"pending", "running", "finished", "failed"},
           SetStatus(e, status)
    PROVE  /\ executions' \in [Execution -> ExecutionRow]
           /\ \A d \in Execution : executions'[d].status = IF d = e THEN status
                                                           ELSE executions[d].status
BY DEF SystemTypeOK, SetStatus, ExecutionRow

\* Steps that only read the tables and move the worker.
ReadStep ==
    \/ StartTick \/ SelectPending \/ SelectRunning \/ EndTick \/ AbortTick \/ RecoverRaises
    \/ \E phase \in Phase : SelectQueued(phase)
    \/ \E r \in Run : ClaimFails(r)
    \/ Start
    \/ \E e \in Execution : RecoverLoad(e) \/ PollSkips(e) \/ PollRaises(e)

LEMMA SelectRunningSees ==
    ASSUME SystemInv, SelectRunning
    PROVE  SeenInv'
<1> DEFINE polled == {e \in Execution : executions[e].status = "running"}
           owners == {TokenRun(e) : e \in polled}
<1>1. PICK kept \in SUBSET {r \in owners : worker.seen[r] # "unloaded"} :
          worker' = [worker EXCEPT
              !.step = "poll", !.todo = polled,
              !.seen = [r \in Run |-> IF r \in kept THEN @[r]
                                      ELSE IF r \in owners THEN runs[r].state
                                      ELSE "unloaded"]]
  BY DEF SelectRunning
<1>2. /\ worker'.step = "poll" /\ worker'.todo = polled
      /\ \A r \in Run : worker'.seen[r] = IF r \in kept THEN worker.seen[r]
                                          ELSE IF r \in owners THEN runs[r].state
                                          ELSE "unloaded"
  BY <1>1, WorkerType DEF SystemInv
<1>3. UNCHANGED vars /\ worker.step = "sweep"
  BY DEF SelectRunning
<1>4. \A r \in Run : r \in kept => worker.seen[r] \in {"check_running", "apply_running"}
  BY <1>3 DEF SystemInv, SeenInv
<1>5. \A r \in Run : runs[r].state = "check_running" =>
         \A e \in Execution : Issued(e) /\ TokenRun(e) = r => TokenPhase(e) = "check"
  BY Linkage DEF SystemInv, CheckedInv, Unchecked, TokenPhase, Phase
<1>6. \A e \in Execution : Unrevoked(e) =>
         /\ TokenRun(e) \in Run
         /\ runs[TokenRun(e)].state \in {"check_running", "apply_running"}
  BY Linkage DEF SystemInv, KeyInv, RunningState
<1>7. \A e \in Execution : e \in polled => TokenRun(e) \in owners
  OBVIOUS
<1>8. \A e \in Execution :
         /\ (Issued(e)' <=> Issued(e)) /\ TokenRun(e)' = TokenRun(e)
         /\ TokenPhase(e)' = TokenPhase(e) /\ (Unrevoked(e)' <=> Unrevoked(e))
  BY <1>3 DEF vars, Issued, TokenRun, TokenPhase, Unrevoked
<1>9. runs' = runs
  BY <1>3 DEF vars
<1> HIDE DEF polled, owners
<1>10. \A r \in Run, e \in Execution :
          worker'.seen[r] = "check_running" /\ Issued(e) /\ TokenRun(e) = r
             => TokenPhase(e) = "check"
  BY <1>2, <1>5 DEF SystemInv, SeenInv
<1>11. \A r \in Run : worker'.seen[r] = "apply_running" => runs[r].state \notin Unchecked
  BY <1>2 DEF SystemInv, SeenInv, Unchecked
<1>12. \A e \in Execution : e \in polled /\ Unrevoked(e)
          => worker'.seen[TokenRun(e)] \in {"check_running", "apply_running"}
  BY <1>2, <1>4, <1>6, <1>7
<1> QED BY <1>2, <1>8, <1>9, <1>10, <1>11, <1>12 DEF SeenInv

\* PollGivesUp, RecoverLost and StartFails: the execution is closed, and its
\* token falls with it.
LEMMA ClosedKeyFalls ==
    ASSUME SystemInv, NEW e \in Execution, Issued(e), NEW phase \in Phase,
           FailLoaded(TokenRun(e), phase), phase = TokenPhase(e) \/ ~ Unrevoked(e)
    PROVE  /\ [Next]_vars /\ KeysFall /\ ~ Unrevoked(e)'
<1>1. TokenRun(e) \in Run
  BY RunOfIssued DEF SystemInv
<1>2. /\ [Next]_vars /\ KeysFall
      /\ TokenPhase(e) = phase =>
            Unrevoked(e)' = FALSE \/ runs[TokenRun(e)].state # RunningState(phase)
  BY <1>1, FailEffect DEF SystemInv
<1>3. Unrevoked(e) => runs[TokenRun(e)].state = RunningState(TokenPhase(e))
  BY DEF SystemInv, KeyInv, TokenPhase
<1> QED BY <1>2, <1>3 DEF KeysFall

\* A row may change its status as long as it stays active or its token falls.
LEMMA StatusKeeps ==
    ASSUME SystemInv, NEW e \in Execution, Issued(e),
           NEW status \in {"running", "finished", "failed"}, SetStatus(e, status),
           KeysFall, status = "running" \/ ~ Unrevoked(e)'
    PROVE  HolderInv'
<1>1. \A d \in Execution : executions'[d].status = IF d = e THEN status ELSE executions[d].status
  BY StatusEffect DEF SystemInv
<1> QED BY <1>1 DEF SystemInv, HolderInv, TokenHolderIsActive, Active, KeysFall

\* A run that is checked off the list.
LEMMA TreatedEffect ==
    ASSUME SystemTypeOK, NEW x, Treated(x)
    PROVE  /\ worker'.step = worker.step /\ worker'.todo = worker.todo \ {x}
           /\ worker'.seen = worker.seen /\ worker'.current = worker.current
BY WorkerType DEF Treated

LEMMA NoRunIsLost ==
    ASSUME SystemInv
    PROVE  \A r \in Run : runs[r].state \in {"check_running", "apply_running"} =>
              \E e \in Execution : Active(e) /\ TokenRun(e) = r
<1>1. \A r \in Run, phase \in Phase : runs[r].state = RunningState(phase) =>
         \E e \in Execution : Unrevoked(e) /\ TokenRun(e) = r
  BY DEF SystemInv, KeyInv
<1>2. RunningState("check") = "check_running" /\ RunningState("apply") = "apply_running"
  BY DEF RunningState
<1> QED BY <1>1, <1>2 DEF Phase, SystemInv, HolderInv, TokenHolderIsActive

\* The sweep finds nothing to do.
LEMMA SweepChangesNothing ==
    ASSUME SystemInv, Sweep
    PROVE  UNCHANGED vars
<1> DEFINE lost == {r \in Run : /\ runs[r].state \in {"check_running", "apply_running"}
                                /\ ~ \E e \in Execution : Active(e) /\ TokenRun(e) = r}
<1>1. lost = {}
  BY NoRunIsLost
<1>2. runs \in [Run -> RunRow] /\ tokens \in [Execution -> TokenRow]
  BY DEF SystemInv, TypeInv, TypeOK
<1>3. runs' = [r \in Run |-> IF r \notin lost THEN runs[r]
                 ELSE [runs[r] EXCEPT !.state = IF @ = "check_running" THEN "check_failed"
                                                                     ELSE "apply_failed"]]
  BY DEF Sweep
<1>4. tokens' = [e \in Execution |-> IF TokenRun(e) \in lost /\ runs[TokenRun(e)].state = ExpectedState(e)
                                     THEN [tokens[e] EXCEPT !.status = "revoked"] ELSE tokens[e]]
  BY DEF Sweep
<1>5. UNCHANGED <<deliveries, calls, requests, offered>>
  BY DEF Sweep
<1> HIDE DEF lost
<1>6. runs' = [r \in Run |-> runs[r]] /\ tokens' = [e \in Execution |-> tokens[e]]
  BY <1>1, <1>3, <1>4
<1> QED BY <1>2, <1>5, <1>6 DEF vars

-----------------------------------------------------------------------------
(* Every step of the system is a step of the service, and keeps the         *)
(* invariant.                                                               *)

\* What has to be shown of a step; TypeInv and KeyInv follow from [Next]_vars.
Kept ==
    /\ [Next]_vars
    /\ SystemTypeOK' /\ WorkInv' /\ HolderInv' /\ CheckedInv' /\ SeenInv'

\* Steps of the worker that leave the service alone and close no row.
LEMMA QuietStep ==
    ASSUME SystemInv, UNCHANGED vars,
           \A e \in Execution : executions'[e].status = executions[e].status
    PROVE  [Next]_vars /\ HolderInv' /\ CheckedInv' /\ KeysFall
<1>1. KeysFall
  BY SameKeysFall DEF vars
<1>2. CheckedInv'
  BY <1>1, CheckedStep DEF SystemInv
<1>3. HolderInv'
  BY <1>1 DEF SystemInv, HolderInv, TokenHolderIsActive, Active, KeysFall
<1> QED BY <1>1, <1>2, <1>3

LEMMA ServiceStepsAreKept ==
    ASSUME SystemInv,
           \/ UserActs
           \/ \E r \in Run : ScheduleFails(r)
           \/ \E e \in Execution : RunnerCalls(e) \/ HandlerCommits(e) \/ TokenExpires(e)
    PROVE  Kept
<1>1. ServiceStep
  BY UserServiceStep, RunnerServiceStep DEF SystemInv
<1>2. UNCHANGED systemVars
  BY DEF UserActs, ScheduleFails, RunnerCalls, HandlerCommits, TokenExpires
<1>3. SystemTypeOK'
  BY <1>2 DEF SystemInv, SystemTypeOK, systemVars
<1> QED BY <1>1, <1>3, ServiceStepKeeps DEF Kept, ServiceStep

\* The environment of the worker: runners end, Jobs expire, time passes.
LEMMA BackendStepsAreKept ==
    ASSUME SystemInv, NEW e \in Execution,
           RunnerExits(e) \/ JobExpires(e) \/ GracePasses(e)
    PROVE  Kept
<1>1. UNCHANGED <<vars, worker, faults>>
  BY DEF RunnerExits, JobExpires, GracePasses
<1>2. \A d \in Execution : executions'[d].status = executions[d].status
  BY DEF RunnerExits, JobExpires, GracePasses, SystemInv, SystemTypeOK, ExecutionRow
<1>3. executions' \in [Execution -> ExecutionRow] /\ jobs' \in [Execution -> Job]
  <2>1. executions \in [Execution -> ExecutionRow] /\ jobs \in [Execution -> Job]
    BY DEF SystemInv, SystemTypeOK
  <2>2. CASE RunnerExits(e) \/ JobExpires(e)
    BY <2>1, <2>2 DEF RunnerExits, JobExpires, Job
  <2>3. CASE GracePasses(e)
    BY <2>1, <2>3 DEF GracePasses, ExecutionRow
  <2> QED BY <2>2, <2>3
<1>4. [Next]_vars /\ HolderInv' /\ CheckedInv' /\ KeysFall
  BY <1>1, <1>2, QuietStep
<1>5. SystemTypeOK'
  BY <1>1, <1>3 DEF SystemInv, SystemTypeOK
<1>6. WorkInv'
  BY <1>1, <1>4 DEF SystemInv, WorkInv, KeysFall
<1>7. SeenInv'
  BY <1>1, <1>4, SeenStep DEF SystemInv
<1> QED BY <1>4, <1>5, <1>6, <1>7 DEF Kept

\* The worker's own fields: typed, and pointing at executions.
LEMMA ReadStepType ==
    ASSUME SystemInv, ReadStep
    PROVE  SystemTypeOK'
<1> USE DEF SystemInv
<1>1. executions' = executions /\ faults' \in 0 .. MaxFaults /\ jobs' \in [Execution -> Job]
  <2>1. executions' = executions
    BY DEF ReadStep, StartTick, SelectPending, SelectRunning, EndTick, AbortTick, RecoverRaises,
           SelectQueued, ClaimFails, Start, RecoverLoad, PollSkips, PollRaises
  <2>2. faults' = faults \/ Fault
    BY DEF ReadStep, StartTick, SelectPending, SelectRunning, EndTick, AbortTick, RecoverRaises,
           SelectQueued, ClaimFails, Start, RecoverLoad, PollSkips, PollRaises
  <2>3. faults' \in 0 .. MaxFaults
    BY <2>2 DEF Fault, SystemTypeOK
  <2>4. jobs' = jobs \/ \E e : jobs' = [jobs EXCEPT ![e] = "alive"]
    BY DEF ReadStep, StartTick, SelectPending, SelectRunning, EndTick, AbortTick, RecoverRaises,
           SelectQueued, ClaimFails, Start, RecoverLoad, PollSkips, PollRaises
  <2>5. jobs' \in [Execution -> Job]
    BY <2>4 DEF SystemTypeOK, Job
  <2> QED BY <2>1, <2>3, <2>5
<1>2. Idle \in WorkerState /\ NothingSeen \in [Run -> RunState \cup {"unloaded"}]
  BY DEF Idle, NothingSeen, WorkerState
<1>3. ASSUME NEW step \in {"idle", "schedule", "check", "apply", "start", "record",
                           "recover", "look", "sweep", "poll"},
             NEW todo \in SUBSET (Run \cup Execution),
             NEW current \in Execution \cup {NoExecution},
             NEW seen \in [Run -> RunState \cup {"unloaded"}]
      PROVE  [step |-> step, todo |-> todo, current |-> current, seen |-> seen] \in WorkerState
  BY DEF WorkerState
<1>4. worker' \in WorkerState
  <2>1. CASE StartTick \/ Start
    BY <2>1 DEF StartTick, Start, SystemTypeOK, WorkerState
  <2>2. CASE EndTick \/ AbortTick
    BY <2>2, <1>2 DEF EndTick, AbortTick
  <2>3. CASE SelectPending
    BY <2>3 DEF SelectPending, SystemTypeOK, WorkerState
  <2>4. CASE RecoverRaises
    BY <2>4, <1>2 DEF RecoverRaises, BackTo, SystemTypeOK, WorkerState
  <2>5. ASSUME NEW phase \in Phase, SelectQueued(phase) PROVE worker' \in WorkerState
    BY <2>5 DEF SelectQueued, SystemTypeOK, WorkerState, Phase
  <2>6. ASSUME NEW r \in Run, ClaimFails(r) PROVE worker' \in WorkerState
    BY <2>6, <1>2 DEF ClaimFails, SystemTypeOK, WorkerState
  <2>7. ASSUME NEW e \in Execution, RecoverLoad(e) \/ PollSkips(e) \/ PollRaises(e)
        PROVE worker' \in WorkerState
    <3>1. CASE RecoverLoad(e)
      <4>1. ExpectedState(e) \in RunState \cup {"unloaded"}
        BY DEF ExpectedState, RunningState, RunState, ActiveState
      <4> QED BY <2>7, <3>1, <4>1 DEF RecoverLoad, SystemTypeOK, WorkerState
    <3>2. CASE Treated(e)
      BY <3>2 DEF Treated, SystemTypeOK, WorkerState
    <3> QED BY <2>7, <3>1, <3>2 DEF PollSkips, PollRaises
  <2>8. CASE SelectRunning
    <3> DEFINE polled == {e \in Execution : executions[e].status = "running"}
               owners == {TokenRun(e) : e \in polled}
    <3>1. PICK kept \in SUBSET {r \in owners : worker.seen[r] # "unloaded"} :
              worker' = [worker EXCEPT
                  !.step = "poll", !.todo = polled,
                  !.seen = [r \in Run |-> IF r \in kept THEN @[r]
                                          ELSE IF r \in owners THEN runs[r].state
                                          ELSE "unloaded"]]
      BY <2>8 DEF SelectRunning
    <3> DEFINE seen == [r \in Run |-> IF r \in kept THEN worker.seen[r]
                                      ELSE IF r \in owners THEN runs[r].state
                                      ELSE "unloaded"]
    <3>2. worker' = [step |-> "poll", todo |-> polled, current |-> worker.current, seen |-> seen]
      BY <3>1, WorkerType
    <3>3. \A r \in Run : runs[r].state \in RunState
      BY Linkage DEF RunRow
    <3>4. seen \in [Run -> RunState \cup {"unloaded"}]
      BY <3>3, WorkerType
    <3>5. polled \in SUBSET (Run \cup Execution)
      OBVIOUS
    <3> HIDE DEF seen, polled
    <3> QED BY <3>2, <3>4, <3>5, <1>3, WorkerType
  <2> QED BY <2>1, <2>2, <2>3, <2>4, <2>5, <2>6, <2>7, <2>8 DEF ReadStep
<1> QED BY <1>1, <1>4 DEF SystemTypeOK

\* SeenInv after a step that changes no row, if the worker is outside of the
\* poll and saw nothing new.
LEMMA SeenOutsidePoll ==
    ASSUME SystemInv, [Next]_vars, KeysFall, worker'.step # "poll",
           \/ worker'.seen = worker.seen /\ worker.step # "poll"
           \/ worker'.seen = NothingSeen
           \/ /\ worker.step # "poll"
              /\ \A r \in Run : worker'.seen[r] \in {worker.seen[r], "unloaded"}
    PROVE  SeenInv'
<1>1. \A r \in Run : NothingSeen[r] = "unloaded"
  BY DEF NothingSeen
<1> QED BY <1>1, CheckedStays DEF SystemInv, SeenInv, KeysFall

\* What recovery loads is true when it is loaded.
LEMMA LoadedIsTrue ==
    ASSUME SystemInv, UNCHANGED vars, NEW e \in Execution, Issued(e),
           runs[TokenRun(e)].state = ExpectedState(e),
           worker'.seen = [worker.seen EXCEPT ![TokenRun(e)] = ExpectedState(e)],
           worker.step = "recover", worker'.step = "look"
    PROVE  SeenInv'
<1> DEFINE owner == TokenRun(e)
<1>1. /\ owner \in Run /\ TokenPhase(e) \in Phase
      /\ worker.seen \in [Run -> RunState \cup {"unloaded"}]
  BY RunOfIssued, Linkage, WorkerType DEF SystemInv, TokenPhase
<1>2. ExpectedState(e) \in {"check_running", "apply_running"}
  BY DEF ExpectedState, RunningState
<1>3. \A r \in Run : worker'.seen[r] = IF r = owner THEN ExpectedState(e) ELSE worker.seen[r]
  BY <1>1
<1>4. ASSUME NEW d \in Execution, Issued(d), TokenRun(d) = owner,
             ExpectedState(e) = "check_running"
      PROVE  TokenPhase(d) = "check"
  <2>1. TokenPhase(d) \in Phase
    BY Linkage DEF SystemInv, TokenPhase
  <2>2. TokenPhase(d) # "apply"
    BY <1>4 DEF SystemInv, CheckedInv, Unchecked
  <2> QED BY <2>1, <2>2 DEF Phase
<1>5. /\ \A d \in Execution : /\ Issued(d)' <=> Issued(d)
                              /\ TokenRun(d)' = TokenRun(d) /\ TokenPhase(d)' = TokenPhase(d)
      /\ runs' = runs
  BY DEF vars, Issued, TokenRun, TokenPhase
<1>6. \A r \in Run, d \in Execution :
         worker'.seen[r] = "check_running" /\ Issued(d)' /\ TokenRun(d)' = r
            => TokenPhase(d)' = "check"
  BY <1>3, <1>4, <1>5 DEF SystemInv, SeenInv
<1>7. \A r \in Run :
         worker'.seen[r] = "apply_running" => runs'[r].state \notin Unchecked
  BY <1>3, <1>5 DEF SystemInv, SeenInv, Unchecked
<1>8. \A r \in Run : worker'.seen[r] \in {"unloaded", "check_running", "apply_running"}
  BY <1>2, <1>3 DEF SystemInv, SeenInv
<1> QED BY <1>6, <1>7, <1>8 DEF SeenInv, Unchecked

LEMMA ReadStepsAreKept ==
    ASSUME SystemInv, ReadStep
    PROVE  Kept
<1>1. UNCHANGED vars /\ UNCHANGED executions
  BY DEF ReadStep, StartTick, SelectPending, SelectRunning, EndTick, AbortTick, RecoverRaises,
         SelectQueued, ClaimFails, Start, RecoverLoad, PollSkips, PollRaises
<1>2. [Next]_vars /\ HolderInv' /\ CheckedInv' /\ KeysFall
  BY <1>1, QuietStep
<1>3. SystemTypeOK'
  BY ReadStepType
<1>4. \A e \in Execution : executions[e].status # "none" => Issued(e)
  BY DEF SystemInv, HolderInv
<1>5. \A e \in Execution : Issued(e)' <=> Issued(e)
  BY <1>2 DEF KeysFall
<1>6. SystemTypeOK /\ WorkInv /\ SeenInv
  BY DEF SystemInv
<1>7. WorkInv' /\ SeenInv'
  <2>1. CASE StartTick
    <3>1. worker'.step = "schedule" /\ worker'.seen = worker.seen /\ worker.step = "idle"
      BY <2>1, <1>6, WorkerType DEF StartTick
    <3> QED BY <1>2, <3>1, SeenOutsidePoll DEF WorkInv
  <2>2. CASE EndTick \/ AbortTick
    <3>1. worker'.step = "idle" /\ worker'.seen = NothingSeen
      BY <2>2 DEF EndTick, AbortTick, Idle
    <3> QED BY <1>2, <3>1, SeenOutsidePoll DEF WorkInv
  <2>3. CASE SelectPending
    <3>1. /\ worker'.step = "recover" /\ worker'.seen = worker.seen /\ worker.step = "apply"
          /\ \A e \in worker'.todo : e \in Execution /\ executions[e].status = "pending"
      BY <2>3, <1>6, WorkerType DEF SelectPending
    <3>2. SeenInv'
      BY <1>2, <3>1, SeenOutsidePoll
    <3> QED BY <1>4, <1>5, <3>1, <3>2 DEF WorkInv
  <2>4. CASE SelectRunning
    <3>1. /\ worker'.step = "poll"
          /\ \A e \in worker'.todo : e \in Execution /\ executions[e].status = "running"
      BY <2>4, <1>6, WorkerType DEF SelectRunning
    <3>2. SeenInv'
      BY <2>4, SelectRunningSees
    <3> QED BY <1>4, <1>5, <3>1, <3>2 DEF WorkInv
  <2>5. CASE RecoverRaises
    <3>1. /\ worker'.step = "recover" /\ worker'.seen = NothingSeen /\ worker.step = "look"
          /\ worker'.todo = worker.todo
      BY <2>5, <1>6, WorkerType DEF RecoverRaises, BackTo
    <3>2. SeenInv'
      BY <1>2, <3>1, SeenOutsidePoll
    <3> QED BY <1>5, <1>6, <3>1, <3>2 DEF WorkInv
  <2>6. ASSUME NEW phase \in Phase, SelectQueued(phase) PROVE WorkInv' /\ SeenInv'
    <3>1. /\ worker'.step \in Phase /\ worker'.seen = worker.seen
          /\ worker.step \in {"schedule", "check"}
      BY <2>6, <1>6, WorkerType DEF SelectQueued
    <3> QED BY <1>2, <3>1, SeenOutsidePoll DEF WorkInv, Phase
  <2>7. ASSUME NEW r \in Run, ClaimFails(r) PROVE WorkInv' /\ SeenInv'
    <3>1. worker'.step \in Phase /\ worker'.seen = NothingSeen
      BY <2>7, <1>6, WorkerType DEF ClaimFails
    <3> QED BY <1>2, <3>1, SeenOutsidePoll DEF WorkInv, Phase
  <2>8. CASE Start
    <3>1. /\ worker'.step = "record" /\ worker'.seen = worker.seen /\ worker.step = "start"
          /\ worker'.current = worker.current
      BY <2>8, <1>6, WorkerType DEF Start
    <3>2. SeenInv'
      BY <1>2, <3>1, SeenOutsidePoll
    <3> QED BY <1>5, <1>6, <3>1, <3>2 DEF WorkInv
  <2>9. ASSUME NEW e \in Execution, RecoverLoad(e) PROVE WorkInv' /\ SeenInv'
    <3>1. /\ worker'.step = "look" /\ worker.step = "recover"
          /\ worker'.seen = [worker.seen EXCEPT ![TokenRun(e)] = ExpectedState(e)]
          /\ worker'.current = e /\ e \in worker.todo /\ worker'.todo = worker.todo \ {e}
      BY <2>9, <1>6, WorkerType DEF RecoverLoad
    <3>2. SeenInv'
      <4>1. Issued(e)
        BY <1>6, <3>1 DEF WorkInv
      <4>2. runs[TokenRun(e)].state = ExpectedState(e)
        BY <2>9 DEF RecoverLoad
      <4> QED BY <1>1, <3>1, <4>1, <4>2, LoadedIsTrue
    <3> QED BY <1>5, <1>6, <3>1, <3>2 DEF WorkInv
  <2>10. ASSUME NEW e \in Execution, PollSkips(e) \/ PollRaises(e) PROVE WorkInv' /\ SeenInv'
    <3>1. worker.step = "poll" /\ Treated(e)
      BY <2>10 DEF PollSkips, PollRaises, Polls
    <3>2. /\ worker'.step = worker.step /\ worker'.seen = worker.seen
          /\ worker'.todo = worker.todo \ {e}
      BY <3>1, <1>6, TreatedEffect
    <3>3. SeenInv'
      BY <1>2, <3>2, SeenStep DEF SystemInv
    <3> QED BY <1>5, <1>6, <3>1, <3>2, <3>3 DEF WorkInv
  <2> QED BY <2>1, <2>2, <2>3, <2>4, <2>5, <2>6, <2>7, <2>8, <2>9, <2>10 DEF ReadStep
<1> QED BY <1>2, <1>3, <1>7 DEF Kept

LEMMA ClaimIsKept ==
    ASSUME SystemInv, NEW r \in Run, NEW e \in Execution, Claim(r, e)
    PROVE  Kept
<1> DEFINE phase == worker.step
<1>1. phase \in Phase /\ Dispatch(r, e, phase) /\ SetStatus(e, "pending")
  BY DEF Claim
<1>2. /\ ~ Issued(e)
      /\ Issued(e)' /\ TokenRun(e)' = r /\ TokenPhase(e)' = phase
      /\ \A d \in Execution : d # e => tokens'[d] = tokens[d]
      /\ runs[r].state = QueuedState(phase) /\ runs'[r].state = RunningState(phase)
  BY <1>1, DispatchEffect DEF SystemInv
<1>3. [Next]_vars
  BY <1>1 DEF Next
<1>4. /\ executions' \in [Execution -> ExecutionRow]
      /\ \A d \in Execution : executions'[d].status = IF d = e THEN "pending"
                                                      ELSE executions[d].status
  BY <1>1, StatusEffect DEF SystemInv
<1>5. worker' = [worker EXCEPT !.step = "start", !.todo = @ \ {r}, !.current = e,
                               !.seen[r] = RunningState(phase)]
  BY DEF Claim
<1>6. /\ worker'.step = "start" /\ worker'.current = e
      /\ \A s \in Run : worker'.seen[s] = IF s = r THEN RunningState(phase)
                                          ELSE worker.seen[s]
  BY <1>5, WorkerType DEF SystemInv
<1>7. RunningState(phase) \in {"check_running", "apply_running"} /\ Phase = {"check", "apply"}
  BY DEF RunningState, Phase
<1>8. SystemTypeOK'
  <2>1. RunningState(phase) \in RunState \cup {"unloaded"}
    BY <1>7 DEF RunState, ActiveState
  <2>2. worker \in WorkerState
    BY DEF SystemInv, SystemTypeOK
  <2>3. worker' \in WorkerState
    <3> DEFINE state == RunningState(phase)
    <3>1. state \in RunState \cup {"unloaded"}
      BY <2>1
    <3>2. worker' = [worker EXCEPT !.step = "start", !.todo = @ \ {r}, !.current = e,
                                   !.seen[r] = state]
      BY <1>5
    <3> HIDE DEF state
    <3> QED BY <2>2, <3>1, <3>2 DEF WorkerState
  <2>4. UNCHANGED <<jobs, faults>>
    BY DEF Claim
  <2> QED BY <1>4, <2>3, <2>4 DEF SystemInv, SystemTypeOK
<1>9. WorkInv'
  BY <1>2, <1>6 DEF WorkInv
<1>10. HolderInv'
  BY <1>2, <1>4 DEF SystemInv, HolderInv, TokenHolderIsActive, Active, Unrevoked, Issued
<1>11. CheckedInv'
  <2>1. ASSUME NEW d \in Execution, Issued(d)', TokenPhase(d)' = "apply"
        PROVE  runs'[TokenRun(d)'].state \notin Unchecked
    <3>1. CASE d = e
      BY <1>2, <2>1, <3>1 DEF RunningState, Unchecked
    <3>2. CASE d # e
      <4>1. Issued(d) /\ TokenPhase(d) = "apply" /\ TokenRun(d)' = TokenRun(d)
        BY <1>2, <2>1, <3>2 DEF Issued, TokenPhase, TokenRun
      <4>2. TokenRun(d) \in Run /\ runs[TokenRun(d)].state \notin Unchecked
        BY <4>1, RunOfIssued DEF SystemInv, CheckedInv
      <4> QED BY <1>3, <4>1, <4>2, CheckedStays DEF SystemInv
    <3> QED BY <3>1, <3>2
  <2> QED BY <2>1 DEF CheckedInv
<1>12. SeenInv'
  <2>1. ASSUME NEW s \in Run, NEW d \in Execution,
               worker'.seen[s] = "check_running", Issued(d)', TokenRun(d)' = s
        PROVE  TokenPhase(d)' = "check"
    <3>1. CASE s = r
      <4>1. phase = "check" /\ runs[r].state = "check_queued"
        BY <1>2, <1>6, <1>7, <2>1, <3>1 DEF RunningState, QueuedState
      <4>2. CASE d = e
        BY <1>2, <4>1, <4>2
      <4>3. CASE d # e
        <5>1. Issued(d) /\ TokenRun(d) = r /\ TokenPhase(d)' = TokenPhase(d)
          BY <1>2, <2>1, <3>1, <4>3 DEF Issued, TokenPhase, TokenRun
        <5>2. TokenPhase(d) \in Phase
          BY Linkage DEF SystemInv, TokenPhase
        <5> QED BY <1>7, <4>1, <5>1, <5>2 DEF SystemInv, CheckedInv, Unchecked
      <4> QED BY <4>2, <4>3
    <3>2. CASE s # r
      <4>1. d # e /\ worker.seen[s] = "check_running"
        BY <1>2, <1>6, <2>1, <3>2
      <4>2. Issued(d) /\ TokenRun(d) = s /\ TokenPhase(d)' = TokenPhase(d)
        BY <1>2, <2>1, <4>1 DEF Issued, TokenPhase, TokenRun
      <4> QED BY <4>1, <4>2 DEF SystemInv, SeenInv
    <3> QED BY <3>1, <3>2
  <2>2. ASSUME NEW s \in Run, worker'.seen[s] = "apply_running"
        PROVE  runs'[s].state \notin Unchecked
    <3>1. CASE s = r
      BY <1>2, <1>6, <2>2, <3>1 DEF Unchecked
    <3>2. CASE s # r
      <4>1. runs[s].state \notin Unchecked
        BY <1>6, <2>2, <3>2 DEF SystemInv, SeenInv
      <4> QED BY <1>3, <4>1, CheckedStays DEF SystemInv
    <3> QED BY <3>1, <3>2
  <2>3. worker.step # "poll"
    BY <1>1, <1>7
  <2> QED BY <1>6, <1>7, <2>1, <2>2, <2>3 DEF SystemInv, SeenInv
<1> QED BY <1>3, <1>8, <1>9, <1>10, <1>11, <1>12 DEF Kept

\* Closing and opening rows outside of the poll.
LEMMA RecordStepsAreKept ==
    ASSUME SystemInv, RecordStart \/ RecoverFound \/ StartFails \/ RecoverLost
    PROVE  Kept
<1>0. PICK e : e = worker.current
  OBVIOUS
<1>1. e \in Execution /\ Issued(e) /\ TokenRun(e) \in Run /\ TokenPhase(e) \in Phase
  <2>1. e \in Execution /\ Issued(e)
    BY <1>0 DEF RecordStart, RecoverFound, StartFails, RecoverLost, SystemInv, WorkInv
  <2> QED BY <2>1, RunOfIssued, Linkage DEF SystemInv, TokenPhase
<1>2. PICK status \in {"running", "failed"} :
         /\ SetStatus(e, status)
         /\ \/ status = "running" /\ UNCHANGED vars
            \/ status = "failed" /\ FailLoaded(TokenRun(e), TokenPhase(e))
  BY <1>0 DEF RecordStart, RecoverFound, StartFails, RecoverLost
<1>3. [Next]_vars /\ KeysFall /\ (status = "running" \/ ~ Unrevoked(e)')
  <2>1. CASE status = "running" /\ UNCHANGED vars
    BY <2>1, SameKeysFall DEF vars
  <2>2. CASE status = "failed" /\ FailLoaded(TokenRun(e), TokenPhase(e))
    BY <1>1, <2>2, ClosedKeyFalls
  <2> QED BY <1>2, <2>1, <2>2
<1>4. HolderInv'
  BY <1>1, <1>2, <1>3, StatusKeeps
<1>5. CheckedInv'
  BY <1>3, CheckedStep DEF SystemInv
<1>6. /\ worker'.step = IF worker.step \in {"start", "record"} THEN TokenPhase(e) ELSE "recover"
      /\ \E seen \in {worker.seen, SeenAfterFail} : BackTo(worker'.step, seen)
      /\ worker.step \in {"start", "record", "look"}
  <2>1. CASE RecordStart \/ StartFails
    <3>1. /\ worker.step \in {"start", "record"}
          /\ \E seen \in {worker.seen, SeenAfterFail} : BackTo(TokenPhase(e), seen)
      BY <1>0, <2>1 DEF RecordStart, StartFails
    <3> QED BY <3>1, WorkerType DEF BackTo, SystemInv
  <2>2. CASE RecoverFound \/ RecoverLost
    <3>1. /\ worker.step = "look"
          /\ \E seen \in {worker.seen, SeenAfterFail} : BackTo("recover", seen)
      BY <2>2 DEF RecoverFound, RecoverLost
    <3> QED BY <3>1, WorkerType DEF BackTo, SystemInv
  <2> QED BY <2>1, <2>2
<1>7. worker'.step \in {"check", "apply", "recover"}
  BY <1>1, <1>6 DEF Phase
<1>8. /\ worker'.seen \in [Run -> RunState \cup {"unloaded"}]
      /\ \A r \in Run : worker'.seen[r] \in {worker.seen[r], "unloaded"}
      /\ worker'.todo = worker.todo
  <2>1. worker.seen \in [Run -> RunState \cup {"unloaded"}]
    BY WorkerType DEF SystemInv
  <2>2. /\ SeenAfterFail \in [Run -> RunState \cup {"unloaded"}]
        /\ \A r \in Run : SeenAfterFail[r] \in {worker.seen[r], "unloaded"}
    BY <2>1 DEF SeenAfterFail
  <2>3. worker'.seen \in {worker.seen, SeenAfterFail} /\ worker'.todo = worker.todo
    BY <1>6, WorkerType DEF BackTo, SystemInv
  <2> QED BY <2>1, <2>2, <2>3
<1>9. WorkInv'
  <2>1. worker'.step = "recover" => worker.step = "look"
    BY <1>1, <1>6 DEF Phase
  <2>2. \A d \in Execution : Issued(d)' <=> Issued(d)
    BY <1>3 DEF KeysFall
  <2> QED BY <1>7, <1>8, <2>1, <2>2 DEF SystemInv, WorkInv
<1>10. SeenInv'
  BY <1>3, <1>6, <1>7, <1>8, SeenOutsidePoll
<1>11. SystemTypeOK'
  <2>1. executions' \in [Execution -> ExecutionRow]
    BY <1>2, StatusEffect DEF SystemInv
  <2>2. jobs' = jobs \/ jobs' = [jobs EXCEPT ![e] = "alive"]
    BY <1>0 DEF RecordStart, RecoverFound, StartFails, RecoverLost
  <2>3. jobs' \in [Execution -> Job]
    BY <2>2 DEF SystemInv, SystemTypeOK, Job
  <2>4. UNCHANGED faults
    BY DEF RecordStart, RecoverFound, StartFails, RecoverLost
  <2>5. worker' \in WorkerState
    BY <1>6, <1>7, <1>8 DEF BackTo, SystemInv, SystemTypeOK, WorkerState
  <2> QED BY <2>1, <2>3, <2>4, <2>5 DEF SystemInv, SystemTypeOK
<1> QED BY <1>3, <1>4, <1>5, <1>9, <1>10, <1>11 DEF Kept

\* The recovery of an execution whose run has moved on, and the poll.
LEMMA TreatedStepKeeps ==
    ASSUME SystemInv, [Next]_vars, KeysFall, NEW e \in Execution, Treated(e)
    PROVE  WorkInv' /\ SeenInv' /\ worker' \in WorkerState
<1>1. /\ worker'.step = worker.step /\ worker'.seen = worker.seen
      /\ worker'.todo = worker.todo \ {e} /\ worker'.current = worker.current
  BY TreatedEffect DEF SystemInv
<1>2. SeenInv'
  BY <1>1, SeenStep DEF SystemInv
<1>3. WorkInv'
  BY <1>1 DEF SystemInv, WorkInv, KeysFall
<1>4. worker' \in WorkerState
  BY DEF Treated, SystemInv, SystemTypeOK, WorkerState
<1> QED BY <1>2, <1>3, <1>4

LEMMA ClosingStepsAreKept ==
    ASSUME SystemInv, NEW e \in Execution,
           RecoverTooLate(e) \/ PollNotesExit(e) \/ PollFinishes(e)
    PROVE  Kept
<1>1. UNCHANGED vars /\ UNCHANGED faults /\ Treated(e)
  BY DEF RecoverTooLate, PollNotesExit, PollFinishes
<1>2. [Next]_vars /\ KeysFall
  BY <1>1, SameKeysFall DEF vars
<1>3. CheckedInv'
  BY <1>2, CheckedStep DEF SystemInv
<1>4. WorkInv' /\ SeenInv' /\ worker' \in WorkerState
  BY <1>1, <1>2, TreatedStepKeeps
<1>5. jobs' \in [Execution -> Job]
  BY DEF RecoverTooLate, PollNotesExit, PollFinishes, SystemInv, SystemTypeOK, Job
<1>6. executions' \in [Execution -> ExecutionRow] /\ HolderInv'
  <2>1. CASE PollNotesExit(e)
    <3>1. executions' \in [Execution -> ExecutionRow]
      <4>1. executions \in [Execution -> ExecutionRow]
        BY DEF SystemInv, SystemTypeOK
      <4>2. executions' = [executions EXCEPT ![e] = [executions[e] EXCEPT !.exitSeen = TRUE,
                                                                         !.late = FALSE]]
        BY <2>1, <4>1 DEF PollNotesExit
      <4>3. [executions[e] EXCEPT !.exitSeen = TRUE, !.late = FALSE] \in ExecutionRow
        BY <4>1 DEF ExecutionRow
      <4> QED BY <4>1, <4>2, <4>3
    <3>2. \A d \in Execution : executions'[d].status = executions[d].status
      BY <2>1 DEF PollNotesExit, SystemInv, SystemTypeOK, ExecutionRow
    <3> QED BY <1>1, <3>1, <3>2, QuietStep
  <2>2. CASE RecoverTooLate(e) \/ PollFinishes(e)
    <3>1. PICK status \in {"failed", "finished"} : SetStatus(e, status)
      BY <2>2 DEF RecoverTooLate, PollFinishes
    <3>2. e \in worker.todo /\ worker.step \in {"recover", "poll"}
      BY <2>2 DEF RecoverTooLate, PollFinishes, Polls
    <3>3. Issued(e)
      BY <3>2 DEF SystemInv, WorkInv
    <3>4. ~ Unrevoked(e)
      <4>1. CASE RecoverTooLate(e)
        BY <4>1 DEF RecoverTooLate, SystemInv, KeyInv, ExpectedState, TokenPhase
      <4>2. CASE PollFinishes(e)
        BY <4>2 DEF PollFinishes, Polls, SeenRunning, SystemInv, SeenInv
      <4> QED BY <2>2, <4>1, <4>2
    <3>5. ~ Unrevoked(e)'
      BY <1>2, <3>4 DEF KeysFall
    <3> QED BY <1>2, <3>1, <3>3, <3>5, StatusEffect, StatusKeeps DEF SystemInv
  <2> QED BY <2>1, <2>2
<1> QED BY <1>1, <1>2, <1>3, <1>4, <1>5, <1>6 DEF Kept, SystemInv, SystemTypeOK

\* The verdict of the poll names the wrong phase only when the token of the
\* execution has fallen already.
LEMMA SeenPhaseIsOwn ==
    ASSUME SystemInv, NEW e \in Execution, Issued(e), SeenRunning(e)
    PROVE  SeenPhase(e) \in Phase /\ (SeenPhase(e) = TokenPhase(e) \/ ~ Unrevoked(e))
<1>1. TokenRun(e) \in Run /\ TokenPhase(e) \in Phase
  BY RunOfIssued, Linkage DEF SystemInv, TokenPhase
<1>2. CASE worker.seen[TokenRun(e)] = "check_running"
  BY <1>1, <1>2 DEF SystemInv, SeenInv, SeenPhase, Phase
<1>3. CASE worker.seen[TokenRun(e)] = "apply_running"
  <2>1. SeenPhase(e) = "apply" /\ runs[TokenRun(e)].state # "check_running"
    BY <1>1, <1>3 DEF SystemInv, SeenInv, SeenPhase, Unchecked
  <2>2. Unrevoked(e) => runs[TokenRun(e)].state = RunningState(TokenPhase(e))
    BY DEF SystemInv, KeyInv, TokenPhase
  <2> QED BY <1>1, <2>1, <2>2 DEF Phase, RunningState
<1> QED BY <1>2, <1>3 DEF SeenRunning

LEMMA PollGivesUpIsKept ==
    ASSUME SystemInv, NEW e \in Execution, PollGivesUp(e)
    PROVE  Kept
<1> DEFINE r == TokenRun(e)
<1>1. /\ worker.step = "poll" /\ e \in worker.todo /\ SeenRunning(e)
      /\ FailLoaded(r, SeenPhase(e)) /\ SetStatus(e, "finished")
      /\ jobs' = [jobs EXCEPT ![e] = "gone"] /\ UNCHANGED faults
  BY DEF PollGivesUp, Polls
<1>2. Issued(e) /\ r \in Run
  BY <1>1, RunOfIssued DEF SystemInv, WorkInv
<1>3. SeenPhase(e) \in Phase /\ (SeenPhase(e) = TokenPhase(e) \/ ~ Unrevoked(e))
  BY <1>1, <1>2, SeenPhaseIsOwn
<1>4. [Next]_vars /\ KeysFall /\ ~ Unrevoked(e)'
  BY <1>1, <1>2, <1>3, ClosedKeyFalls
<1>5. runs' = runs \/ runs'[r].state = FailedState(SeenPhase(e))
  BY <1>1, <1>2, <1>3, FailEffect DEF SystemInv
<1>6. TypeInv' /\ KeyInv'
  BY <1>4, TypeStep, KeyStep DEF SystemInv
<1>7. HolderInv'
  BY <1>1, <1>2, <1>4, StatusKeeps
<1>8. CheckedInv'
  BY <1>4, CheckedStep DEF SystemInv
<1>9. PICK state \in RunState \cup {"unloaded"} :
         /\ worker' = [worker EXCEPT !.todo = @ \ {e}, !.seen[r] = state]
         /\ \/ state = worker.seen[r] /\ runs'[r] = runs[r]
            \/ state \in {"check_failed", "apply_failed"} /\ state = runs'[r].state
  <2>1. worker' = [worker EXCEPT !.todo = @ \ {e},
                                 !.seen[r] = IF runs'[r] # runs[r] THEN runs'[r].state
                                             ELSE worker.seen[r]]
    BY DEF PollGivesUp
  <2>2. CASE runs'[r] = runs[r]
    BY <1>2, <2>1, <2>2, WorkerType DEF SystemInv
  <2>3. CASE runs'[r] # runs[r]
    <3>1. runs'[r].state \in {"check_failed", "apply_failed"}
      BY <1>5, <2>3 DEF FailedState
    <3> QED BY <2>1, <2>3, <3>1 DEF RunState, TerminalState
  <2> QED BY <2>2, <2>3
<1> HIDE DEF r
<1>10. /\ worker'.step = "poll" /\ worker'.todo = worker.todo \ {e}
       /\ \A s \in Run : worker'.seen[s] = IF s = r THEN state ELSE worker.seen[s]
  BY <1>1, <1>2, <1>9, WorkerType DEF SystemInv
<1>11. worker' \in WorkerState
  BY <1>2, <1>9 DEF SystemInv, SystemTypeOK, WorkerState
<1>12. WorkInv'
  BY <1>1, <1>4, <1>10 DEF SystemInv, WorkInv, KeysFall
<1>13. SeenInv'
  <2>1. ASSUME NEW s \in Run, NEW d \in Execution,
               worker'.seen[s] = "check_running", Issued(d)', TokenRun(d)' = s
        PROVE  TokenPhase(d)' = "check"
    <3>1. worker.seen[s] = "check_running"
      BY <1>9, <1>10, <2>1
    <3> QED BY <1>4, <2>1, <3>1 DEF KeysFall, SystemInv, SeenInv
  <2>2. ASSUME NEW s \in Run, worker'.seen[s] = "apply_running"
        PROVE  runs'[s].state \notin Unchecked
    <3>1. worker.seen[s] = "apply_running"
      BY <1>9, <1>10, <2>2
    <3> QED BY <1>4, <3>1, CheckedStays DEF SystemInv, SeenInv
  <2>3. ASSUME NEW d \in Execution, d \in worker'.todo, Unrevoked(d)'
        PROVE  worker'.seen[TokenRun(d)'] \in {"check_running", "apply_running"}
    <3>1. d \in worker.todo /\ Unrevoked(d) /\ TokenRun(d)' = TokenRun(d)
      BY <1>4, <1>10, <2>3 DEF KeysFall
    <3>2. worker.seen[TokenRun(d)] \in {"check_running", "apply_running"}
      BY <1>1, <3>1 DEF SystemInv, SeenInv
    <3>3. TokenRun(d) \in Run
      BY <3>1, Linkage DEF SystemInv
    <3>4. runs'[TokenRun(d)].state \in {"check_running", "apply_running"}
      BY <1>6, <2>3, <3>1 DEF KeyInv, RunningState
    <3> QED BY <1>9, <1>10, <3>1, <3>2, <3>3, <3>4
  <2> QED BY <1>10, <2>1, <2>2, <2>3 DEF SeenInv
<1>14. executions' \in [Execution -> ExecutionRow] /\ jobs' \in [Execution -> Job]
  <2>1. executions' \in [Execution -> ExecutionRow]
    BY <1>1, StatusEffect DEF SystemInv
  <2> QED BY <1>1, <2>1 DEF SystemInv, SystemTypeOK, Job
<1> QED BY <1>1, <1>4, <1>7, <1>8, <1>11, <1>12, <1>13, <1>14 DEF Kept, SystemInv, SystemTypeOK

LEMMA SweepIsKept ==
    ASSUME SystemInv, Sweep
    PROVE  Kept
<1>1. UNCHANGED vars /\ UNCHANGED <<executions, jobs, faults>>
  BY SweepChangesNothing DEF Sweep
<1>2. [Next]_vars /\ HolderInv' /\ CheckedInv' /\ KeysFall
  BY <1>1, QuietStep
<1>3. /\ worker' = [worker EXCEPT !.step = "sweep"] /\ worker.step = "recover"
      /\ worker'.step = "sweep" /\ worker'.seen = worker.seen
  BY WorkerType DEF Sweep, SystemInv
<1>4. SeenInv'
  BY <1>2, <1>3, SeenOutsidePoll
<1>5. WorkInv'
  BY <1>3 DEF WorkInv
<1>6. SystemTypeOK'
  BY <1>1, <1>3 DEF SystemInv, SystemTypeOK, WorkerState
<1> QED BY <1>2, <1>4, <1>5, <1>6 DEF Kept

LEMMA SystemInitially == SystemInit => SystemInv
<1> SUFFICES ASSUME SystemInit PROVE SystemInv
  OBVIOUS
<1>1. TypeInv /\ KeyInv
  BY TypeInit, KeyInit DEF SystemInit
<1>2. \A e \in Execution : /\ ~ Issued(e) /\ ~ Unrevoked(e)
                           /\ executions[e].status = "none"
  BY DEF SystemInit, Init, NoToken, Issued, Unrevoked
<1>3. /\ worker.step = "idle" /\ worker.todo = {} /\ worker.current = NoExecution
      /\ \A r \in Run : worker.seen[r] = "unloaded"
  BY DEF SystemInit, Idle, NothingSeen
<1>4. worker \in WorkerState
  BY DEF SystemInit, Idle, NothingSeen, WorkerState
<1>5. SystemTypeOK
  BY <1>4 DEF SystemInit, SystemTypeOK, ExecutionRow, Job
<1>6. WorkInv /\ HolderInv /\ CheckedInv /\ SeenInv
  BY <1>2, <1>3 DEF WorkInv, HolderInv, TokenHolderIsActive, CheckedInv, SeenInv
<1> QED BY <1>1, <1>5, <1>6 DEF SystemInv

LEMMA SystemStep == SystemInv /\ [SystemNext]_allVars => [Next]_vars /\ SystemInv'
<1> SUFFICES ASSUME SystemInv, [SystemNext]_allVars PROVE [Next]_vars /\ SystemInv'
  OBVIOUS
<1>1. CASE UNCHANGED allVars
  <2>1. UNCHANGED vars /\ UNCHANGED <<executions, jobs, worker, faults>>
    BY <1>1 DEF allVars, systemVars
  <2>2. [Next]_vars /\ HolderInv' /\ CheckedInv' /\ KeysFall
    BY <2>1, QuietStep
  <2>3. TypeInv' /\ KeyInv'
    BY <2>2, TypeStep, KeyStep DEF SystemInv
  <2>4. SystemTypeOK'
    BY <2>1 DEF SystemInv, SystemTypeOK
  <2>5. WorkInv' /\ SeenInv'
    BY <2>1, <2>2, SeenStep DEF SystemInv, WorkInv, KeysFall
  <2> QED BY <2>2, <2>3, <2>4, <2>5 DEF SystemInv
<1>2. CASE SystemNext
  <2>1. Kept
    <3>1. CASE WorkerStep
      <4>1. CASE ReadStep
        BY <4>1, ReadStepsAreKept
      <4>2. CASE \E r \in Run, e \in Execution : Claim(r, e)
        BY <4>2, ClaimIsKept
      <4>3. CASE RecordStart \/ RecoverFound \/ RecoverLost
        BY <4>3, RecordStepsAreKept
      <4>4. CASE \E e \in Execution : RecoverTooLate(e) \/ PollNotesExit(e) \/ PollFinishes(e)
        BY <4>4, ClosingStepsAreKept
      <4>5. CASE \E e \in Execution : PollGivesUp(e)
        BY <4>5, PollGivesUpIsKept
      <4>6. CASE Sweep
        BY <4>6, SweepIsKept
      <4> QED BY <3>1, <4>1, <4>2, <4>3, <4>4, <4>5, <4>6 DEF WorkerStep, ReadStep
    <3>2. CASE StartFails
      BY <3>2, RecordStepsAreKept
    <3>3. CASE RecoverRaises \/ AbortTick \/ \E e \in Execution : PollRaises(e)
      BY <3>3, ReadStepsAreKept DEF ReadStep
    <3>4. CASE \E e \in Execution : RunnerExits(e) \/ JobExpires(e) \/ GracePasses(e)
      BY <3>4, BackendStepsAreKept
    <3>5. CASE \/ UserActs
               \/ \E r \in Run : ScheduleFails(r)
               \/ \E e \in Execution : RunnerCalls(e) \/ HandlerCommits(e) \/ TokenExpires(e)
      BY <3>5, ServiceStepsAreKept
    <3> QED BY <1>2, <3>1, <3>2, <3>3, <3>4, <3>5 DEF SystemNext
  <2>2. TypeInv' /\ KeyInv'
    BY <2>1, TypeStep, KeyStep DEF SystemInv, Kept
  <2> QED BY <2>1, <2>2 DEF Kept, SystemInv
<1> QED BY <1>1, <1>2

\* The rows of the executions and the worker's own state are well formed.
THEOREM SystemTypeCorrect == System => []SystemTypeOK
<1>1. SystemInv => SystemTypeOK
  BY DEF SystemInv
<1> QED BY <1>1, SystemInitially, SystemStep, PTL DEF System

\* The worker drives the runs by the steps of RunService alone: whatever its
\* session had cached, and wherever its tick was cut off.
THEOREM SystemImplementsService == System => Spec
<1>1. SystemInit => Init
  BY DEF SystemInit
<1> QED BY <1>1, SystemInitially, SystemStep, PTL DEF System, Spec

\* The worker never closes the row of an execution whose token stands, so the
\* sweep of unstarted runs never finds a run.
THEOREM HoldersStayActive == System => []TokenHolderIsActive
<1>1. SystemInv => TokenHolderIsActive
  BY DEF SystemInv, HolderInv
<1> QED BY <1>1, SystemInitially, SystemStep, PTL DEF System

\* What the service promises of approvals and applies holds of the whole system,
\* with its worker, its executors and its runners, for any number of each.
THEOREM SystemIsSafe ==
    System => [](/\ OneActiveRun /\ OneTokenWhileRunning /\ ProceedsUnderApproval
                 /\ OneApplyPerRun /\ ApprovalWasOffered /\ WaitingIsAnnounced)
BY SystemImplementsService, ActiveRunIsUnique, TokenWhileRunning, ApplyIsApproved,
   ApplyHappensOnce, ApprovalsWereOffered, WaitingRunsAreAnnounced, PTL

\* And so the worker, the executors and the runners, with every fault, keep the
\* contract of module Approval.
THEOREM SystemKeepsContract == System => ContractHolds
BY SystemImplementsService, ServiceKeepsContract

-----------------------------------------------------------------------------
(* A check is given up for its own execution.                              *)

\* Only a dispatch issues a token.
LEMMA OnlyDispatchIssues ==
    ASSUME TypeInv, [Next]_vars
    PROVE  \/ KeysFall
           \/ \E r \in Run, e \in Execution, phase \in Phase : Dispatch(r, e, phase)
<1>1. CASE UNCHANGED tokens
  BY <1>1, SameKeysFall
<1>2. ASSUME NEW r \in Run, NEW phase \in Phase, FailRun(r, phase)
      PROVE  KeysFall
  BY <1>2, RevokedKeysFall DEF FailRun
<1>3. ASSUME NEW e \in Execution, ExpireToken(e)
      PROVE  KeysFall
  BY <1>3 DEF ExpireToken, KeysFall, Issued, Unrevoked, TokenRun, TokenPhase,
              TypeInv, TypeOK, TokenRow
<1>4. ASSUME NEW e \in Execution, NEW up \in Upload,
             CommitCheck(e, up) \/ PrecheckFailed(e, up) \/ PrecheckMoved(e, up)
             \/ CommitResult(e, up)
      PROVE  KeysFall
  <2>1. UNCHANGED tokens \/ \E phase : calls[e].stage # "none" /\ Revoke(TokenRun(e), phase)
    BY <1>4 DEF CommitCheck, PrecheckFailed, PrecheckMoved, CommitResult
  <2>2. calls[e].stage # "none" => TokenRun(e) \in Run
    BY Linkage
  <2> QED BY <2>1, <2>2, SameKeysFall, RevokedKeysFall
<1>5. ASSUME NEW r \in Run, CreateRun(r) \/ RecordScheduleFailure(r)
      PROVE  UNCHANGED tokens
  BY <1>5 DEF CreateRun, RecordScheduleFailure
<1>6. ASSUME NEW e \in Execution,
             \/ RefuseCall(e) \/ RefuseCommit(e) \/ LoadCheck(e) \/ LoadPrecheck(e)
             \/ LoadResult(e)
      PROVE  UNCHANGED tokens
  BY <1>6 DEF RefuseCall, RefuseCommit, LoadCheck, LoadPrecheck, LoadResult
<1>7. ASSUME NEW e \in Execution, NEW up \in Upload, PrecheckAgreed(e, up)
      PROVE  UNCHANGED tokens
  BY <1>7 DEF PrecheckAgreed
<1>8. ASSUME NEW u \in User, NEW r \in Run, LoadApprove(u, r) \/ LoadReject(u, r)
      PROVE  UNCHANGED tokens
  BY <1>8 DEF LoadApprove, LoadReject
<1>9. ASSUME NEW u \in User, CommitApprove(u) \/ CommitReject(u) \/ RequestMissed(u)
      PROVE  UNCHANGED tokens
  BY <1>9 DEF CommitApprove, CommitReject, RequestMissed
<1>10. CASE UNCHANGED vars
  BY <1>1, <1>10 DEF vars
<1> QED
  BY <1>1, <1>2, <1>3, <1>4, <1>5, <1>6, <1>7, <1>8, <1>9, <1>10 DEF Next

\* A run is dispatched to be checked once: from a state that it never returns to.
CheckedOnce ==
    /\ \A e \in Execution : Issued(e) => runs[TokenRun(e)].state \notin {"absent", "check_queued"}
    /\ \A d, e \in Execution :
          /\ Issued(d) /\ TokenPhase(d) = "check"
          /\ Issued(e) /\ TokenPhase(e) = "check"
          /\ TokenRun(d) = TokenRun(e)
          => d = e

LEMMA CheckedOnceInit == Init => CheckedOnce
BY DEF Init, CheckedOnce, Issued, NoToken

LEMMA QueueIsLeft ==
    ASSUME TypeInv, [Next]_vars, NEW r \in Run,
           runs[r].state \notin {"absent", "check_queued"}
    PROVE  runs'[r].state \notin {"absent", "check_queued"}
BY OneRunMoves DEF Moves, AllowedTransitions, CanInsert

LEMMA CheckedOnceStep ==
    ASSUME TypeInv, CheckedOnce, [Next]_vars
    PROVE  CheckedOnce'
<1>1. CASE KeysFall
  <2>1. \A e \in Execution :
            Issued(e)' => runs'[TokenRun(e)'].state \notin {"absent", "check_queued"}
    BY <1>1, QueueIsLeft, RunOfIssued DEF CheckedOnce, KeysFall
  <2> QED BY <1>1, <2>1 DEF CheckedOnce, KeysFall
<1>2. ASSUME NEW r \in Run, NEW e \in Execution, NEW phase \in Phase, Dispatch(r, e, phase)
      PROVE  CheckedOnce'
  <2>1. /\ ~ Issued(e)
        /\ Issued(e)' /\ TokenRun(e)' = r /\ TokenPhase(e)' = phase
        /\ \A d \in Execution : d # e => tokens'[d] = tokens[d]
        /\ runs[r].state = QueuedState(phase) /\ runs'[r].state = RunningState(phase)
    BY <1>2, DispatchEffect
  <2>2. \A d \in Execution : d # e =>
            /\ Issued(d)' <=> Issued(d)
            /\ TokenRun(d)' = TokenRun(d) /\ TokenPhase(d)' = TokenPhase(d)
    BY <2>1 DEF Issued, TokenRun, TokenPhase
  <2>3. \A d \in Execution :
            Issued(d)' => runs'[TokenRun(d)'].state \notin {"absent", "check_queued"}
    <3>1. runs'[r].state \notin {"absent", "check_queued"}
      BY <2>1 DEF RunningState
    <3> QED BY <2>1, <2>2, <3>1, QueueIsLeft, RunOfIssued DEF CheckedOnce
  <2>4. phase = "check" => \A d \in Execution : Issued(d) => TokenRun(d) # r
    BY <2>1 DEF QueuedState, CheckedOnce
  <2> QED BY <2>1, <2>2, <2>3, <2>4 DEF CheckedOnce
<1> QED BY <1>1, <1>2, OnlyDispatchIssues

LEMMA GivenUpStep ==
    ASSUME SystemInv, CheckedOnce, SystemNext, NEW e \in Execution,
           worker.step = "poll", worker'.todo # worker.todo,
           Unrevoked(e), TokenPhase(e) = "check", tokens'[e].status = "revoked"
    PROVE  jobs[e] = "exited" /\ executions[e].late
<1>1. tokens' # tokens /\ worker' # worker
  BY DEF Unrevoked
<1>2. PICK d \in Execution : PollGivesUp(d)
  <2>1. ~ Sweep /\ ~ StartFails /\ ~ RecoverLost
    BY DEF Sweep, StartFails, RecoverLost
  <2>2. \A r \in Run, f \in Execution : ~ Claim(r, f)
    BY DEF Claim, Phase
  <2>3. ~ UserActs /\ \A r \in Run : ~ ScheduleFails(r)
    BY <1>1 DEF UserActs, ScheduleFails, systemVars
  <2>4. \A f \in Execution : ~ RunnerCalls(f) /\ ~ HandlerCommits(f) /\ ~ TokenExpires(f)
    BY <1>1 DEF RunnerCalls, HandlerCommits, TokenExpires, systemVars
  <2>5. \A f \in Execution : ~ RunnerExits(f) /\ ~ JobExpires(f) /\ ~ GracePasses(f)
    BY <1>1 DEF RunnerExits, JobExpires, GracePasses
  <2>6. /\ ~ StartTick /\ ~ SelectPending /\ ~ SelectRunning /\ ~ EndTick /\ ~ AbortTick
        /\ ~ RecoverRaises /\ ~ Start /\ ~ RecordStart /\ ~ RecoverFound
    BY <1>1 DEF StartTick, SelectPending, SelectRunning, EndTick, AbortTick, RecoverRaises,
                Start, RecordStart, RecoverFound, vars
  <2>7. /\ \A phase \in Phase : ~ SelectQueued(phase)
        /\ \A r \in Run : ~ ClaimFails(r)
    BY <1>1 DEF SelectQueued, ClaimFails, vars
  <2>8. \A f \in Execution : ~ RecoverTooLate(f) /\ ~ RecoverLoad(f) /\ ~ PollSkips(f)
                             /\ ~ PollNotesExit(f) /\ ~ PollFinishes(f) /\ ~ PollRaises(f)
    BY <1>1 DEF RecoverTooLate, RecoverLoad, PollSkips, PollNotesExit, PollFinishes,
                PollRaises, vars
  <2> QED BY <2>1, <2>2, <2>3, <2>4, <2>5, <2>6, <2>7, <2>8 DEF SystemNext, WorkerStep
<1>3. /\ Polls(d) /\ jobs[d] = "exited" /\ SeenRunning(d) /\ executions[d].late
      /\ FailLoaded(TokenRun(d), SeenPhase(d))
  BY <1>2 DEF PollGivesUp
<1>4. Issued(d) /\ TokenRun(d) \in Run
  BY <1>3, RunOfIssued DEF SystemInv, WorkInv, Polls
<1>5. Revoke(TokenRun(d), SeenPhase(d))
  BY <1>1, <1>3 DEF FailLoaded, FailRun, vars
<1>6. TokenRun(e) = TokenRun(d) /\ TokenPhase(e) = SeenPhase(d)
  BY <1>5, RevokeEffect DEF SystemInv, TypeInv, Unrevoked, TokenRun, TokenPhase
<1>7. worker.seen[TokenRun(d)] = "check_running"
  BY <1>6 DEF SeenPhase
<1>8. TokenPhase(d) = "check"
  BY <1>4, <1>7 DEF SystemInv, SeenInv
<1>9. Issued(e)
  BY DEF Issued, Unrevoked
<1>10. e = d
  BY <1>4, <1>6, <1>8, <1>9 DEF CheckedOnce
<1> QED BY <1>3, <1>10

\* The worker gives up a check only when the runner of that very check exited
\* and the grace passed, whatever its session read earlier in the tick.
THEOREM ChecksAreGivenUpLate == System => CheckIsGivenUpLate
<1>1. SystemInv /\ CheckedOnce /\ [SystemNext]_allVars => CheckedOnce'
  BY SystemStep, CheckedOnceStep DEF SystemInv
<1>2. SystemInv /\ CheckedOnce /\ [SystemNext]_allVars =>
        [\A e \in Execution :
          /\ worker.step = "poll" /\ worker'.todo # worker.todo
          /\ Unrevoked(e) /\ TokenPhase(e) = "check" /\ tokens'[e].status = "revoked"
          => jobs[e] = "exited" /\ executions[e].late]_allVars
  BY GivenUpStep
<1>3. SystemInit => CheckedOnce
  BY CheckedOnceInit DEF SystemInit
<1> QED BY <1>1, <1>2, <1>3, SystemInitially, SystemStep, PTL DEF System, CheckIsGivenUpLate
=============================================================================
