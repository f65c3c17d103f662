----------------------------- MODULE RunService -----------------------------
(***************************************************************************)
(* The run lifecycle of Stablehand: the rows of the database tables runs,   *)
(* run_tokens and integration_deliveries, and every handler that writes     *)
(* them (runs/service.py, runs/transitions.py, runs/machine.py, the approve *)
(* and reject routes, and the transactions of the worker).                  *)
(*                                                                         *)
(* A handler is one database transaction at READ COMMITTED.  It loads the   *)
(* run, decides in memory on what it loaded, and then issues one UPDATE     *)
(* that compares the run's state and sets it (transition_run).  The row     *)
(* lock that UPDATE takes makes the rest of the transaction (revoking       *)
(* tokens, queueing webhooks) one step with it.  A handler is therefore two *)
(* steps here: a Load that keeps what the code keeps, and a commit that     *)
(* compares and swaps.  Anything may happen between the two.                *)
(*                                                                         *)
(* The worker may fail a running run at any moment here; which moments it   *)
(* really chooses is the subject of module Stablehand.                      *)
(***************************************************************************)
EXTENDS FiniteSets

CONSTANTS
    Run,            \* primary keys of runs
    Stack,          \* primary keys of stacks
    StackOf,        \* the stack each run key will belong to
    User,           \* users who may press Approve or Reject
    Approver,       \* per stack, the users approval_error lets through
    Execution,      \* one key per dispatch: an execution row and its token
    Webhook,        \* the enabled webhook integrations
    Fingerprint,    \* fingerprints of change sets
    NoFp,           \* the NULL fingerprint
    NoUser,         \* the NULL user
    NoRun,          \* no run
    Document        \* what normalize() can return, see Upload

ASSUME ConstantsAssumption ==
    /\ StackOf \in [Run -> Stack]
    /\ Approver \in [Stack -> SUBSET User]
    /\ NoFp \notin Fingerprint
    /\ NoUser \notin User
    /\ NoRun \notin Run
    /\ Document \subseteq [fp : Fingerprint, change : BOOLEAN,
                           blocked : BOOLEAN, failed : BOOLEAN]

VARIABLES
    runs,           \* table runs
    tokens,         \* table run_tokens
    deliveries,     \* table integration_deliveries: <<webhook, run, fingerprint>>
    calls,          \* per token, how far its holder's calls to the API got
    requests,       \* per user, the approve or reject request in progress
    offered         \* history: every <<run, fingerprint>> put up for approval

vars == <<runs, tokens, deliveries, calls, requests, offered>>

-----------------------------------------------------------------------------
(* The tables.                                                             *)

ActiveState == {"check_queued", "check_running", "needs_approval",
                "apply_queued", "apply_running"}

TerminalState == {"unchanged", "check_failed", "succeeded", "apply_failed",
                  "rejected"}

RunState == {"absent"} \cup ActiveState \cup TerminalState

Phase == {"check", "apply"}

RunningState(phase) == IF phase = "check" THEN "check_running" ELSE "apply_running"

RunRow == [state : RunState,
           checkFp : Fingerprint \cup {NoFp},
           approvedFp : Fingerprint \cup {NoFp},
           approvedBy : User \cup {NoUser},
           blocked : BOOLEAN]

NewRun == [state |-> "absent", checkFp |-> NoFp, approvedFp |-> NoFp,
           approvedBy |-> NoUser, blocked |-> FALSE]

TokenRow == [run : Run \cup {NoRun}, phase : Phase,
             status : {"none", "live", "expired", "revoked"}]

NoToken == [run |-> NoRun, phase |-> "check", status |-> "none"]

\* Stages of a token holder's conversation with the API.  A runner posts each
\* result once and never retries, so a stage is passed at most once.
Stage == {"none", "booted",
          "checking",       \* check-result loaded, not committed
          "prechecking",    \* apply-precheck loaded, not committed
          "proceeding",     \* apply-precheck decided proceed = True
          "reporting",      \* apply-result loaded, not committed
          "done",           \* the last answer was given
          "refused"}        \* a call was answered 401 or 409

\* fp: the approved fingerprint the precheck handler loaded; after the answer
\* proceed = True, the fingerprint of the change set the runner may apply.
Call == [stage : Stage, fp : Fingerprint \cup {NoFp}]

Request == [op : {"none", "approve", "reject"}, run : Run \cup {NoRun},
            fp : Fingerprint \cup {NoFp}]

NoRequest == [op |-> "none", run |-> NoRun, fp |-> NoFp]

\* The body of a result upload (machine.ResultIn) after normalize():
\*   raw    pyinfra printed JSON          hosts  the inventory named a host
\*   exit0  pyinfra exited with 0         doc    the normalized document: its
\*     fingerprint, counts.change # 0, blocked, counts.failed # 0
Upload == [raw : BOOLEAN, hosts : BOOLEAN, exit0 : BOOLEAN, doc : Document]

TypeOK ==
    /\ runs \in [Run -> RunRow]
    /\ tokens \in [Execution -> TokenRow]
    /\ deliveries \subseteq Webhook \X Run \X Fingerprint
    /\ calls \in [Execution -> Call]
    /\ requests \in [User -> Request]
    /\ offered \subseteq Run \X Fingerprint

Init ==
    /\ runs = [r \in Run |-> NewRun]
    /\ tokens = [e \in Execution |-> NoToken]
    /\ deliveries = {}
    /\ calls = [e \in Execution |-> [stage |-> "none", fp |-> NoFp]]
    /\ requests = [u \in User |-> NoRequest]
    /\ offered = {}

-----------------------------------------------------------------------------
(* transition_run and the helpers of the service.  Operators whose name     *)
(* starts with Bug are wrong on purpose: they stand for plausible mistakes  *)
(* and show that a property notices them.  No specification uses them.      *)

AllowedTransitions ==
    {<<"check_queued", "check_running">>, <<"check_running", "needs_approval">>,
     <<"check_running", "unchanged">>, <<"check_running", "check_failed">>,
     <<"needs_approval", "apply_queued">>, <<"needs_approval", "rejected">>,
     <<"apply_queued", "apply_running">>, <<"apply_running", "needs_approval">>,
     <<"apply_running", "succeeded">>, <<"apply_running", "apply_failed">>}

\* The state is set without comparing it first.
BugBlindUpdate(r, from, to, values) ==
    runs' = [runs EXCEPT ![r] = [values EXCEPT !.state = to]]

\* The compare-and-swap UPDATE; `values` is the row with the other columns set.
Transition(r, from, to, values) ==
    /\ <<from, to>> \in AllowedTransitions
    /\ runs[r].state = from
    /\ runs' = [runs EXCEPT ![r] = [values EXCEPT !.state = to]]

\* Only tokens of the other phase are revoked.
BugRevoke(r, phase) ==
    tokens' = [e \in Execution |->
                 IF tokens[e].run = r /\ tokens[e].phase # phase
                 THEN [tokens[e] EXCEPT !.status = "revoked"] ELSE tokens[e]]

Revoke(r, phase) ==
    tokens' = [e \in Execution |->
                 IF tokens[e].run = r /\ tokens[e].phase = phase
                 THEN [tokens[e] EXCEPT !.status = "revoked"] ELSE tokens[e]]

\* The dedupe query forgets the fingerprint: one delivery per run.
BugEnqueue(r, f) ==
    deliveries' = deliveries \cup
        {<<w, r, f>> : w \in {v \in Webhook : \A d \in deliveries : d[1] # v \/ d[2] # r}}

\* enqueue_needs_approval: one row per webhook, run and fingerprint.
Enqueue(r, f) == deliveries' = deliveries \cup {<<w, r, f>> : w \in Webhook}

Answer(e, stage) == calls' = [calls EXCEPT ![e].stage = stage]

\* The last answer to a runner that was not told to proceed.
AnswerStop(e, stage) == calls' = [calls EXCEPT ![e] = [stage |-> stage, fp |-> NoFp]]

PutUpForApproval(r, doc) ==
    /\ Enqueue(r, doc.fp)
    /\ offered' = IF doc.blocked THEN offered ELSE offered \cup {<<r, doc.fp>>}

-----------------------------------------------------------------------------
(* Opening a run: the CI route, the Run button, the schedule.              *)

\* The partial unique index uq_runs_one_active_per_stack accepts the INSERT.
CanInsert(r) ==
    /\ runs[r].state = "absent"
    /\ \A s \in Run : StackOf[s] = StackOf[r] => runs[s].state \notin ActiveState

CreateRun(r) ==
    /\ CanInsert(r)
    /\ runs' = [runs EXCEPT ![r].state = "check_queued"]
    /\ UNCHANGED <<tokens, deliveries, calls, requests, offered>>

\* A scheduled run whose commit cannot be resolved is inserted, claimed and
\* failed in one transaction; it never has a token.
RecordScheduleFailure(r) ==
    /\ CanInsert(r)
    /\ runs' = [runs EXCEPT ![r].state = "check_failed"]
    /\ UNCHANGED <<tokens, deliveries, calls, requests, offered>>

-----------------------------------------------------------------------------
(* The worker's transactions.                                              *)

QueuedState(phase) == IF phase = "check" THEN "check_queued" ELSE "apply_queued"

FailedState(phase) == IF phase = "check" THEN "check_failed" ELSE "apply_failed"

\* claim, the execution row and issue_run_token, committed together.
Dispatch(r, e, phase) ==
    /\ tokens[e].status = "none"
    /\ Transition(r, QueuedState(phase), RunningState(phase), runs[r])
    /\ tokens' = [tokens EXCEPT ![e] = [run |-> r, phase |-> phase, status |-> "live"]]
    /\ Answer(e, "booted")
    /\ UNCHANGED <<deliveries, requests, offered>>

\* fail_run, whatever row it loaded: its UPDATE only hits a running run.
FailRun(r, phase) ==
    /\ Transition(r, RunningState(phase), FailedState(phase), runs[r])
    /\ Revoke(r, phase)
    /\ UNCHANGED <<deliveries, calls, requests, offered>>

-----------------------------------------------------------------------------
(* The runner's uploads.  A token is looked up when its handler loads; a    *)
(* handler that has loaded goes on even if the token is revoked meanwhile.  *)

TokenRun(e) == tokens[e].run

Accepts(e) ==
    /\ tokens[e].status = "live"
    /\ runs[TokenRun(e)].state = RunningState(tokens[e].phase)

\* Six hours after issue_run_token.
ExpireToken(e) ==
    /\ tokens[e].status = "live"
    /\ tokens' = [tokens EXCEPT ![e].status = "expired"]
    /\ UNCHANGED <<runs, deliveries, calls, requests, offered>>

\* 401 from lookup_run_token, or 409 because the loaded run is not running.
RefuseCall(e) ==
    /\ calls[e].stage \in {"booted", "proceeding"}
    /\ ~ Accepts(e)
    /\ Answer(e, "refused")
    /\ UNCHANGED <<runs, tokens, deliveries, requests, offered>>

\* 409 because the compare-and-swap, or the second read of the state, found
\* that the run had left the running state.
RefuseCommit(e) ==
    /\ calls[e].stage \in {"checking", "prechecking", "reporting"}
    /\ runs[TokenRun(e)].state # RunningState(tokens[e].phase)
    /\ IF calls[e].stage = "prechecking" THEN AnswerStop(e, "refused")
                                         ELSE Answer(e, "refused")
    /\ UNCHANGED <<runs, tokens, deliveries, requests, offered>>

LoadCheck(e) ==
    /\ calls[e].stage = "booted" /\ tokens[e].phase = "check"
    /\ Accepts(e)
    /\ Answer(e, "checking")
    /\ UNCHANGED <<runs, tokens, deliveries, requests, offered>>

\* The branch for a failing exit code asks for a document without hosts, which
\* an inventory with hosts never yields: with JSON the exit code is ignored.
CheckVerdict(up) ==
    IF \/ ~ up.raw \/ ~ up.hosts
       \/ ~ up.exit0 /\ ~ up.hosts                THEN "check_failed"
    ELSE IF ~ up.doc.change /\ ~ up.doc.blocked   THEN "unchanged"
    ELSE "needs_approval"

\* The row is not refreshed before its webhooks are queued: they carry the
\* fingerprint the run had before this check.
BugCommitCheckStale(e, up) ==
    LET r == TokenRun(e) IN
    /\ calls[e].stage = "checking"
    /\ Transition(r, "check_running", CheckVerdict(up),
                  [runs[r] EXCEPT !.checkFp = up.doc.fp, !.blocked = up.doc.blocked])
    /\ Revoke(r, "check")
    /\ Answer(e, "done")
    /\ Enqueue(r, runs[r].checkFp)
    /\ UNCHANGED <<requests, offered>>

CommitCheck(e, up) ==
    LET r  == TokenRun(e)
        to == CheckVerdict(up)
    IN
    /\ calls[e].stage = "checking"
    /\ Transition(r, "check_running", to,
                  IF up.raw THEN [runs[r] EXCEPT !.checkFp = up.doc.fp,
                                                 !.blocked = up.doc.blocked]
                            ELSE runs[r])
    /\ Revoke(r, "check")
    /\ Answer(e, "done")
    /\ IF to = "needs_approval" THEN PutUpForApproval(r, up.doc)
                                ELSE UNCHANGED <<deliveries, offered>>
    /\ UNCHANGED requests

LoadPrecheck(e) ==
    /\ calls[e].stage = "booted" /\ tokens[e].phase = "apply"
    /\ Accepts(e)
    /\ calls' = [calls EXCEPT ![e] = [stage |-> "prechecking",
                                      fp    |-> runs[TokenRun(e)].approvedFp]]
    /\ UNCHANGED <<runs, tokens, deliveries, requests, offered>>

PrecheckFailed(e, up) ==
    LET r == TokenRun(e) IN
    /\ calls[e].stage = "prechecking"
    /\ ~ up.raw \/ ~ up.exit0
    /\ Transition(r, "apply_running", "apply_failed", runs[r])
    /\ Revoke(r, "apply")
    /\ AnswerStop(e, "done")
    /\ UNCHANGED <<deliveries, requests, offered>>

\* The change set moved: back to needs_approval with the new plan, and the
\* approval is withdrawn.
PrecheckMoved(e, up) ==
    LET r == TokenRun(e) IN
    /\ calls[e].stage = "prechecking"
    /\ up.raw /\ up.exit0
    /\ up.doc.fp # calls[e].fp
    /\ Transition(r, "apply_running", "needs_approval",
                  [runs[r] EXCEPT !.checkFp = up.doc.fp, !.blocked = up.doc.blocked,
                                  !.approvedFp = NoFp, !.approvedBy = NoUser])
    /\ Revoke(r, "apply")
    /\ AnswerStop(e, "done")
    /\ PutUpForApproval(r, up.doc)
    /\ UNCHANGED requests

\* The precheck compares with the fingerprint of the last check instead of the
\* approved one, and does not read the state again.
BugPrecheckAgreed(e, up) ==
    /\ calls[e].stage = "prechecking"
    /\ up.raw /\ up.exit0
    /\ up.doc.fp = runs[TokenRun(e)].checkFp
    /\ calls' = [calls EXCEPT ![e] = [stage |-> "proceeding", fp |-> up.doc.fp]]
    /\ UNCHANGED <<runs, tokens, deliveries, requests, offered>>

\* The plan is the approved one, and a second read finds the run still
\* apply_running.  This read decides; it takes no lock, and the runner may get
\* the answer when its token has been revoked since.
PrecheckAgreed(e, up) ==
    /\ calls[e].stage = "prechecking"
    /\ up.raw /\ up.exit0
    /\ up.doc.fp = calls[e].fp
    /\ runs[TokenRun(e)].state = "apply_running"
    /\ Answer(e, "proceeding")
    /\ UNCHANGED <<runs, tokens, deliveries, requests, offered>>

LoadResult(e) ==
    /\ calls[e].stage = "proceeding"
    /\ Accepts(e)
    /\ Answer(e, "reporting")
    /\ UNCHANGED <<runs, tokens, deliveries, requests, offered>>

\* A failed apply is put up for approval again.
BugCommitResult(e, up) ==
    LET r == TokenRun(e) IN
    /\ calls[e].stage = "reporting"
    /\ Transition(r, "apply_running",
                  IF up.raw /\ up.exit0 /\ ~ up.doc.failed THEN "succeeded"
                                                           ELSE "needs_approval",
                  runs[r])
    /\ Revoke(r, "apply")
    /\ Answer(e, "done")
    /\ UNCHANGED <<deliveries, requests, offered>>

CommitResult(e, up) ==
    LET r == TokenRun(e) IN
    /\ calls[e].stage = "reporting"
    /\ Transition(r, "apply_running",
                  IF up.raw /\ up.exit0 /\ ~ up.doc.failed THEN "succeeded"
                                                           ELSE "apply_failed",
                  runs[r])
    /\ Revoke(r, "apply")
    /\ Answer(e, "done")
    /\ UNCHANGED <<deliveries, requests, offered>>

-----------------------------------------------------------------------------
(* The approve and reject routes.                                          *)

\* The allow list is not asked.
BugLoadApprove(u, r) ==
    /\ requests[u].op = "none"
    /\ runs[r].state = "needs_approval"
    /\ ~ runs[r].blocked
    /\ requests' = [requests EXCEPT ![u] = [op |-> "approve", run |-> r,
                                            fp |-> runs[r].checkFp]]
    /\ UNCHANGED <<runs, tokens, deliveries, calls, offered>>

LoadApprove(u, r) ==
    /\ requests[u].op = "none"
    /\ u \in Approver[StackOf[r]]
    /\ runs[r].state = "needs_approval"
    /\ ~ runs[r].blocked
    /\ requests' = [requests EXCEPT ![u] = [op |-> "approve", run |-> r,
                                            fp |-> runs[r].checkFp]]
    /\ UNCHANGED <<runs, tokens, deliveries, calls, offered>>

LoadReject(u, r) ==
    /\ requests[u].op = "none"
    /\ u \in Approver[StackOf[r]]
    /\ runs[r].state = "needs_approval"
    /\ requests' = [requests EXCEPT ![u] = [op |-> "reject", run |-> r, fp |-> NoFp]]
    /\ UNCHANGED <<runs, tokens, deliveries, calls, offered>>

\* The approval is recorded without the fingerprint it was given for.
BugCommitApprove(u) ==
    LET q == requests[u] IN
    /\ q.op = "approve"
    /\ Transition(q.run, "needs_approval", "apply_queued",
                  [runs[q.run] EXCEPT !.approvedBy = u])
    /\ requests' = [requests EXCEPT ![u] = NoRequest]
    /\ UNCHANGED <<tokens, deliveries, calls, offered>>

CommitApprove(u) ==
    LET q == requests[u] IN
    /\ q.op = "approve"
    /\ Transition(q.run, "needs_approval", "apply_queued",
                  [runs[q.run] EXCEPT !.approvedFp = q.fp, !.approvedBy = u])
    /\ requests' = [requests EXCEPT ![u] = NoRequest]
    /\ UNCHANGED <<tokens, deliveries, calls, offered>>

CommitReject(u) ==
    LET q == requests[u] IN
    /\ q.op = "reject"
    /\ Transition(q.run, "needs_approval", "rejected", runs[q.run])
    /\ requests' = [requests EXCEPT ![u] = NoRequest]
    /\ UNCHANGED <<tokens, deliveries, calls, offered>>

\* The compare-and-swap of either request missed: "not waiting for approval".
RequestMissed(u) ==
    /\ requests[u].op # "none"
    /\ runs[requests[u].run].state # "needs_approval"
    /\ requests' = [requests EXCEPT ![u] = NoRequest]
    /\ UNCHANGED <<runs, tokens, deliveries, calls, offered>>

-----------------------------------------------------------------------------
Next ==
    \/ \E r \in Run : CreateRun(r) \/ RecordScheduleFailure(r)
    \/ \E r \in Run, phase \in Phase : FailRun(r, phase)
    \/ \E r \in Run, e \in Execution, phase \in Phase : Dispatch(r, e, phase)
    \/ \E e \in Execution : \/ ExpireToken(e)
                            \/ RefuseCall(e)   \/ RefuseCommit(e)
                            \/ LoadCheck(e)    \/ LoadPrecheck(e)
                            \/ LoadResult(e)
    \/ \E e \in Execution, up \in Upload : \/ CommitCheck(e, up)
                                           \/ PrecheckFailed(e, up)
                                           \/ PrecheckMoved(e, up)
                                           \/ PrecheckAgreed(e, up)
                                           \/ CommitResult(e, up)
    \/ \E u \in User, r \in Run : LoadApprove(u, r) \/ LoadReject(u, r)
    \/ \E u \in User : CommitApprove(u) \/ CommitReject(u) \/ RequestMissed(u)

Spec == Init /\ [][Next]_vars

-----------------------------------------------------------------------------
(* Properties.                                                             *)

Unrevoked(e) == tokens[e].status \in {"live", "expired"}

\* The runner holding e was told to proceed with the change set calls[e].fp.
HasProceeded(e) == calls[e].fp # NoFp /\ calls[e].stage # "prechecking"

\* The contract, read off the tables.  Queued, running and repeated phases are
\* one stage of it; a run whose apply failed or succeeded is closed.
StageOf(state) ==
    CASE state = "absent"                            -> "absent"
      [] state \in {"check_queued", "check_running"} -> "checking"
      [] state = "needs_approval"                    -> "waiting"
      [] state \in {"apply_queued", "apply_running"} -> "approved"
      [] OTHER                                       -> "closed"

Contract == INSTANCE Approval WITH
    Plan     <- Fingerprint,
    NoPlan   <- NoFp,
    Agent    <- Execution,
    stage    <- [r \in Run |-> StageOf(runs[r].state)],
    offers   <- offered,
    approval <- [r \in Run |-> [plan |-> runs[r].approvedFp, by |-> runs[r].approvedBy]],
    applies  <- {<<e, TokenRun(e), calls[e].fp>> : e \in {d \in Execution : HasProceeded(d)}}

\* Whatever the interleaving of uploads, requests, failures and expiry, the
\* service keeps the contract of module Approval: a plan is applied at most
\* once, by a runner told so while the run stood approved for exactly that plan
\* by a user on the allow list, and an approval is withdrawn only while nothing
\* has been applied under it.
ContractHolds == Contract!Spec

\* A stack never has two active runs, whatever the order in which runs are
\* opened, fail, and come back to needs_approval.
OneActiveRun ==
    \A r, s \in Run :
        StackOf[r] = StackOf[s] /\ runs[r].state \in ActiveState
                                /\ runs[s].state \in ActiveState => r = s

\* A run is running a phase exactly when one token of that phase is not
\* revoked: every way out of a running state revokes the token, and no run
\* ever has two of them.
OneTokenWhileRunning ==
    \A r \in Run, phase \in Phase :
        LET keys == {e \in Execution : /\ Unrevoked(e)
                                       /\ tokens[e].run = r /\ tokens[e].phase = phase}
        IN  /\ runs[r].state = RunningState(phase) => keys # {}
            /\ keys # {} => runs[r].state = RunningState(phase)
            /\ \A d, e \in keys : d = e

\* While a runner that was told to proceed still holds its token, its run is
\* apply_running under an approval of exactly the change set it may apply.
ProceedsUnderApproval ==
    \A e \in Execution :
        HasProceeded(e) /\ Unrevoked(e) =>
            /\ runs[TokenRun(e)].state = "apply_running"
            /\ runs[TokenRun(e)].approvedFp = calls[e].fp

\* At most one runner of a run is ever told to proceed: one approval, one
\* apply, however often the run went back to needs_approval before.
OneApplyPerRun ==
    \A d, e \in Execution :
        HasProceeded(d) /\ HasProceeded(e) /\ TokenRun(d) = TokenRun(e) => d = e

\* Whatever is queued, running or done as an apply was approved by someone on
\* the allow list, and for a change set that was up for approval, with every
\* host reachable, at some earlier moment of the same run.
ApprovalWasOffered ==
    \A r \in Run :
        /\ runs[r].state \in {"apply_queued", "apply_running", "succeeded", "apply_failed"}
              => runs[r].approvedFp # NoFp
        /\ runs[r].approvedFp # NoFp =>
              /\ <<r, runs[r].approvedFp>> \in offered
              /\ runs[r].approvedBy \in Approver[StackOf[r]]

\* A run that waits for approval has a delivery row for its current plan.
WaitingIsAnnounced ==
    \A r \in Run, w \in Webhook :
        runs[r].state = "needs_approval" => <<w, r, runs[r].checkFp>> \in deliveries

\* A finished run keeps its row: late uploads, late approvals and the worker's
\* failures all miss it.
TerminalIsFinal ==
    [][\A r \in Run : runs[r].state \in TerminalState => runs'[r] = runs[r]]_vars

\* A handler that loaded before its token was revoked can still commit, but it
\* changes no run, no token and no delivery: its runner is refused.
RevokedTokenChangesNothing ==
    [][\A e \in Execution :
          tokens[e].status = "revoked" /\ calls'[e] # calls[e] =>
              /\ calls'[e].stage = "refused"
              /\ UNCHANGED <<runs, tokens, deliveries>>]_vars

\* Claimed by tests/test_runs.py, which refuses to approve a check with
\* unreachable hosts: a run queued for apply is not blocked.
BlockedIsNeverApproved ==
    \A r \in Run : runs[r].state = "apply_queued" => ~ runs[r].blocked
============================================================================
