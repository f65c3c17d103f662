# Stablehand, specified

A TLA+ model of Stablehand: the run lifecycle, the worker that drives it, and
what the two promise about approvals and applies. TLC checks the models on
small instances; TLAPS proves the safety properties for every instance.
`src/` below is the repository's own `src/` (so `worker.py` is
`src/stablehand/worker.py`).

## The system

Stablehand opens a *run* on a *stack*, lets a *runner* check what pyinfra would
change, waits for a person to approve that change set, and lets a second runner
apply it. Web processes, one worker and the runners share a database and
nothing else.

| component | state | operations | meets the others by |
|---|---|---|---|
| run lifecycle (`runs/service.py`, `runs/transitions.py`) | `runs`, `run_tokens` | create, claim, ingest check / precheck / result, approve, reject, fail | one compare-and-swap UPDATE per transition |
| machine API (`runs/machine.py`) | none of its own | open a run (CI token), log, check-result, apply-precheck, apply-result (run token) | HTTP from runners and CI, the service |
| approval routes (`ui/routes.py`) | none of its own | run, approve, reject | the service |
| worker (`worker.py`) | its session, the advisory lock | one tick: schedule, dispatch checks, dispatch applies, recover, sweep, poll, deliver | tables; executors |
| executors (`executors/`) | processes, Jobs and Secrets | start, poll, recover, cleanup | called by the worker |
| runner (`runner/main.py`) | a working copy | check, post; or check, ask, apply, post | the API, once per stage, without retries |
| webhook outbox (`integrations/service.py`, `worker.py`) | `integration_deliveries` | enqueue in the transaction of the transition, deliver with retries | the worker's last phase |
| plans (`plans/normalize.py`) | none | normalise pyinfra's JSON, fingerprint it | called by the service |
| schedule (`worker.py`, `stacks/service.py`) | `schedule_cron`, `schedule_next_at` | open a run when due | the worker's first phase |
| catalog (`stacks/`, `sources/`, `runtimes/`) | stacks, sources, runtimes, approvers | save, delete | read by every tick |
| credentials (`executors/`, `worker.py`) | Secrets and key files | made at the start of an execution, removed when it is closed | the worker, the kubelet |
| accounts (`auth/`, `web.py`) | users, sessions, OIDC settings | bootstrap, sign in, sign out, update a user | read by every route |
| CI tokens (`stacks/`) | API tokens | issue, revoke | read when CI opens a run |
| pages (`ui/`, `templates/`) | none | render | reads |

### What is hard here

* **Handlers race on one row.** A handler loads the run, decides in memory, and
  writes later. Everything rests on the UPDATE that compares the state
  (`transition_run`); what it does not compare (the plan, the fingerprint, the
  approver) may have moved.
* **Rounds.** `apply_running -> needs_approval -> apply_queued -> apply_running`
  can repeat. Each round has its own token, execution and approval, and the
  leftovers of the last one (a handler that has loaded, an execution row not yet
  closed) meet the next one.
* **Two tables for one fact.** Whether a run is running is in `runs.state`, in
  the tokens, and in `executions.status`; they are written in different
  transactions, with calls to an executor in between.
* **A session that remembers.** Sessions do not expire on commit, so the worker
  may decide on a state it loaded earlier in the tick.
* **Faults.** A tick may be aborted between any two steps; a runner may die
  before any call; a Job may vanish.
* **Forms race too.** A form's UPDATE writes the columns that differ from what its
  request loaded, under no lock; the rules it checked were about those loaded rows.
* **One tick for all.** The phases of a tick follow each other, and an exception that
  leaves one of them takes the rest along. Whatever raises again next time stops everything.
* **Things outside the database.** A Secret, a key file and a Job are made and removed between
  transactions; whatever comes between leaves one without the other.
* **Things that must end.** A run that stays active keeps its stack busy, because a stack
  has one active run.

`PROJECT.json` lists every hazard at its line with the properties that cover it.

### What makes each component correct

* lifecycle: no apply without an approval of exactly that plan by someone
  allowed; one apply per run; finished runs do not move; one active run per
  stack; one standing token per running phase; every wait is announced.
* worker: it moves runs only as the lifecycle allows; it never closes the row of a
  run it leaves running; every running phase ends; every approved run is taken
  up; nothing is reported that did not happen.
* outbox: every row is delivered or failed after ten attempts; nothing is
  delivered that was not queued; at least once.
* plans: only what was reviewed is applied, as far as the blocks of standard error show it; only
  other changes or other blocks send an apply back to review; the order of pyinfra's lists does not
  matter; an unreachable host blocks.
* schedule: a due stack opens at most one run per due time, and none is due for ever.
* accounts: nobody is enabled whom no admin has enabled; a sign-in never undoes an edit;
  an enabled admin remains unless two edits overlap.
* credentials: a closed execution leaves no Secret and no key file behind, but for a stated reason.
* catalog: a stack that can be dispatched keeps a source its executor can fetch.

## Modules

| module | models | uses |
|---|---|---|
| `Approval` | what is promised about a run: opened, offered, approved, applied, closed | |
| `RunService` | lifecycle, machine API, approval routes, enqueueing of webhooks | instantiates `Approval` |
| `Stablehand` | worker, executors, runners, clocks, around `RunService` | extends `RunService` |
| `Channel` | what is promised about a delivery: offered, tried, confirmed, given up, deleted | |
| `Outbox` | webhooks added and deleted, the advisory lock, delivery with retries, several workers | instantiates `Channel` |
| `Schedule` | the schedule of a stack as forms set it and the worker follows it | |
| `Catalog` | sources, runtimes and stacks under overlapping edits | |
| `Plans` | normalisation, fingerprint and the verdicts taken from them, over a fleet that drifts | |
| `Credentials` | Secrets and key files from start to clean-up, with several workers | |
| `Accounts` | bootstrap, signing in, sessions, users under overlapping edits | |
| `MC...` | small instances for TLC | each extends its module |
| `RunServiceProofs` | theorems about `RunService`, and that it implements `Approval` | extends it |
| `StablehandProofs` | theorems about `Stablehand` | extends it and `RunServiceProofs` |
| `OutboxProofs`, `ScheduleProofs`, `CatalogProofs`, `AccountsProofs`, `PlansProofs`, `CredentialsProofs` | theorems about one module each | each extends its module |

The modules meet at named seams. A row that `Queue` of `Outbox` adds is one that `Enqueue` of
`RunService` made; a check that `OpenCheck` of `Schedule` opens is a `CreateRun` or `RecordScheduleFailure` step of
`RunService`, and its `busy` stacks are those with an active run; a `Document` of `RunService` is
what `Normalize` of `Plans` makes of a report, seen as its fingerprint and four flags; the rows, jobs and worker steps of
`Credentials` are those of `Stablehand` with the credential added and the run reduced to "has left its phase"; the
users of `RunService` are those that `Accounts` lets sign in. Each seam is left
free in the other module: it may happen at any time.

### Approval

The contract of a run, without tokens, workers, requests or retries. `stage` is where a run is, `offers` which plans were up for
approval, `approval` what was approved and by whom, `applies` who was told to apply what. `RunService` implements it under the
mapping in `Contract`: `StageOf` maps eleven states to five stages, `offers` is the history `offered`, and `applies` is read
off the conversations that were told to proceed. Requests, token rows and webhooks are stutters.
`ContractHolds` is `Contract!Spec`; it relates the whole history of a run, which no
single invariant of `RunService` does: applied only after an approval of this plan, at most once, and with the approval withdrawn
before anything was applied if the plan moved.

### RunService

`runs`, `tokens` and `deliveries` are the tables. A run row keeps its state, its
last plan's fingerprint, what was approved and by whom, and whether approval is
blocked; the other columns are text no decision reads. `calls` says how far each
runner's conversation with the API got, and `requests` which approve or reject
request is between its load and its UPDATE. `offered` is history: what was ever
up for approval.

A handler is a `Load...` step, which does the token lookup and the state check and
keeps what the code keeps in memory, and a commit step, which is the
compare-and-swap UPDATE with everything the transaction does under the row lock
that UPDATE takes (token revocation, webhook rows). Between the two anything may
happen, as at READ COMMITTED. A commit that misses is `RefuseCommit` (409) or
`RequestMissed`. `PrecheckAgreed` takes no lock; its step is the second read of the
state, which is what decides.

A result upload is a record: whether there was JSON, whether the inventory named
hosts, whether pyinfra exited with 0, and a `Document`, of which only the
fingerprint, whether there is something to change, whether a host was
unreachable and whether one failed are ever read. `CheckVerdict` keeps all
branches of `ingest_check_result`, the one that cannot be reached too.

An element of `Execution` is the key of one dispatch: its token, and in
`Stablehand` its execution row. There are as many dispatches as keys.

In `RunService` alone the worker may fail a running run at any time, so that its
theorems do not depend on when the worker chooses to.

### Stablehand

`worker.step` walks through `reconcile()`. A phase selects its rows once into
`todo`; each row is then treated in steps of its own, cut where the code commits
or calls an executor: `Claim`, `Start`, `RecordStart`; `RecoverLoad`, then
`RecoverFound` or `RecoverLost`; one step per polled execution. `worker.seen` is the state of a run
as the tick's session knows it; `SelectRunning` may keep such a copy or load a new one,
since the identity map keeps an object only while something refers to it. `AbortTick` is an
exception that leaves `reconcile()`, and equally the death of the worker.
`exitSeen` and `late` stand for `finished_at` and for the two grace periods;
`GracePasses` may take any time.

`_sweep_unstarted` is one step: what it selects, and what it then fails, is
always the empty set (`TokenHolderIsActive`), so its inner steps cannot be told apart.
Its 60 seconds are dropped, which only makes it fail more.

A runner is `alive`, `exited` or `gone`. It calls the API only while alive, but a
handler that has loaded finishes without it. Local processes survive the worker
(`start_new_session`) and cannot be recovered; Jobs can, and are deleted some time after they finish.

### Outbox

`rows` and `hooks` are the tables; `lock` is the worker whose database connection holds the
advisory lock, and `ticks` is where the tick of each worker is. A row is treated in three
transactions, so `Load` (and `Join`, the second SELECT of `selectinload`), the send, and the store are
steps of their own. `Acquire` gives a connection the lock it has already, as PostgreSQL does: the lock is
never released. `LoseLock` is a pooled connection that was lost between two transactions and silently
replaced, which is how a second worker gets to run a tick beside the first; on SQLite there is no lock
at all. `SaveWebhook` takes any URL, also one that httpx cannot parse or a secret that cannot be decrypted later
(`Sendable`); only such a row makes `SendRaises`. `sent` and `accepted` are history. A timeout is a `SendFails` that may have been accepted by the
webhook; `accepted` counts only answers. The branch for a disabled integration
(`worker.py:356`) cannot be reached, since rows are made for enabled ones and no route disables one.

### Channel

The contract of a delivery, without ticks, batches, locks, or rows in a worker's hands. `fate` is the status, `tries` how often
it was sent, `got` what webhooks have accepted, and `single` says that the lock was not lost. `Outbox` implements it under the mapping
in `Promise`: loads, selections and delays are stutters, a send is `Try` at the moment the request may arrive, and the store is
`Confirm`, `GiveUp`, or a stutter where the UPDATE finds no pending row. `ChannelHolds` is `Promise!Spec`. What it says beyond
`SettledForAReason`: nothing is sent before it is queued, a settled row is never written again but by a deletion, and while one
worker has the lock a settled row is not even sent again, although between the load of a row and its send anything may happen.

### Schedule

`stacks` has the two columns of a schedule. The worker loads the scheduled stacks once (`StartTick`), computes
the next time of a due one and then asks git for a revision (`BeginResolve`, `resolving`), and writes the time and the run
together (`OpenCheck`; with `resolved` false the run fails at once). Meanwhile forms are loaded and
saved. Both write only changed columns (`SaveForm`, `Advance`). `SkipBusy` rolls back, which expires every stack of
the session (`NoRow` in `loaded`): later ones are read again when their turn comes. `NextTime` is croniter as a function; a time it has
none for is `NoTime`, where `get_next` raises.

### Catalog

A request is `Load...` and `Save...`; `Merged`, `SavedStack` and `Column` are the UPDATE of changed columns. A
deploy key is a Boolean, since a pasted key never equals a stored one. The foreign keys and the count of
`delete_source` come to one guard: no stack uses the row at the DELETE. `stale` and `tainted` are
history: which requests have loaded something that was overwritten since, and which rows were last written
by such a request, or rest on one that was written later.

### Accounts

A request is one transaction: it reads the actor (`Authorize`), the user of its form (`LoadUser`, unless that is the actor, whose row the
session has already) and the number of enabled admins (`Decide`), one statement each at READ COMMITTED, and commits with an UPDATE of the
columns that differ from what it read (`CommitUpdate`, `Column`). `LoadSignIn` and `CommitSignIn`, `LoadCallback` and `CommitKnownUser` or
`CommitNewUser` are the two ways to sign in; `CallbackFails` is what the two unique indexes refuse. `CountNobody` and `InsertFirstAdmin` are
`bootstrap`, in as many processes as start. `late`, `asked`, `overlapped` and `vouched` are history: whose request
began before the last edit, what was last asked for, which users were last edited by such a request, and whom an
admin enabled.

### Plans

`fleet` is external: what each operation would change on each host, with which arguments, the text of its diff, and
whether a host can be reached (`slow` is a host that pyinfra complains about and reaches after all; `broken` is one it connects
to and cannot examine). It may change at any step. `CheckReports` is what pyinfra prints about it: the operations in any order; on
standard error the diffs, complaints and other lines (`Log`) in any order, each diff in one piece (`Outputs`); with or
without an inventory, with either exit code. `Normalize`, `Status`, `Diffs` and `Fingerprint` are those of `plans/normalize.py`, branch by branch.
A document is a dict, hosts to what is said of them; a list that the code filters from another one is a function on the positions that
pass; a digest is the value it digests; and a sorted list is a bag, counted by `BagOf`, so two fingerprints are equal exactly if
what is hashed is.

Standard error is a sequence of lines. A line has a text and the host names that the text contains (`Within`: the code
searches by substring, so `web-1` is found in `web-10`). A diff is a sequence of `Part`s: what it prints from one line that
`_DIFF_START` finds to the next. `Blocks` is `_diff_blocks`: a block goes from such a line to the next, or to the end (`End`), with whatever
stands between, and is dropped if it begins with `--- ` and has no `+++` in it (`Kept`). A block belongs to the hosts its lines
name, or else to the first host (`Owners`). Two things follow that a reader of the page may not expect:

* A removed line `-- x` is printed as `--- x`, and cuts the diff there. What follows is dropped unless it has a `+++` in it, which a diff has on top only: it is not shown
  and not fingerprinted. `Truth`, and so `OnlyTheReviewedIsApplied`, speaks of a diff up to that line. An apply goes on
  although what stands behind it has changed.
* A complaint or a log line behind a diff becomes part of its block, and may bring a host into it. With other lines
  there, or the same in another order, an unmoved fleet has another fingerprint and the apply goes back to review. `OnlyDriftReturns` excepts
  this: `raw` has the blocks that were printed, in no order. What is left of it is that the order of operations and of
  blocks, and all that is printed in front of the first diff, send no apply back.

The `ingest_*` functions then take their verdicts from the documents. Of the document of an apply only the statuses are kept, which
do not depend on its diffs, so `ApplyReport` prints complaints only.

### Credentials

`workers` is what each worker has in hand and before which call or commit it is. `Record` and `CommitRecovery` write the row
blindly: `session.get` returns the object the session has had since the tick began, and the check of its status
passes whatever another worker has written. Two workers work at once only after the advisory lock was lost (`HasLock`). `moved`
says that the run has left its phase. `why` is history: what may have kept each credential (a deletion that failed,
a crash at a moment when nobody is left to clean up, a recovery that closed the row without looking, a recovery that
overwrote another worker's start).

Operators named `Bug...` are plausible mistakes in the operator that follows
them. No specification uses them; put in its place, each violates the
property that `PROJECT.json` pairs with it.

## Runs

| run | instance | asks |
|---|---|---|
| `RunService_lifecycle` | 2 runs of 1 stack, 4 dispatches, 3 users, one off the list, 2 plans | can an apply happen without, twice under, or after the end of an approval? is the contract of `Approval` kept? |
| `Stablehand_local` | 1 run, 3 dispatches, local runners, fair | does the worker implement `RunService`, dispatch every approved run again, and end every phase? |
| `Stablehand_kubernetes` | 1 run, 2 dispatches, Jobs, 2 faults, 1 plan, fair | with recovery and vanishing Jobs: are rows of running runs kept open, checks given up only after their grace, all phases ended? |
| `Outbox_delivery` | 2 rows of 2 webhooks, one of which may be saved with a URL that cannot be sent to, 2 workers, 1 crash, 1 lost lock, 2 attempts, batch 1, fair | anything settled without reason or twice, sent too often or after it was settled? is the contract of `Channel` kept? is every queued row settled in the end, also when two that fail compete for the batch? (360,860 states) |
| `Schedule_times` | 2 stacks, 1 admin, 3 edits, 4 instants, 1 failed tick, an expression without a time, fair | is a check opened twice by one time? is every due stack treated in the end? |
| `Catalog_edits` | 1 source, 1 runtime, 1 stack, 2 overlapping requests | which rules survive overlapping edits? |
| `Accounts_accounts` | 2 users, 1 OIDC subject with either address, 2 browsers, 2 processes | is anyone enabled whom no admin enabled? does a sign-in undo an edit? how can the last admin go? |
| `Plans_plans` | hosts `web1` and `web10`, 2 operations, 2 arguments, 3 diff texts of up to 2 parts, 1 other line that names a host, 2 changes of the fleet | is only what was reviewed applied? what sends an apply back? what may hide behind "unchanged" and "succeeded"? (129,694 states) |
| `Credentials_credentials` | 1 local and 1 Kubernetes execution, 2 workers, 2 faults, 1 lost lock, fair | which credentials outlive their execution? do all others go in the end? |
| `RunService_blocked`, `Stablehand_silent`, `Accounts_lastadmin` | violations | see Findings |

Bounds, and why they are enough:

* `Execution`: four keys give one check and three applies of a run, one more than the two
  rounds at which leftovers of one round can meet the next; three give a check and two
  applies, which is what it takes for an execution to block the dispatch of the next one.
* `User`: two approvers, whose requests overtake each other, and one user off the list.
* `Fingerprint`: two; every comparison is of two fingerprints. One plan in the Kubernetes run: that an apply finds
  its plan moved is in the local one.
* `Documents`: a plain plan for each fingerprint, the second also blocked or
  failed, and one with nothing to do, so that every branch is taken.
* `Run`: two in `RunService`, one in `Stablehand`. Nothing in the worker
  relates two runs, except that one is treated after the other.
* `MaxFaults`: two aborted ticks or executor errors at any point of the Kubernetes run, since only the execution
  an aborted tick left pending is looked up again, and that may raise too; none in the local run, which needs its third dispatch more. Ticks
  start again from the tables; the safety theorems hold for any number of faults with either executor.
* `Webhook`: one in `RunService`, where all are treated alike; two in `Outbox`, one of each row. `Unsendable` has the webhook of
  the older row: it is saved with a URL that can be sent to, so that two rows that fail compete for a batch of one, or with one that
  cannot, so that the younger row waits behind it and goes on once it is deleted.
* `MaxAttempts`, `Batch`: two and one for ten and twenty: fewer attempts than rows and crashes together, and a batch that
  leaves a row out. The proofs hold for any number.
* `MaxTime`, `Horizon`, `MaxEdits`: the times of one expression come twice and those of the other once, between them, and a stack's expression is set, changed and removed.
* `Admin` in `Catalog`: two; a request overwrites what one other has written. One in `Schedule`, whose races are with the worker.
* `Source`, `Runtime`: one, edited by both requests. That stacks move between several is left to the theorems.
* `Email`, `Browser`: two users can be the only admins of each other, and two requests overlap. Two addresses of one subject are
  what it takes for a link by subject and one by address to disagree. Nothing relates three users.
* `Names`, `Op`, `Arg` in `Plans`: two of each are two orders and one difference; the host names are the pair that
  substrings confuse. `Text`: a diff that names its host, the same with a removed line `-- x` behind, and one that begins with `diff --git` and names nobody; so each
  branch of `_diff_blocks` is taken. `Log`: one line, which names a host and may fall into any block or in front of them all.
  `MaxDrifts`: the fleet changes and changes back. `First`: it begins with nothing to do, or with one change on each host and a
  diff with a removed line, so that the two are left for what happens during the run.
* `Execution` of `Credentials`: one for each executor, in the hands of up to two workers, both of which may have
  the same one. `MaxFaults`: a crash and an error of its clean-up.

Symmetry is used in the runs of `RunService`, `Accounts` and `Plans` (dispatches, browsers, processes, operations, arguments), never
in a run with a liveness property. Deadlock is not checked in the runs of `RunService`, `Plans` and `Credentials`, where
everything may be over, nor in `Catalog`, whose ids may all be used up; it is in the others, whose workers or browsers never stop.

Fairness (`Fairness`): the worker's loop goes on (`main` is `while True`; weak fairness of
`WorkerStep`), clocks advance (`GracePasses`), and a runner ends some
day (`RunnerExits`). The last is an assumption about pyinfra and not a promise of the
code: there is no time limit. Nothing is assumed of users, of runners' calls, or of
token expiry. `RunningEnds` holds of each running phase unless its Job is gone, and `ApprovedIsDispatched`
stops where the keys do.
`Outbox` and `Schedule` assume the loop of each worker (`WorkerStep`), which includes that a send ends after its
ten seconds and that git answers, and in `Outbox` that the delay of a row passes; nothing of admins, of the clock of `Schedule`, or of
runs' ends. `Credentials` assumes that a worker goes on with what it
has in hand (weak fairness of `Proceed`), that each execution gets its turn although the lock is often held (strong fairness of
`Turn`: every tick treats every row), that pods start and runners exit; nothing of uploads, expiry of Jobs, or losses of the lock.

### Findings

* **The exit of a check fails the apply** (`Stablehand_silent`). `_poll` asks whether
  the run is running *some* phase (`worker.py:314`). A check that posted its result, was approved and
  dispatched before its own execution was closed has its exit charged to the apply:
  "The runner exited without posting a result.", and the apply's token is revoked under its living runner.
  It takes an approval within one poll of the check's exit, and a second poll 15 seconds later.
* **A blocked plan becomes approved** (`RunService_blocked`). The approval compares the state only; see
  `runs/service.py:85`. What is applied is still the plan that was loaded (`ProceedsUnderApproval`).
* **Two admins leave none** (`Accounts_lastadmin`). "Keep at least one enabled admin." (`auth/service.py:107`) is decided by a
  count under no lock (`auth/service.py:106`). Two admins who demote each other at the same time each count two. `OverlapsLoseAdmins` shows
  that it takes such an overlap.

The models also show the following behaviours. A property they would break states them as its exceptions.

* One webhook can stop the younger ones. Only `WebhookError` is caught around a send
  (`worker.py:363`). A URL httpx cannot parse, or a secret that cannot be decrypted, raises something else: the tick
  ends and the row stays the oldest due one. `EveryDeliverySettles` speaks of `Unblocked` rows.
* One impossible date stops all schedules. `0 0 31 2 *` passes `validate_stack`. Saved over an
  expression that has a next time, it raises at `worker.py:94` when that time comes, at every tick, before anything is
  dispatched or polled. `DueStacksAreTreated` holds in `SoundSchedules`.
* A changed expression keeps its old time, since `save_stack` computes one only where there is none
  (`stacks/service.py:103`).
* "The runner never started." (`worker.py:270`) is also said of a local runner that was started but not recorded,
  because the local executor cannot recover. `RecoverLost` with a job that is alive is this step. The token is revoked, so the
  result of that runner is refused.
* Only `save_stack` asks that a Kubernetes stack has a git URL; editing the source or the runtime afterwards does not. `StacksAreSound`
  excepts such stacks (`tainted`).
* Two overlapping edits of one source that change different columns can leave it with a URL and a path. `SourcesAreSound` excepts them.
* A host that pyinfra cannot examine and does not call unreachable hides behind "unchanged" whatever the exit code
  (`runs/service.py:176`): `UnchangedIsClean` allows `broken`.
* `OnlyDriftReturns` needs the inventory in both checks: a diff that names no host goes to the first host, and which one is
  first depends on whether `debug-inventory` answered. An apply may then return to review although nothing moved.
* A diff is shown and fingerprinted only up to its first removed line `-- x` (`plans/normalize.py:177`), and the lines that pyinfra prints
  behind a diff are part of it (`plans/normalize.py:175`); see Plans above for what the two properties promise all the same.
* An unreachable host does not fail an apply whose exit code is 0: `SuccessHidesOnlyUnreachable` allows it.
* After a lost lock a start (`worker.py:210`) and a recovery (`worker.py:260`) overwrite each other's row: a closed row may
  become running again, and a row may be closed under a runner that was just started.
* A credential stays for good after a crash between the commit that closes the row and the clean-up, or one that
  leaves a key file no row names or a Secret made after a recovery looked (`Crash`), after a recovery that finds the
  run moved and closes the row without looking (`"late"`), and when a deletion fails, which is only logged. `LeftoversAreExcused`
  says that these, and the overwritten row before, are all. The row of a Job that expired before it was polled stays running while its run has moved (`Unpolled`).

## Theorems

All proofs hold for every value of the constants that satisfies
`ConstantsAssumption`, `SystemAssumption`, `OutboxAssumption`, `ScheduleAssumption`, `CatalogAssumption`, `AccountsAssumption`,
`PlansAssumption` and `CredentialsAssumption`: these fix types, that NULL is no value, in `Catalog` that ids of sources and stacks differ, in
`Schedule` that the next time of an expression is in the future, and in `Plans` that the host names are a list without
repetition, that a name is a part of itself, that a plan has finitely many operations and standard error finitely many other
lines, that no two of a part of a diff, another line and a complaint are the same text, and that only parts of diffs contain a `+++`.

`RunServiceProofs`:

* `TypeInv` is `TypeOK` with links between the rows: a token that was issued names a run, and a
  conversation is at a stage of its token's phase.
* `KeyInv` makes `OneTokenWhileRunning` inductive. `TokenWhileRunning` follows: a step that enters
  a running state issues the only token of it, and one that leaves it revokes that.
* `FinishedRunsStay`: no transition starts in a terminal state (`OneRunMoves`).
* `ActiveRunIsUnique`: inductive on its own; only `CanInsert` makes a run active.
* `ServiceInv` adds `ConvInv`: while a token stands, the fingerprint its
  conversation holds is the one approved in the row. That is what a precheck
  needs at its commit, long after it loaded. It gives `ApplyIsApproved`; and
  `LateHandlersMiss`, because a revoked token's run has left the state that
  its handler compares with. For `ApplyHappensOnce`, a second runner could only be told to proceed
  while the first one's run is out of `apply_running`, hence finished.
* `OfferInv` says of each approval in a row, and of each one on its way in `requests`, that its plan was
  offered; and of each waiting run that its plan was queued to the webhooks. It gives `ApprovalsWereOffered` and
  `WaitingRunsAreAnnounced`.

* `ServiceKeepsContract`: every step of `RunService` is a step of `Approval` or a stutter, under the mapping. Lemmas (`...Reads`) say what the steps do to the tables as the contract
  reads them. The commits need `ServiceInv`: that a precheck proceeds with the approved plan is `ConvInv`; that nothing has been applied yet when it proceeds, or when an
  approval is withdrawn, is `ConvInv` and `KeyInv` together (`PrecheckedRunIsUntouched`); that what is approved was offered is `OfferInv`.

`FinishedRunsStay` and `ActiveRunIsUnique` are not checked by a run of their own: the contract implies them (`Move`, `StackIsFree`).

`StablehandProofs`:

* `SystemInv` adds `HolderInv` (a standing token's execution is active),
  `CheckedInv` (a run with an apply never goes back to be checked), and
  `SeenInv`, on what a stale copy still tells: a run seen checking has only check executions, one
  seen applying was checked, and the run of a standing token was seen running when the poll selected it. Without `SeenInv`
  the poll might close the row of a run it does not fail.
* `SystemImplementsService`: every step of the system is a step of
  `RunService` or leaves its tables alone. With it, `SystemIsSafe` carries the service's safety over, and
  `SystemKeepsContract` the contract: two refinements on top of each other.
* `HoldersStayActive`: `_sweep_unstarted` has nothing to catch.
* `ChecksAreGivenUpLate`: a poll revokes the tokens of a run's phase, not that of the execution it polls. For a check the two are the
  same, because a run is dispatched to be checked once (`CheckedOnce`: a run that was issued a token has left `check_queued` for good).
  For an apply they are not: see the first finding.

`OutboxProofs`:

* `TypeInv` is `OutboxTypeOK` with `AttemptsLeft`: a pending row has attempts left, or the number of its next one would leave its range.
* `SettledRowsStay` needs nothing more: only a pending row is written.
* `Counted` (numbers of attempts never run ahead of sends, in rows and in ticks) gives `SettlingHasAReason`. It holds whatever
  becomes of the lock: a stale worker may set a count back, never ahead.
* `Exclusive`, `Fresh` and `Balance`: until the lock is lost, ticks run in one worker only, the row in its hands stays as it was loaded, and
  each send but those of interrupted ticks is in its count. That gives `DuplicatesComeFromCrashes`.
* `OutboxKeepsPromise`: every step is a step of `Channel` or a stutter. A send needs `Fresh` (the row was queued) and `Undisturbed` of
  `Balance` (until a lock is lost it is pending still, or deleted); a store needs `Counted`. `SettledRowsStay` is implied.

`ScheduleProofs`:

* `ChecksAreOpenedOnce` rests on four parts: what was opened lies in the past of the clock (`OpenedInThePast`), and the next time of the table, of the
  session's copy, and of the row in hand is later than all that was opened (`TableIsAhead`, `SessionIsAhead`, `HandIsAhead`). The copies
  matter: a form may put another time in the table while the worker holds an older one.

`CatalogProofs`:

* `TypeInv` is `CatalogTypeOK` with `Kept` (a stack that was loaded stays) and `LinksExist`.
* `Fresh`: what a request that is not stale has loaded is as it was, or deleted. With it a save writes the form that was checked:
  `SourcesKeepTheirRules`, `StacksKeepTheirRules`. `LinksExist` keeps a source from being created under a stack.

`AccountsProofs`:

* `UsersAreVouchedFor`, `UsersStandAsAsked` and `AdminsAreLostToOverlaps` rest on what a request under way may rely on: the user it names is
  there (`KnownInv`); whom it may sign in or leave enabled was vouched for (`VouchInv`); and unless it is late, the row it read is still
  the user's, and the admin it counted besides the one it removes is still one (`FreshInv`).

`CredentialsProofs`:

* `LeftoversHaveReasons`: each credential without a reason has somebody who will still take it away. The invariant says who, by the step
  of the worker and the status of the row: an execution nobody has started has none (`FreshIsUntouched`), one worker starts it (`OneStarter`), a start that failed has been cleaned (`FailedIsClean`), what a
  recovery missed is still being made (`LostIsBeingMade`, `LocalIsBeingMade`), and what is left of a closed row is in a worker's hand or
  excused (`ClosedIsBeingKept`).

`PlansProofs`:

* The first half is about the operators. A block has no other start in it (`SliceProperties`, with `LeastNumber` for the CHOOSE of
  `End`), so whether it is kept is decided by its first line (`BlocksProperties`), and the blocks of a check begin with exactly those
  parts of the fleet's diffs that are no mere removed line (`BlocksOfCheck`). Where a report on a fleet puts each change and each
  block is worked out position by position (`OperationsDomain`, `ChangePlacesProperties`, `DiffPlacesProperties`). Then `ShownIsTruth`: what a check's
  document shows is `Truth` of the fleet, in any order; no block is lost, since one that names nobody goes to the first
  host, and there is one (`NoBlockIsLost`).
* `FingerprintComparesFleets`: equal fingerprints show the same (`FingerprintShows`, the domain of a bag is the range of its list), so
  their fleets need the same. Conversely the fingerprint of a check with an inventory is a function of what pyinfra found and of the blocks it printed
  (`Expected`, `FingerprintIsExpected`): each change occurs once and each block as often as it was printed, which is counted with bijections between
  positions (`ChangesAreCounted`, `DiffsAreCounted`). Without the inventory it is not: a block that names nobody goes to another host. Nor is it a function
  of the fleet alone, since blocks take in what is printed behind them.
* `RowInv` is `PlansTypeOK` with two links that it needs to be inductive: the fingerprint of an open run is that of its document, the empty
  one too, and that of a run whose check listed the inventory is what its finding tells. `OnlyReviewed` and `OnlyDrift` follow with the two halves of
  `FingerprintComparesFleets`.
* `VerdictIsOfTheFleet`: with an inventory, a check says "unchanged" exactly if nothing is needed and nobody was complained about. So the
  exit code decides nothing and the branch at `runs/service.py:176` is dead, as `CheckVerdict` of `RunService` has it.
* `UnchangedClean` and `SuccessHides` follow one report through `Status`: a host pyinfra examined with a change to make is `change` in the
  document of a check, and one with a change left after an apply has had an error or was lost, which is `failed` or `unreachable`.

Only model-checked are the liveness properties, which are out of the prover's reach: `RunningEnds`, `ApprovedIsDispatched`, `EveryDeliverySettles`,
`DueStacksAreTreated` and `CredentialsGo`. Every other property of a passing run has a theorem.

## Left out

* Text: logs, errors, reasons, pages, timeline. Limits, commits, git and secrets are data.
* CI tokens: a token opens a run or does not, by one SELECT in the transaction that opens it; creation and revocation are single statements
  that meet nothing else.
* The OIDC protocol: HTTP calls and the checks of a JWT library. `Accounts` takes from it that it vouches for a subject and an address.
* Migrations, which run before any process.
* Deleting stacks and users (there is no route).
* Two workers at once outside of `Outbox` and `Credentials`: `Stablehand` and `Schedule` have one.
* Two admins who save one stack's schedule at a time. A form that clears a schedule while the worker resolves may
  leave a next time without an expression, which `StartTick` passes over.
* Names and their uniqueness, approvers, deploy keys' text, the secrets of runtimes, groups and passwords of users.
* Which text the regular expressions of `plans/normalize.py` match: `Part`, `Git`, `Plus` and the hosts as texts of complaints say which lines
  they find. A line of a diff that reads like a connection error, a log line that reads like the start of a diff or has a `+++` in
  it, and a block that is no more than `---` once it is stripped are not modelled.
* A webhook deleted while a run is put up for approval: the INSERT of its row fails, and the upload with it.
* A runner that hangs (`runner/main.py:49`): `RunnerExits` assumes it away.

## Plan

Done: every module above, and the proofs of all safety properties.

1. A second worker and runtimes edited in mid-run (`worker.py:306`) inside `Stablehand`: `Credentials` shows the first by itself.
2. Migration 0005, which splits stacks into sources and runtimes, as an algorithm on small tables.
3. Proofs: that the verdicts of `Plans`, seen as a fingerprint and four flags, are those of `RunService`; and the contract of `Approval` for `Plans`.
