----------------------------- MODULE Credentials -----------------------------
(***************************************************************************)
(* What an execution leaves outside the database while it lasts: the run    *)
(* token and the git deploy key in a Kubernetes Secret beside the Job, or   *)
(* the key in a file beside the local process (executors/, and the part of  *)
(* worker.py that starts, recovers and closes executions).                  *)
(*                                                                         *)
(* A worker keeps one execution in hand at a time.  Two workers are at work *)
(* only when the advisory lock was lost with its connection.  A tick that   *)
(* an exception ends is a crash of the worker: it goes on with an idle one. *)
(* Every stack has a deploy key and keeps its executor (Catalog has the     *)
(* edits); the run's states are Stablehand's.                               *)
(***************************************************************************)
EXTENDS Naturals

CONSTANTS
    Execution,
    Local,          \* executions of the local executor; the others have a Job
    Worker,
    NoExecution,
    MaxFaults,      \* bound: crashes and errors of the Kubernetes API
    MaxLosses       \* bound: losses of the advisory lock

ASSUME CredentialsAssumption ==
    /\ Local \subseteq Execution
    /\ NoExecution \notin Execution
    /\ MaxFaults \in Nat /\ MaxLosses \in Nat

VARIABLES
    rows,           \* table executions: its status
    moved,          \* executions whose run has left their phase
    jobs,           \* the Job or the process
    credentials,    \* executions with a Secret or a key file
    workers,        \* what each worker has in hand
    faults, losses,
    why             \* history: what may have kept each execution's credential

vars == <<rows, moved, jobs, credentials, workers, faults, losses, why>>

-----------------------------------------------------------------------------
Status == {"none", "pending", "running", "finished", "failed"}

\* waiting: the Job has no pod that runs, which takes the Secret.
Job == {"none", "waiting", "alive", "exited"}

\* secret, job, record: before the executor makes each of the two, and before
\* the reference is committed; failed: before a failed start is; look: before
\* the Job is looked for; found, lost: before that is committed; close: before
\* the end is committed, clean: before the clean-up.
Step == {"idle", "secret", "job", "record", "failed", "look", "found", "lost",
         "close", "clean"}

Reason == {"delete", "crash", "late", "overwritten"}

CredentialsTypeOK ==
    /\ rows \in [Execution -> Status]
    /\ moved \subseteq Execution
    /\ jobs \in [Execution -> Job]
    /\ credentials \subseteq Execution
    /\ workers \in [Worker -> [step : Step, hand : Execution \cup {NoExecution}]]
    /\ faults \in 0..MaxFaults /\ losses \in 0..MaxLosses
    /\ why \in [Execution -> SUBSET Reason]
    /\ \A w \in Worker : workers[w].step = "idle" <=> workers[w].hand = NoExecution

Idle == [step |-> "idle", hand |-> NoExecution]

Init ==
    /\ rows = [e \in Execution |-> "none"]
    /\ moved = {} /\ credentials = {}
    /\ jobs = [e \in Execution |-> "none"]
    /\ workers = [w \in Worker |-> Idle]
    /\ faults = 0 /\ losses = 0
    /\ why = [e \in Execution |-> {}]

Closed(e) == rows[e] \in {"finished", "failed"}

Hand(w) == workers[w].hand

At(w, step) == workers[w].step = step

GoTo(w, step) == workers' = [workers EXCEPT ![w].step = step]

Release(w) == workers' = [workers EXCEPT ![w] = Idle]

Fault == faults < MaxFaults /\ faults' = faults + 1

Excuse(e, reason) == why' = [why EXCEPT ![e] = @ \cup {reason}]

\* An idle worker has the lock, or took it when another one lost it.
HasLock(w) ==
    /\ At(w, "idle")
    /\ \/ /\ \A v \in Worker : At(v, "idle")
          /\ UNCHANGED losses
       \/ /\ \E v \in Worker : ~At(v, "idle")
          /\ losses < MaxLosses
          /\ losses' = losses + 1

\* A worker turns to e.
Take(w, step, e) ==
    /\ HasLock(w)
    /\ workers' = [workers EXCEPT ![w] = [step |-> step, hand |-> e]]

\* _delete_job and _delete_secret, whose errors are only logged.
DeleteBoth(e) ==
    \/ /\ jobs' = [jobs EXCEPT ![e] = IF e \in Local THEN @ ELSE "none"]
       /\ credentials' = credentials \ {e}
       /\ UNCHANGED <<faults, why>>
    \/ /\ Fault
       /\ jobs' = [jobs EXCEPT ![e] = IF e \in Local THEN @ ELSE "none"]
       /\ Excuse(e, "delete")
       /\ UNCHANGED credentials

-----------------------------------------------------------------------------
(* Starting.                                                               *)

\* _dispatch commits the claim of a run.
Dispatch(w, e) ==
    /\ rows[e] = "none"
    /\ rows' = [rows EXCEPT ![e] = "pending"]
    /\ Take(w, "secret", e)
    /\ UNCHANGED <<moved, jobs, credentials, faults, why>>

\* The Secret is created, or the key file written.
CreateSecret(w) ==
    /\ At(w, "secret")
    /\ credentials' = credentials \cup {Hand(w)}
    /\ GoTo(w, "job")
    /\ UNCHANGED <<rows, moved, jobs, faults, losses, why>>

CreateJob(w) ==
    /\ At(w, "job")
    /\ jobs' = [jobs EXCEPT ![Hand(w)] = IF Hand(w) \in Local THEN "alive" ELSE "waiting"]
    /\ GoTo(w, "record")
    /\ UNCHANGED <<rows, moved, credentials, faults, losses, why>>

\* start() raises, after the object was created or without, and takes away
\* what it may have made.
StartRaises(w) ==
    /\ workers[w].step \in {"secret", "job"}
    /\ DeleteBoth(Hand(w))
    /\ GoTo(w, "failed")
    /\ UNCHANGED <<rows, moved, losses>>

\* The row is closed, whatever its status has become.
CommitStartFailure(w) ==
    /\ At(w, "failed")
    /\ rows' = [rows EXCEPT ![Hand(w)] = "failed"]
    /\ moved' = moved \cup {Hand(w)}
    /\ Release(w)
    /\ UNCHANGED <<jobs, credentials, faults, losses, why>>

\* The execution is noted as running but not let go.
BugRecord(w) ==
    /\ At(w, "record")
    /\ rows' = [rows EXCEPT ![Hand(w)] = "running"]
    /\ GoTo(w, "idle")
    /\ UNCHANGED <<moved, jobs, credentials, faults, losses, why>>

\* The session has held the row since before start(), and session.get does not
\* read it again: the test for a pending row passes whatever it has become.
Record(w) ==
    /\ At(w, "record")
    /\ rows' = [rows EXCEPT ![Hand(w)] = "running"]
    /\ Release(w)
    /\ UNCHANGED <<moved, jobs, credentials, faults, losses, why>>

-----------------------------------------------------------------------------
(* Recovering an execution that has been pending for PENDING_GRACE.         *)

RecoverTooLate(w, e) ==
    /\ rows[e] = "pending" /\ e \in moved
    /\ HasLock(w)
    /\ rows' = [rows EXCEPT ![e] = "failed"]
    /\ Excuse(e, "late")
    /\ UNCHANGED <<moved, jobs, credentials, workers, faults>>

Recover(w, e) ==
    /\ rows[e] = "pending" /\ e \notin moved
    /\ Take(w, "look", e)
    /\ UNCHANGED <<rows, moved, jobs, credentials, faults, why>>

LookFinds(w) ==
    /\ At(w, "look")
    /\ Hand(w) \notin Local /\ jobs[Hand(w)] # "none"
    /\ GoTo(w, "found")
    /\ UNCHANGED <<rows, moved, jobs, credentials, faults, losses, why>>

\* The Secret of a Job that is not there is left alone.
BugLookMisses(w) ==
    /\ At(w, "look")
    /\ Hand(w) \in Local \/ jobs[Hand(w)] = "none"
    /\ GoTo(w, "lost")
    /\ UNCHANGED <<rows, moved, jobs, credentials, faults, losses, why>>

\* The local executor recovers nothing.
LookMisses(w) ==
    /\ At(w, "look")
    /\ Hand(w) \in Local \/ jobs[Hand(w)] = "none"
    /\ GoTo(w, "lost")
    /\ IF Hand(w) \in Local
       THEN UNCHANGED <<jobs, credentials, faults, why>>
       ELSE DeleteBoth(Hand(w))
    /\ UNCHANGED <<rows, moved, losses>>

\* The row is written whatever it has become since it was loaded, as in Record:
\* a start that ended meanwhile is overwritten.
CommitRecovery(w) ==
    /\ workers[w].step \in {"found", "lost"}
    /\ rows' = [rows EXCEPT ![Hand(w)] = IF At(w, "found") THEN "running" ELSE "failed"]
    /\ moved' = IF At(w, "lost") THEN moved \cup {Hand(w)} ELSE moved
    /\ IF At(w, "lost") /\ rows[Hand(w)] = "running"
       THEN Excuse(Hand(w), "overwritten")
       ELSE UNCHANGED why
    /\ Release(w)
    /\ UNCHANGED <<jobs, credentials, faults, losses>>

-----------------------------------------------------------------------------
(* Polling.                                                                *)

\* Only a run that has moved is polled to its end.
BugPoll(w, e) ==
    /\ rows[e] = "running" /\ jobs[e] = "exited" /\ e \in moved
    /\ Take(w, "close", e)
    /\ UNCHANGED <<rows, moved, jobs, credentials, faults, why>>

\* The process or the Job has ended, and its run has moved or GRACE is over.
Poll(w, e) ==
    /\ rows[e] = "running" /\ jobs[e] = "exited"
    /\ Take(w, "close", e)
    /\ UNCHANGED <<rows, moved, jobs, credentials, faults, why>>

Close(w) ==
    /\ At(w, "close")
    /\ rows' = [rows EXCEPT ![Hand(w)] = "finished"]
    /\ moved' = moved \cup {Hand(w)}
    /\ GoTo(w, "clean")
    /\ UNCHANGED <<jobs, credentials, faults, losses, why>>

CleanUp(w) ==
    /\ At(w, "clean")
    /\ DeleteBoth(Hand(w))
    /\ Release(w)
    /\ UNCHANGED <<rows, moved, losses>>

-----------------------------------------------------------------------------
(* What happens on its own.                                                *)

\* The kubelet starts the pod once the Secret it names exists.
PodStarts(e) ==
    /\ jobs[e] = "waiting" /\ e \in credentials
    /\ jobs' = [jobs EXCEPT ![e] = "alive"]
    /\ UNCHANGED <<rows, moved, credentials, workers, faults, losses, why>>

\* The runner uploads the result that ends its phase, if the token still holds.
Upload(e) ==
    /\ jobs[e] = "alive" /\ e \notin moved
    /\ moved' = moved \cup {e}
    /\ UNCHANGED <<rows, jobs, credentials, workers, faults, losses, why>>

RunnerExits(e) ==
    /\ jobs[e] = "alive"
    /\ jobs' = [jobs EXCEPT ![e] = "exited"]
    /\ UNCHANGED <<rows, moved, credentials, workers, faults, losses, why>>

\* ttl_seconds_after_finished: the Job goes, and nothing else with it.
JobExpires(e) ==
    /\ e \notin Local /\ jobs[e] = "exited"
    /\ jobs' = [jobs EXCEPT ![e] = "none"]
    /\ UNCHANGED <<rows, moved, credentials, workers, faults, losses, why>>

\* A worker that dies with a row closed leaves its credential for good; so does
\* one that dies with a key file the row does not name, or with a Secret made
\* after another worker has looked for its Job.
Crash(w) ==
    /\ ~At(w, "idle")
    /\ Fault
    /\ IF /\ Hand(w) \in credentials
          /\ \/ Closed(Hand(w))
             \/ Hand(w) \in Local /\ workers[w].step \in {"job", "record"}
             \/ \E v \in Worker \ {w} : Hand(v) = Hand(w)
       THEN Excuse(Hand(w), "crash")
       ELSE UNCHANGED why
    /\ Release(w)
    /\ UNCHANGED <<rows, moved, jobs, credentials, losses>>

-----------------------------------------------------------------------------
\* What a worker does with the execution in its hand.
Proceed(w) ==
    \/ CreateSecret(w) \/ CreateJob(w) \/ StartRaises(w) \/ CommitStartFailure(w)
    \/ Record(w)
    \/ LookFinds(w) \/ LookMisses(w) \/ CommitRecovery(w)
    \/ Close(w) \/ CleanUp(w)

Turn(w, e) == RecoverTooLate(w, e) \/ Recover(w, e) \/ Poll(w, e)

Next ==
    \/ \E w \in Worker : Proceed(w) \/ Crash(w)
    \/ \E w \in Worker, e \in Execution : Dispatch(w, e) \/ Turn(w, e)
    \/ \E e \in Execution : PodStarts(e) \/ Upload(e) \/ RunnerExits(e) \/ JobExpires(e)

Spec == Init /\ [][Next]_vars

\* A tick comes round to every execution again and again; calls of the
\* Kubernetes API return, pods start and runners exit.
FairSpec ==
    /\ Spec
    /\ \A w \in Worker : WF_vars(Proceed(w))
    /\ \A e \in Execution :
        /\ SF_vars(\E w \in Worker : Turn(w, e))
        /\ WF_vars(PodStarts(e)) /\ WF_vars(RunnerExits(e))

-----------------------------------------------------------------------------
InHand(e) == \E w \in Worker : Hand(w) = e

\* A closed execution leaves a credential behind only after a deletion that
\* failed, a crash at the wrong moment, a recovery that came too late, or one that
\* overwrote another worker's start (executors/kubernetes.py 107-119, 140-146,
\* executors/local.py 28-37, worker.py 198-216, 245-271, 322-328).
LeftoversAreExcused ==
    \A e \in Execution :
        Closed(e) /\ e \in credentials /\ ~InHand(e) => why[e] # {}

\* The row of a Job that expired before a poll saw it stays running for good.
Unpolled(e) == rows[e] = "running" /\ jobs[e] = "none"

\* A credential goes in the end, or one of these reasons has kept it, whatever
\* other crash or error came between the start and the clean-up.
CredentialsGo ==
    \A e \in Execution :
        e \in credentials ~> e \notin credentials \/ why[e] # {} \/ Unpolled(e)
=============================================================================
