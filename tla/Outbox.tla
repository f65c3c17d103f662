------------------------------- MODULE Outbox -------------------------------
(***************************************************************************)
(* The webhook outbox: how the rows that enqueue_needs_approval queued      *)
(* (Enqueue of RunService) are sent (worker.py _deliver_webhooks,           *)
(* integrations/service.py send_delivery).                                  *)
(*                                                                         *)
(* Delivery is the last phase of a tick.  It selects the due rows once and  *)
(* treats them in the order of their creation, each in three transactions:  *)
(* load, send outside of any, store.  Several workers may be deployed; a    *)
(* tick runs in the one whose database session got the advisory lock.  The  *)
(* lock is never given back: it goes when the connection does, which a      *)
(* pooled session notices by silently opening another one.                  *)
(***************************************************************************)
EXTENDS Naturals, FiniteSets

CONSTANTS
    Delivery,       \* ids of the rows, numbered by created_at
    Webhook,
    HookOf,         \* the integration of each row
    Unsendable,     \* bound: the webhooks that may be saved with a URL that
                    \* httpx cannot parse
    Worker, NoWorker,
    MaxAttempts,    \* 10 in the code
    Batch,          \* 20 in the code
    MaxCrashes,     \* bound on interrupted ticks
    MaxLosses       \* bound on database connections lost with the lock

ASSUME OutboxAssumption ==
    /\ Delivery \subseteq Nat
    /\ HookOf \in [Delivery -> Webhook]
    /\ Unsendable \subseteq Webhook
    /\ NoWorker \notin Worker
    /\ MaxAttempts \in Nat \ {0}
    /\ Batch \in Nat \ {0}
    /\ MaxCrashes \in Nat
    /\ MaxLosses \in Nat

VARIABLES
    rows,           \* table integration_deliveries
    hooks,          \* table integrations
    lock,           \* the worker whose connection has the advisory lock
    ticks,          \* the tick of each worker process
    sent,           \* how often each delivery was sent, or tried to be
    accepted,       \* deliveries a webhook has answered with success
    crashes, losses

tables == <<rows, hooks>>
history == <<sent, accepted>>
bounds == <<crashes, losses>>
vars == <<tables, lock, ticks, history, bounds>>

-----------------------------------------------------------------------------
\* due: next_attempt_at has passed.
DeliveryRow == [status : {"none", "pending", "delivered", "failed", "deleted"},
                attempts : 0 .. MaxAttempts,
                due : BOOLEAN]

\* sendable: if not, send_delivery raises another exception than WebhookError.
Hook == [state : {"absent", "enabled", "deleted"}, sendable : BOOLEAN]

\* delivering: between two rows; joining: the row is read, its integration not;
\* answered, refused: send_delivery has returned, or raised WebhookError.
\* todo: the selected rows that are not treated yet.
\* attempt: the number of the attempt at the row that is treated.
Tick == [step : {"idle", "reconciling", "delivering", "joining", "sending",
                 "answered", "refused"},
         todo : SUBSET Delivery,
         attempt : 0 .. MaxAttempts]

Resting == [step |-> "idle", todo |-> {}, attempt |-> 0]

OutboxTypeOK ==
    /\ rows \in [Delivery -> DeliveryRow]
    /\ hooks \in [Webhook -> Hook]
    /\ lock \in Worker \cup {NoWorker}
    /\ ticks \in [Worker -> Tick]
    /\ sent \in [Delivery -> Nat]
    /\ accepted \subseteq Delivery
    /\ crashes \in 0 .. MaxCrashes
    /\ losses \in 0 .. MaxLosses

Init ==
    /\ rows = [d \in Delivery |-> [status |-> "none", attempts |-> 0, due |-> FALSE]]
    /\ hooks = [h \in Webhook |-> [state |-> "absent", sendable |-> TRUE]]
    /\ lock = NoWorker
    /\ ticks = [w \in Worker |-> Resting]
    /\ sent = [d \in Delivery |-> 0]
    /\ accepted = {}
    /\ crashes = 0
    /\ losses = 0

Pending(d) == rows[d].status = "pending"

Sendable(d) == hooks[HookOf[d]].sendable

\* w is at `step` with the row d, the oldest it has not treated.
At(w, step, d) ==
    /\ ticks[w].step = step
    /\ d \in ticks[w].todo
    /\ \A x \in ticks[w].todo : d <= x

GoTo(w, step) == ticks' = [ticks EXCEPT ![w].step = step]

\* w is done with d and goes on with the next row.
Treated(w, d) ==
    ticks' = [ticks EXCEPT ![w] = [step |-> "delivering", todo |-> @.todo \ {d},
                                   attempt |-> 0]]

-----------------------------------------------------------------------------
(* Webhooks and rows.  No route edits or disables a webhook.               *)

SaveWebhook(h, sendable) ==
    /\ hooks[h].state = "absent"
    /\ sendable \/ h \in Unsendable
    /\ hooks' = [hooks EXCEPT ![h] = [state |-> "enabled", sendable |-> sendable]]
    /\ UNCHANGED <<rows, lock, ticks, history, bounds>>

\* The rows of a webhook go with it (cascade, and ON DELETE CASCADE).
DeleteWebhook(h) ==
    /\ hooks[h].state = "enabled"
    /\ hooks' = [hooks EXCEPT ![h].state = "deleted"]
    /\ rows' = [d \in Delivery |->
                    IF HookOf[d] = h /\ rows[d].status # "none"
                    THEN [rows[d] EXCEPT !.status = "deleted", !.due = FALSE]
                    ELSE rows[d]]
    /\ UNCHANGED <<lock, ticks, history, bounds>>

\* A run came to needs_approval.  created_at is the time its transaction began:
\* a row may appear after younger ones.
Queue(d) ==
    /\ rows[d].status = "none"
    /\ hooks[HookOf[d]].state = "enabled"
    /\ rows' = [rows EXCEPT ![d] = [status |-> "pending", attempts |-> 0, due |-> TRUE]]
    /\ UNCHANGED <<hooks, lock, ticks, history, bounds>>

DelayPasses(d) ==
    /\ Pending(d)
    /\ ~ rows[d].due
    /\ rows' = [rows EXCEPT ![d].due = TRUE]
    /\ UNCHANGED <<hooks, lock, ticks, history, bounds>>

-----------------------------------------------------------------------------
(* The tick of a worker.                                                   *)

\* Every connection gets it, as with SQLite.
BugAcquire(w) ==
    /\ ticks[w].step = "idle"
    /\ lock' = w
    /\ GoTo(w, "reconciling")
    /\ UNCHANGED <<tables, history, bounds>>

\* A connection gets a lock it already has.
Acquire(w) ==
    /\ ticks[w].step = "idle"
    /\ lock \in {w, NoWorker}
    /\ lock' = w
    /\ GoTo(w, "reconciling")
    /\ UNCHANGED <<tables, history, bounds>>

\* The limit counts the rows that are settled, too: a younger row stays out.
BugSelect(w) ==
    LET due == {d \in Delivery : Pending(d) /\ rows[d].due}
        queued == {d \in Delivery : rows[d].status # "none"} IN
    /\ ticks[w].step = "reconciling"
    /\ ticks' = [ticks EXCEPT
                    ![w].step = "delivering",
                    ![w].todo = {d \in due : Cardinality({x \in queued : x < d}) < Batch}]
    /\ UNCHANGED <<tables, lock, history, bounds>>

\* The other phases of the tick have passed.
Select(w) ==
    LET due == {d \in Delivery : Pending(d) /\ rows[d].due} IN
    /\ ticks[w].step = "reconciling"
    /\ ticks' = [ticks EXCEPT
                    ![w].step = "delivering",
                    ![w].todo = {d \in due : Cardinality({x \in due : x < d}) < Batch}]
    /\ UNCHANGED <<tables, lock, history, bounds>>

Skip(w, d) ==
    /\ At(w, "delivering", d)
    /\ ~ Pending(d)
    /\ Treated(w, d)
    /\ UNCHANGED <<tables, lock, history, bounds>>

\* The row of the selection is taken as it is.
BugLoad(w, d) ==
    /\ At(w, "delivering", d)
    /\ ticks' = [ticks EXCEPT ![w].step = "joining", ![w].attempt = rows[d].attempts + 1]
    /\ UNCHANGED <<tables, lock, history, bounds>>

Load(w, d) ==
    /\ At(w, "delivering", d)
    /\ Pending(d)
    /\ ticks' = [ticks EXCEPT ![w].step = "joining", ![w].attempt = rows[d].attempts + 1]
    /\ UNCHANGED <<tables, lock, history, bounds>>

\* selectinload reads the integration in a second statement.
Join(w, d) ==
    /\ At(w, "joining", d)
    /\ hooks[HookOf[d]].state = "enabled"
    /\ GoTo(w, "sending")
    /\ UNCHANGED <<tables, lock, history, bounds>>

\* It was deleted since: delivery.integration is None, and the tick ends there.
JoinFails(w, d) ==
    /\ At(w, "joining", d)
    /\ hooks[HookOf[d]].state # "enabled"
    /\ ticks' = [ticks EXCEPT ![w] = Resting]
    /\ UNCHANGED <<tables, lock, history, bounds>>

SendSucceeds(w, d) ==
    /\ At(w, "sending", d)
    /\ Sendable(d)
    /\ sent' = [sent EXCEPT ![d] = @ + 1]
    /\ accepted' = accepted \cup {d}
    /\ GoTo(w, "answered")
    /\ UNCHANGED <<tables, lock, bounds>>

\* WebhookError: no connection, an error status, or no answer in ten seconds,
\* which leaves open whether the webhook has accepted it.
SendFails(w, d) ==
    /\ At(w, "sending", d)
    /\ Sendable(d)
    /\ sent' = [sent EXCEPT ![d] = @ + 1]
    /\ GoTo(w, "refused")
    /\ UNCHANGED <<tables, lock, accepted, bounds>>

\* Any other exception leaves _deliver_webhooks and ends the tick.
SendRaises(w, d) ==
    /\ At(w, "sending", d)
    /\ ~ Sendable(d)
    /\ ticks' = [ticks EXCEPT ![w] = Resting]
    /\ UNCHANGED <<tables, lock, history, bounds>>

StoreDelivered(w, d) ==
    /\ At(w, "answered", d)
    /\ rows' = IF Pending(d)
               THEN [rows EXCEPT ![d] = [@ EXCEPT !.status = "delivered",
                                                  !.attempts = ticks[w].attempt]]
               ELSE rows
    /\ Treated(w, d)
    /\ UNCHANGED <<hooks, lock, history, bounds>>

\* The UPDATE of a failed attempt, if it finds the row.
RecordFailure(w, d, found, terminal) ==
    /\ At(w, "refused", d)
    /\ rows' = IF found
               THEN [rows EXCEPT ![d] = [status |-> IF terminal THEN "failed" ELSE "pending",
                                         attempts |-> ticks[w].attempt, due |-> FALSE]]
               ELSE rows
    /\ Treated(w, d)
    /\ UNCHANGED <<hooks, lock, history, bounds>>

\* One attempt too few.
BugStoreFailure(w, d) ==
    RecordFailure(w, d, Pending(d), ticks[w].attempt + 1 >= MaxAttempts)

\* An UPDATE that does not ask for a pending row.
BugBlindStore(w, d) ==
    RecordFailure(w, d, rows[d].status # "deleted", ticks[w].attempt >= MaxAttempts)

StoreFailure(w, d) ==
    RecordFailure(w, d, Pending(d), ticks[w].attempt >= MaxAttempts)

Finish(w) ==
    /\ ticks[w].step = "delivering"
    /\ ticks[w].todo = {}
    /\ ticks' = [ticks EXCEPT ![w] = Resting]
    /\ UNCHANGED <<tables, lock, history, bounds>>

-----------------------------------------------------------------------------
(* Faults.                                                                 *)

\* The process dies, and its connection with it, or the database raises an
\* error that ends the tick.  A send that was under way may have arrived.
Interrupt(w) ==
    /\ crashes < MaxCrashes
    /\ ticks[w].step # "idle"
    /\ crashes' = crashes + 1
    /\ ticks' = [ticks EXCEPT ![w] = Resting]
    /\ lock' \in {lock, IF lock = w THEN NoWorker ELSE lock}
    /\ \/ UNCHANGED sent
       \/ \E d \in Delivery : /\ At(w, "sending", d)
                              /\ Sendable(d)
                              /\ sent' = [sent EXCEPT ![d] = @ + 1]
    /\ UNCHANGED <<tables, accepted, losses>>

\* The connection is lost while it waits in the pool; pre_ping replaces it and
\* the tick goes on.  In a transaction the loss is an Interrupt.
LoseLock(w) ==
    /\ losses < MaxLosses
    /\ lock = w
    /\ ticks[w].step # "joining"
    /\ lock' = NoWorker
    /\ losses' = losses + 1
    /\ UNCHANGED <<tables, ticks, history, crashes>>

-----------------------------------------------------------------------------
RowStep(w, d) ==
    \/ Skip(w, d) \/ Load(w, d) \/ Join(w, d) \/ JoinFails(w, d)
    \/ SendSucceeds(w, d) \/ SendFails(w, d) \/ SendRaises(w, d)
    \/ StoreDelivered(w, d) \/ StoreFailure(w, d)

WorkerStep(w) ==
    \/ Acquire(w) \/ Select(w) \/ Finish(w)
    \/ \E d \in Delivery : RowStep(w, d)

Next ==
    \/ \E h \in Webhook :
          DeleteWebhook(h) \/ \E sendable \in BOOLEAN : SaveWebhook(h, sendable)
    \/ \E d \in Delivery : Queue(d) \/ DelayPasses(d)
    \/ \E w \in Worker : WorkerStep(w) \/ Interrupt(w) \/ LoseLock(w)

Spec == Init /\ [][Next]_vars

\* main() loops for ever, every send ends after its timeout, time passes.
FairSpec ==
    /\ Spec
    /\ \A w \in Worker : WF_vars(WorkerStep(w))
    /\ \A d \in Delivery : WF_vars(DelayPasses(d))

-----------------------------------------------------------------------------
(* Properties.                                                             *)

\* A row is delivered only if its webhook has accepted it, and failed only
\* after MaxAttempts sends, whichever workers counted the attempts:
\* attempts are numbered before the send and stored after it (worker.py:355,401).
SettledForAReason ==
    \A d \in Delivery :
        /\ rows[d].status = "delivered" => d \in accepted
        /\ rows[d].status = "failed" => sent[d] >= MaxAttempts

\* No worker writes a row that another one has settled, or brings back a row
\* that was deleted while it was sent: the UPDATEs ask for a pending row
\* (worker.py:374,393).
SettledIsFinal ==
    [][\A d \in Delivery :
           rows[d].status \in {"delivered", "failed", "deleted"} =>
               rows'[d].status \in {rows[d].status, "deleted"}]_vars

\* The outbox implements the contract of module Channel: rows are settled for
\* a reason and once, and nothing is sent before it is queued or, until a worker
\* has lost the lock, after it is settled (worker.py:350-405).
StatusOf == [d \in Delivery |-> rows[d].status]

Promise == INSTANCE Channel WITH
    fate <- StatusOf,
    tries <- sent,
    got <- accepted,
    single <- (losses = 0)

ChannelHolds == Promise!Spec

\* Deliveries are sent at least once, and more often than they count attempts
\* only by interrupted ticks, one each, as long as no worker lost the lock in
\* mid-tick (worker.py:72-78, 362-405).
Sending(d) == \E w \in Worker : At(w, "answered", d) \/ At(w, "refused", d)

DuplicatesAreCrashes ==
    losses = 0 =>
        \A d \in Delivery :
            rows[d].status \in {"pending", "delivered", "failed"} =>
                sent[d] <= rows[d].attempts + crashes + (IF Sending(d) THEN 1 ELSE 0)

\* Rows a webhook of which cannot be sent to block the ticks (worker.py:363): the
\* exception leaves the tick, and the row stays the oldest one that is due.
Unblocked(d) ==
    Pending(d) /\ \A x \in Delivery : Pending(x) => Sendable(x)

\* While every pending row can be sent, every delivery is settled in the end:
\* however often its webhook fails, whatever else is queued, and although a
\* tick is interrupted or a connection is lost with the lock (worker.py:388-405).
EveryDeliverySettles ==
    \A d \in Delivery : Unblocked(d) ~> ~ Unblocked(d)
=============================================================================
