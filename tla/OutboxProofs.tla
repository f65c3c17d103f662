---------------------------- MODULE OutboxProofs ----------------------------
(* Proofs about Outbox, for every set of rows, webhooks and workers and any  *)
(* number of attempts, crashes and lost locks.                              *)
EXTENDS Outbox, TLAPS

USE OutboxAssumption

\* A row that may be tried again has attempts left, so that the number of the
\* next one stays in its range.
AttemptsLeft == \A d \in Delivery : Pending(d) => rows[d].attempts < MaxAttempts

TypeInv == OutboxTypeOK /\ AttemptsLeft

\* Numbers of attempts never run ahead of the sends they stand for.
RowCounted(d) ==
    /\ rows[d].attempts <= sent[d]
    /\ rows[d].status = "delivered" => d \in accepted
    /\ rows[d].status = "failed" => rows[d].attempts = MaxAttempts

TickCounted(w, d) ==
    /\ At(w, "joining", d) \/ At(w, "sending", d) => ticks[w].attempt <= sent[d] + 1
    /\ At(w, "answered", d) \/ At(w, "refused", d) => ticks[w].attempt <= sent[d]
    /\ At(w, "answered", d) => d \in accepted

Counted == /\ \A d \in Delivery : RowCounted(d)
           /\ \A w \in Worker, d \in Delivery : TickCounted(w, d)

\* Until the lock was lost, a tick runs in its owner only.
Exclusive == losses = 0 => \A w \in Worker : ticks[w].step # "idle" => lock = w

\* ... so that the row in its hands changes by being deleted only.
InHand(w, d) ==
    At(w, "joining", d) \/ At(w, "sending", d) \/ At(w, "answered", d) \/ At(w, "refused", d)

Undisturbed ==
    losses = 0 =>
        \A w \in Worker, d \in Delivery :
            InHand(w, d) => \/ Pending(d) /\ ticks[w].attempt = rows[d].attempts + 1
                            \/ rows[d].status = "deleted"

\* Nothing is sent or selected before it is queued.
Fresh == /\ \A d \in Delivery : rows[d].status = "none" => sent[d] = 0
         /\ \A w \in Worker : \A d \in ticks[w].todo : rows[d].status # "none"

-----------------------------------------------------------------------------
(* Type correctness.                                                       *)

Step == {"idle", "reconciling", "delivering", "joining", "sending", "answered", "refused"}

LEMMA GoToEffect ==
    ASSUME OutboxTypeOK, NEW w \in Worker, NEW step \in Step, GoTo(w, step)
    PROVE  /\ ticks' \in [Worker -> Tick]
           /\ ticks'[w].step = step
           /\ \A v \in Worker : /\ v # w => ticks'[v] = ticks[v]
                                /\ ticks'[v].todo = ticks[v].todo
                                /\ ticks'[v].attempt = ticks[v].attempt
BY DEF OutboxTypeOK, GoTo, Tick, Step

LEMMA TreatedEffect ==
    ASSUME OutboxTypeOK, NEW w \in Worker, NEW d \in Delivery, Treated(w, d)
    PROVE  /\ ticks' \in [Worker -> Tick]
           /\ ticks'[w].step = "delivering" /\ ticks'[w].attempt = 0
           /\ ticks'[w].todo = ticks[w].todo \ {d}
           /\ \A v \in Worker : v # w => ticks'[v] = ticks[v]
BY DEF OutboxTypeOK, Treated, Tick

LEMMA RestingEffect ==
    ASSUME OutboxTypeOK, NEW w \in Worker, ticks' = [ticks EXCEPT ![w] = Resting]
    PROVE  /\ ticks' \in [Worker -> Tick]
           /\ ticks'[w].step = "idle" /\ ticks'[w].todo = {}
           /\ \A v \in Worker : v # w => ticks'[v] = ticks[v]
BY DEF OutboxTypeOK, Resting, Tick

\* Rows the selection may pick: their type is all that matters here.
LEMMA SelectEffect ==
    ASSUME OutboxTypeOK, NEW w \in Worker, Select(w)
    PROVE  /\ ticks' \in [Worker -> Tick]
           /\ ticks'[w].step = "delivering"
           /\ \A d \in ticks'[w].todo : d \in Delivery /\ Pending(d)
           /\ \A v \in Worker : v # w => ticks'[v] = ticks[v]
<1> DEFINE due == {d \in Delivery : Pending(d) /\ rows[d].due}
           chosen == {d \in due : Cardinality({x \in due : x < d}) < Batch}
<1>1. ticks' = [ticks EXCEPT ![w].step = "delivering", ![w].todo = chosen]
  BY DEF Select
<1>2. chosen \in SUBSET Delivery /\ \A d \in chosen : d \in Delivery /\ Pending(d)
  OBVIOUS
<1> HIDE DEF chosen
<1> QED
  BY <1>1, <1>2 DEF OutboxTypeOK, Tick

LEMMA LoadEffect ==
    ASSUME TypeInv, NEW w \in Worker, NEW d \in Delivery, Load(w, d)
    PROVE  /\ ticks' \in [Worker -> Tick]
           /\ ticks'[w].step = "joining" /\ ticks'[w].attempt = rows[d].attempts + 1
           /\ ticks'[w].todo = ticks[w].todo
           /\ \A v \in Worker : v # w => ticks'[v] = ticks[v]
<1>1. rows[d].attempts + 1 \in 0 .. MaxAttempts
  BY DEF TypeInv, OutboxTypeOK, AttemptsLeft, Load, DeliveryRow
<1>2. ticks' = [ticks EXCEPT ![w].step = "joining", ![w].attempt = rows[d].attempts + 1]
  BY DEF Load
<1> QED
  BY <1>1, <1>2 DEF TypeInv, OutboxTypeOK, Tick

LEMMA DeleteEffect ==
    ASSUME OutboxTypeOK, NEW h \in Webhook, DeleteWebhook(h)
    PROVE  /\ rows' \in [Delivery -> DeliveryRow]
           /\ \A d \in Delivery :
                 \/ rows'[d] = rows[d]
                 \/ /\ rows[d].status # "none" /\ rows'[d].status = "deleted"
                    /\ rows'[d].attempts = rows[d].attempts
<1>1. \A d \in Delivery : rows'[d] = IF HookOf[d] = h /\ rows[d].status # "none"
                                    THEN [rows[d] EXCEPT !.status = "deleted", !.due = FALSE]
                                    ELSE rows[d]
  BY DEF DeleteWebhook
<1>2. \A d \in Delivery : rows[d] \in DeliveryRow
  BY DEF OutboxTypeOK
<1>3. \A d \in Delivery : rows'[d] \in DeliveryRow
  BY <1>1, <1>2 DEF DeliveryRow
<1>4. rows' = [d \in Delivery |-> rows'[d]]
  BY DEF DeleteWebhook
<1>5. rows' \in [Delivery -> DeliveryRow]
  BY <1>3, <1>4
<1> QED
  BY <1>1, <1>2, <1>5 DEF DeliveryRow

LEMMA StoreEffect ==
    ASSUME TypeInv, NEW w \in Worker, NEW d \in Delivery,
           StoreDelivered(w, d) \/ StoreFailure(w, d)
    PROVE  /\ rows' \in [Delivery -> DeliveryRow]
           /\ \A x \in Delivery : x # d \/ ~ Pending(d) => rows'[x] = rows[x]
           /\ Pending(d) =>
                 /\ rows'[d].attempts = ticks[w].attempt
                 /\ rows'[d].status \in {"pending", "failed", "delivered"}
                 /\ rows'[d].status = "delivered" => At(w, "answered", d)
                 /\ rows'[d].status = "failed" => ticks[w].attempt = MaxAttempts
                 /\ rows'[d].status = "pending" => ticks[w].attempt < MaxAttempts
<1>1. ticks[w].attempt \in 0 .. MaxAttempts /\ rows[d] \in DeliveryRow
  BY DEF TypeInv, OutboxTypeOK, Tick
<1>2. CASE StoreDelivered(w, d)
  BY <1>1, <1>2 DEF StoreDelivered, TypeInv, OutboxTypeOK, DeliveryRow
<1>3. CASE StoreFailure(w, d)
  BY <1>1, <1>3 DEF StoreFailure, RecordFailure, TypeInv, OutboxTypeOK, DeliveryRow
<1> QED
  BY <1>2, <1>3

LEMMA InterruptEffect ==
    ASSUME OutboxTypeOK, NEW w \in Worker, Interrupt(w)
    PROVE  /\ crashes' = crashes + 1 /\ crashes' \in 0 .. MaxCrashes
           /\ lock' \in Worker \cup {NoWorker} /\ (lock # w => lock' = lock)
           /\ ticks[w].step # "idle"
           /\ sent' \in [Delivery -> Nat]
           /\ \A d \in Delivery : \/ sent'[d] = sent[d]
                                  \/ At(w, "sending", d) /\ sent'[d] = sent[d] + 1
<1>1. crashes' = crashes + 1 /\ crashes' \in 0 .. MaxCrashes
  BY DEF Interrupt, OutboxTypeOK
<1>2. lock' \in Worker \cup {NoWorker} /\ (lock # w => lock' = lock)
  BY DEF Interrupt, OutboxTypeOK
<1>3. CASE UNCHANGED sent
  BY <1>1, <1>2, <1>3 DEF Interrupt, OutboxTypeOK
<1>4. ASSUME NEW d \in Delivery, At(w, "sending", d), sent' = [sent EXCEPT ![d] = @ + 1]
      PROVE  /\ sent' \in [Delivery -> Nat]
             /\ \A x \in Delivery : \/ sent'[x] = sent[x]
                                    \/ At(w, "sending", x) /\ sent'[x] = sent[x] + 1
  BY <1>4 DEF OutboxTypeOK
<1> QED
  BY <1>1, <1>2, <1>3, <1>4 DEF Interrupt

LEMMA TypeInit == Init => TypeInv
BY DEF Init, TypeInv, OutboxTypeOK, AttemptsLeft, Pending, DeliveryRow, Hook, Tick, Resting

LEMMA TypeNext == TypeInv /\ [Next]_vars => TypeInv'
<1> SUFFICES ASSUME TypeInv, [Next]_vars PROVE TypeInv'
  OBVIOUS
<1> USE DEF TypeInv, OutboxTypeOK, AttemptsLeft, Pending, DeliveryRow,
        tables, history, bounds
<1>1. ASSUME NEW h \in Webhook, NEW sendable \in BOOLEAN, SaveWebhook(h, sendable) PROVE TypeInv'
  BY <1>1 DEF SaveWebhook, Hook
<1>2. ASSUME NEW h \in Webhook, DeleteWebhook(h) PROVE TypeInv'
  <2>1. hooks' \in [Webhook -> Hook]
    BY <1>2 DEF DeleteWebhook, Hook
  <2>2. UNCHANGED <<lock, ticks, sent, accepted, crashes, losses>>
    BY <1>2 DEF DeleteWebhook
  <2>3. /\ rows' \in [Delivery -> DeliveryRow]
        /\ \A d \in Delivery : rows'[d].status = "pending" => rows'[d] = rows[d]
    BY <1>2, DeleteEffect
  <2> QED
    BY <2>1, <2>2, <2>3
<1>3. ASSUME NEW d \in Delivery, Queue(d) PROVE TypeInv'
  BY <1>3 DEF Queue
<1>4. ASSUME NEW d \in Delivery, DelayPasses(d) PROVE TypeInv'
  BY <1>4 DEF DelayPasses
<1>5. ASSUME NEW w \in Worker, Acquire(w) PROVE TypeInv'
  BY <1>5, GoToEffect DEF Acquire, Step
<1>6. ASSUME NEW w \in Worker, Select(w) PROVE TypeInv'
  <2>1. UNCHANGED <<rows, hooks, lock, sent, accepted, crashes, losses>>
    BY <1>6 DEF Select
  <2> QED
    BY <1>6, <2>1, SelectEffect
<1>7. ASSUME NEW w \in Worker, Finish(w) PROVE TypeInv'
  BY <1>7, RestingEffect DEF Finish
<1>8. ASSUME NEW w \in Worker, NEW d \in Delivery, RowStep(w, d) PROVE TypeInv'
  <2>1. CASE Skip(w, d)
    BY <2>1, TreatedEffect DEF Skip
  <2>2. CASE Load(w, d)
    BY <2>2, LoadEffect DEF Load
  <2>3. CASE Join(w, d)
    BY <2>3, GoToEffect DEF Join, Step
  <2>4. CASE JoinFails(w, d)
    BY <2>4, RestingEffect DEF JoinFails
  <2>5. CASE SendSucceeds(w, d)
    BY <2>5, GoToEffect DEF SendSucceeds, Step
  <2>6. CASE SendFails(w, d)
    BY <2>6, GoToEffect DEF SendFails, Step
  <2>7. CASE SendRaises(w, d)
    BY <2>7, RestingEffect DEF SendRaises
  <2>8. CASE StoreDelivered(w, d) \/ StoreFailure(w, d)
    <3> HIDE DEF TypeInv, OutboxTypeOK, DeliveryRow
    <3>1. Treated(w, d) /\ UNCHANGED <<hooks, lock, sent, accepted, crashes, losses>>
      BY <2>8 DEF StoreDelivered, StoreFailure, RecordFailure
    <3>2. rows' \in [Delivery -> DeliveryRow]
      BY <2>8, StoreEffect
    <3>3. ticks' \in [Worker -> Tick]
      BY <3>1, TreatedEffect DEF TypeInv
    <3>4. OutboxTypeOK'
      BY <3>1, <3>2, <3>3 DEF TypeInv, OutboxTypeOK
    <3>5. \A x \in Delivery : x # d \/ ~ Pending(d) => rows'[x] = rows[x]
      BY <2>8, StoreEffect
    <3>6. Pending(d) /\ rows'[d].status = "pending" => rows'[d].attempts < MaxAttempts
      BY <2>8, StoreEffect
    <3>7. AttemptsLeft'
      BY <3>5, <3>6 DEF TypeInv
    <3> QED
      BY <3>4, <3>7 DEF TypeInv
  <2> QED
    BY <1>8, <2>1, <2>2, <2>3, <2>4, <2>5, <2>6, <2>7, <2>8 DEF RowStep
<1>9. ASSUME NEW w \in Worker, Interrupt(w) PROVE TypeInv'
  <2>1. UNCHANGED <<rows, hooks, accepted, losses>> /\ ticks' = [ticks EXCEPT ![w] = Resting]
    BY <1>9 DEF Interrupt
  <2> QED
    BY <1>9, <2>1, RestingEffect, InterruptEffect
<1>10. ASSUME NEW w \in Worker, LoseLock(w) PROVE TypeInv'
  BY <1>10 DEF LoseLock
<1>11. CASE UNCHANGED vars
  BY <1>11 DEF vars
<1> QED
  BY <1>1, <1>2, <1>3, <1>4, <1>5, <1>6, <1>7, <1>8, <1>9, <1>10, <1>11
     DEF Next, WorkerStep

\* The rows, webhooks and ticks keep their types; in particular no attempt is
\* numbered beyond MaxAttempts (worker.py:355,388).
THEOREM OutboxTypeCorrect == Spec => []OutboxTypeOK
<1>1. Spec => []TypeInv
  BY TypeInit, TypeNext, PTL DEF Spec
<1>2. TypeInv => OutboxTypeOK
  BY DEF TypeInv
<1> QED
  BY <1>1, <1>2, PTL

-----------------------------------------------------------------------------
(* A settled row stays settled.                                            *)

\* No worker writes a row that another one has settled (worker.py:374,393).
THEOREM SettledRowsStay == Spec => SettledIsFinal
<1> DEFINE Stays == \A d \in Delivery :
                        rows[d].status \in {"delivered", "failed", "deleted"} =>
                            rows'[d].status \in {rows[d].status, "deleted"}
<1>1. TypeInv /\ [Next]_vars => Stays
  <2> SUFFICES ASSUME TypeInv, [Next]_vars PROVE Stays
    OBVIOUS
  <2> USE DEF TypeInv, OutboxTypeOK, tables, history, bounds
  <2>1. ASSUME NEW h \in Webhook, NEW sendable \in BOOLEAN, SaveWebhook(h, sendable) PROVE Stays
    BY <2>1 DEF SaveWebhook
  <2>2. ASSUME NEW h \in Webhook, DeleteWebhook(h) PROVE Stays
    BY <2>2, DeleteEffect
  <2>3. ASSUME NEW d \in Delivery, Queue(d) \/ DelayPasses(d) PROVE Stays
    BY <2>3 DEF Queue, DelayPasses, Pending, DeliveryRow
  <2>4. ASSUME NEW w \in Worker, NEW d \in Delivery, StoreDelivered(w, d) \/ StoreFailure(w, d)
        PROVE  Stays
    BY <2>4, StoreEffect DEF Pending
  <2>5. CASE UNCHANGED rows
    BY <2>5
  <2> QED
    BY <2>1, <2>2, <2>3, <2>4, <2>5
       DEF Next, WorkerStep, RowStep, Acquire, Select, Finish, Skip, Load, Join, JoinFails,
           SendSucceeds, SendFails, SendRaises, Interrupt, LoseLock, vars
<1>2. Spec => []TypeInv
  BY TypeInit, TypeNext, PTL DEF Spec
<1> QED
  BY <1>1, <1>2, PTL DEF Spec, SettledIsFinal

-----------------------------------------------------------------------------
(* Attempts and sends.                                                     *)

LEMMA AtMostOne ==
    ASSUME OutboxTypeOK, NEW w \in Worker, NEW d \in Delivery, NEW e \in Delivery,
           NEW s, NEW t, At(w, s, d), At(w, t, e)
    PROVE  d = e /\ s = t
<1>1. d <= e /\ e <= d
  BY DEF At
<1>2. d \in Nat /\ e \in Nat
  OBVIOUS
<1> QED
  BY <1>1, <1>2 DEF At

LEMMA GoToAt ==
    ASSUME OutboxTypeOK, NEW w \in Worker, NEW step \in Step, GoTo(w, step),
           NEW s, NEW d \in Delivery, At(w, s, d)'
    PROVE  s = step /\ At(w, ticks[w].step, d) /\ ticks'[w].attempt = ticks[w].attempt
<1>1. /\ ticks'[w].step = step /\ ticks'[w].todo = ticks[w].todo
      /\ ticks'[w].attempt = ticks[w].attempt
  BY GoToEffect
<1>2. ticks'[w].step = s /\ d \in ticks'[w].todo /\ \A x \in ticks'[w].todo : d <= x
  BY DEF At
<1> QED
  BY <1>1, <1>2 DEF At

LEMMA CountedInit == Init => Counted
BY DEF Init, Counted, RowCounted, TickCounted, At, Resting

\* A tick that has not moved, or is between rows, asks for no more than before.
LEMMA CountedStill ==
    ASSUME TypeInv, Counted,
           \A d \in Delivery : /\ sent'[d] \in Nat /\ sent'[d] >= sent[d]
                               /\ accepted \subseteq accepted',
           NEW v \in Worker, NEW e \in Delivery,
           \/ ticks'[v] = ticks[v]
           \/ ticks'[v].step \in {"idle", "reconciling", "delivering"}
    PROVE  TickCounted(v, e)'
<1>1. ticks[v].attempt \in Nat /\ sent[e] \in Nat
  BY DEF TypeInv, OutboxTypeOK, Tick
<1>2. TickCounted(v, e)
  BY DEF Counted
<1>3. CASE ticks'[v] = ticks[v]
  <2>1. /\ At(v, "joining", e)' <=> At(v, "joining", e)
        /\ At(v, "sending", e)' <=> At(v, "sending", e)
        /\ At(v, "answered", e)' <=> At(v, "answered", e)
        /\ At(v, "refused", e)' <=> At(v, "refused", e)
    BY <1>3 DEF At
  <2>2. /\ sent'[e] \in Nat /\ sent'[e] >= sent[e] /\ accepted \subseteq accepted'
        /\ ticks'[v].attempt = ticks[v].attempt
    BY <1>3
  <2> QED
    BY <1>1, <1>2, <2>1, <2>2 DEF TickCounted
<1>4. CASE ticks'[v].step \in {"idle", "reconciling", "delivering"}
  BY <1>4 DEF TickCounted, At
<1> QED
  BY <1>3, <1>4

LEMMA CountedNext == TypeInv /\ Counted /\ [Next]_vars => Counted'
<1> SUFFICES ASSUME TypeInv, Counted, [Next]_vars PROVE Counted'
  OBVIOUS
<1> USE DEF tables, history, bounds
<1>0. /\ OutboxTypeOK
      /\ \A d \in Delivery : /\ sent[d] \in Nat /\ rows[d].attempts \in Nat
                             /\ rows[d] \in DeliveryRow
      /\ \A w \in Worker : ticks[w].attempt \in Nat /\ ticks[w].todo \subseteq Delivery
  BY DEF TypeInv, OutboxTypeOK, DeliveryRow, Tick
<1>a. \A d \in Delivery : RowCounted(d)
  BY DEF Counted
<1>b. ASSUME UNCHANGED rows,
             \A d \in Delivery : /\ sent'[d] \in Nat /\ sent'[d] >= sent[d]
                                 /\ accepted \subseteq accepted'
      PROVE  \A d \in Delivery : RowCounted(d)'
  <2> TAKE d \in Delivery
  <2>1. /\ sent[d] \in Nat /\ sent'[d] \in Nat /\ sent'[d] >= sent[d]
        /\ rows[d].attempts \in Nat /\ rows'[d] = rows[d]
        /\ accepted \subseteq accepted'
    BY <1>0, <1>b
  <2> QED
    BY <1>a, <2>1 DEF RowCounted
<1>c. ASSUME UNCHANGED <<sent, accepted>>
      PROVE  \A d \in Delivery : /\ sent'[d] \in Nat /\ sent'[d] >= sent[d]
                                /\ accepted \subseteq accepted'
  BY <1>0, <1>c
\* Steps that only rest or move between rows.
<1>d. ASSUME UNCHANGED <<rows, accepted>>, NEW w \in Worker,
             \A d \in Delivery : sent'[d] \in {sent[d], sent[d] + 1},
             \A v \in Worker : v # w => ticks'[v] = ticks[v],
             ticks'[w].step \in {"idle", "reconciling", "delivering"}
      PROVE  Counted'
  <2>1. \A d \in Delivery : /\ sent'[d] \in Nat /\ sent'[d] >= sent[d]
                            /\ accepted \subseteq accepted'
    <3> TAKE d \in Delivery
    <3> QED
      BY <1>0, <1>d
  <2> QED
    BY <1>b, <1>d, <2>1, CountedStill DEF Counted
<1>1. ASSUME NEW h \in Webhook, NEW sendable \in BOOLEAN, SaveWebhook(h, sendable) PROVE Counted'
  BY <1>1, <1>b, <1>c, CountedStill DEF SaveWebhook, Counted
<1>2. ASSUME NEW h \in Webhook, DeleteWebhook(h) PROVE Counted'
  <2>1. UNCHANGED <<ticks, sent, accepted>>
    BY <1>2 DEF DeleteWebhook
  <2>2. \A d \in Delivery : RowCounted(d)'
    BY <1>0, <1>2, <1>a, <2>1, DeleteEffect DEF RowCounted
  <2> QED
    BY <1>c, <2>1, <2>2, CountedStill DEF Counted
<1>3. ASSUME NEW d \in Delivery, Queue(d) \/ DelayPasses(d) PROVE Counted'
  <2>1. UNCHANGED <<ticks, sent, accepted>>
    BY <1>3 DEF Queue, DelayPasses
  <2>2. \A x \in Delivery :
            \/ rows'[x] = rows[x]
            \/ rows'[x].status = "pending" /\ rows'[x].attempts \in {0, rows[x].attempts}
    BY <1>0, <1>3 DEF Queue, DelayPasses, Pending, DeliveryRow, OutboxTypeOK
  <2>3. \A x \in Delivery : RowCounted(x)'
    BY <1>0, <1>a, <2>1, <2>2 DEF RowCounted
  <2> QED
    BY <1>c, <2>1, <2>3, CountedStill DEF Counted
<1>4. ASSUME NEW w \in Worker, Acquire(w) PROVE Counted'
  BY <1>0, <1>4, <1>d, GoToEffect DEF Acquire, Step
<1>5. ASSUME NEW w \in Worker, Select(w) PROVE Counted'
  <2>1. UNCHANGED <<rows, sent, accepted>>
    BY <1>5 DEF Select
  <2> QED
    BY <1>0, <1>5, <1>d, <2>1, SelectEffect
<1>6. ASSUME NEW w \in Worker, ticks' = [ticks EXCEPT ![w] = Resting],
             UNCHANGED <<rows, accepted>>,
             \A d \in Delivery : sent'[d] \in {sent[d], sent[d] + 1}
      PROVE  Counted'
  BY <1>0, <1>6, <1>d, RestingEffect
<1>7. ASSUME NEW w \in Worker, NEW d \in Delivery, RowStep(w, d) PROVE Counted'
  <2>1. CASE Skip(w, d)
    BY <1>0, <1>d, <2>1, TreatedEffect DEF Skip
  <2>2. CASE Load(w, d)
    <3>1. UNCHANGED <<rows, sent, accepted>> /\ At(w, "delivering", d)
      BY <2>2 DEF Load
    <3>2. ASSUME NEW e \in Delivery PROVE TickCounted(w, e)'
      <4>1. CASE At(w, "joining", e)'
        <5>1. At(w, "delivering", e)
          BY <2>2, <3>1, <4>1, LoadEffect DEF At
        <5>2. e = d
          BY <1>0, <3>1, <5>1, AtMostOne
        <5>3. /\ ticks'[w].step = "joining" /\ ticks'[w].attempt = rows[d].attempts + 1
              /\ sent' = sent
          BY <2>2, <3>1, LoadEffect
        <5>4. ticks'[w].attempt <= sent'[e] + 1
          BY <1>0, <1>a, <5>2, <5>3 DEF RowCounted
        <5> QED
          BY <5>3, <5>4 DEF TickCounted, At
      <4>2. CASE ~ At(w, "joining", e)'
        BY <2>2, <4>2, LoadEffect DEF At, TickCounted
      <4> QED
        BY <4>1, <4>2
    <3> QED
      BY <1>b, <1>c, <2>2, <3>1, <3>2, CountedStill, LoadEffect DEF Counted
  <2>3. CASE Join(w, d)
    <3>1. At(w, "joining", d) /\ GoTo(w, "sending") /\ UNCHANGED <<rows, sent, accepted>>
      BY <2>3 DEF Join
    <3>2. ASSUME NEW e \in Delivery PROVE TickCounted(w, e)'
      <4>1. TickCounted(w, e)
        BY DEF Counted
      <4>2. \A s : At(w, s, e)' => s = "sending" /\ At(w, "joining", e)
                                   /\ ticks'[w].attempt = ticks[w].attempt
        BY <1>0, <3>1, GoToAt DEF Step, At
      <4> QED
        BY <3>1, <4>1, <4>2 DEF TickCounted
    <3> QED
      BY <1>0, <1>b, <1>c, <3>1, <3>2, CountedStill, GoToEffect DEF Counted, Step
  <2>4. CASE JoinFails(w, d) \/ SendRaises(w, d)
    BY <1>0, <1>6, <2>4 DEF JoinFails, SendRaises
  <2>5. CASE SendSucceeds(w, d) \/ SendFails(w, d)
    <3> PICK step \in {"answered", "refused"} :
            /\ GoTo(w, step)
            /\ step = "answered" => d \in accepted'
      BY <1>0, <2>5 DEF SendSucceeds, SendFails, OutboxTypeOK
    <3>1. /\ At(w, "sending", d) /\ UNCHANGED rows
          /\ sent' = [sent EXCEPT ![d] = @ + 1]
          /\ accepted' = accepted \cup {d} \/ UNCHANGED accepted
      BY <2>5 DEF SendSucceeds, SendFails
    <3>2. sent'[d] = sent[d] + 1
      BY <3>1, <1>0 DEF OutboxTypeOK
    <3>3. \A e \in Delivery : /\ sent'[e] \in Nat /\ sent'[e] >= sent[e]
                              /\ accepted \subseteq accepted'
      BY <1>0, <3>1 DEF OutboxTypeOK
    <3>4. ASSUME NEW e \in Delivery PROVE TickCounted(w, e)'
      <4>1. ASSUME NEW s, At(w, s, e)'
            PROVE  s = step /\ e = d /\ ticks'[w].attempt = ticks[w].attempt
        <5>1. s = step /\ At(w, "sending", e) /\ ticks'[w].attempt = ticks[w].attempt
          BY <1>0, <3>1, <4>1, GoToAt DEF Step, At
        <5> QED
          BY <1>0, <3>1, <5>1, AtMostOne
      <4>2. ticks[w].attempt <= sent[d] + 1
        BY <3>1 DEF Counted, TickCounted
      <4> QED
        BY <3>2, <4>1, <4>2 DEF TickCounted
    <3>5. \A v \in Worker : v # w => ticks'[v] = ticks[v]
      BY <1>0, GoToEffect DEF Step
    <3> QED
      BY <1>b, <3>1, <3>3, <3>4, <3>5, CountedStill DEF Counted
  <2>6. CASE StoreDelivered(w, d) \/ StoreFailure(w, d)
    <3>1. /\ At(w, "answered", d) \/ At(w, "refused", d)
          /\ Treated(w, d) /\ UNCHANGED <<sent, accepted>>
      BY <2>6 DEF StoreDelivered, StoreFailure, RecordFailure
    <3>2. TickCounted(w, d)
      BY DEF Counted
    <3>3. \A x \in Delivery : RowCounted(x)'
      BY <1>a, <2>6, <3>1, <3>2, StoreEffect DEF RowCounted, TickCounted
    <3> QED
      BY <1>0, <1>c, <3>1, <3>3, CountedStill, TreatedEffect DEF Counted
  <2> QED
    BY <1>7, <2>1, <2>2, <2>3, <2>4, <2>5, <2>6 DEF RowStep
<1>8. ASSUME NEW w \in Worker, Interrupt(w) PROVE Counted'
  BY <1>0, <1>6, <1>8, InterruptEffect DEF Interrupt
<1>9. ASSUME NEW w \in Worker, Finish(w) PROVE Counted'
  BY <1>0, <1>6, <1>9 DEF Finish
<1>10. CASE UNCHANGED vars \/ \E w \in Worker : LoseLock(w)
  BY <1>10, <1>b, <1>c, CountedStill DEF vars, LoseLock, Counted
<1> QED
  BY <1>1, <1>2, <1>3, <1>4, <1>5, <1>7, <1>8, <1>9, <1>10 DEF Next, WorkerStep

\* Deliveries are not given up before MaxAttempts sends, nor called delivered
\* without an answer, however many workers count and lose count.
THEOREM SettlingHasAReason == Spec => []SettledForAReason
<1>1. Spec => [](TypeInv /\ Counted)
  BY TypeInit, TypeNext, CountedInit, CountedNext, PTL DEF Spec
<1>2. TypeInv /\ Counted => SettledForAReason
  BY DEF TypeInv, OutboxTypeOK, Counted, RowCounted, SettledForAReason
<1> QED
  BY <1>1, <1>2, PTL

-----------------------------------------------------------------------------
(* One sender.                                                             *)

LEMMA RowStepEffect ==
    ASSUME OutboxTypeOK, NEW w \in Worker, NEW d \in Delivery, RowStep(w, d)
    PROVE  /\ ticks[w].step # "idle"
           /\ \A v \in Worker : v # w => ticks'[v] = ticks[v]
           /\ ticks'[w].todo \subseteq ticks[w].todo
           /\ UNCHANGED <<lock, losses, crashes>>
<1> USE DEF tables, history, bounds, At
<1>1. CASE Skip(w, d)
  BY <1>1, TreatedEffect DEF Skip
<1>2. CASE Load(w, d)
  BY <1>2 DEF Load, OutboxTypeOK, Tick
<1>3. CASE Join(w, d)
  BY <1>3, GoToEffect DEF Join, Step
<1>4. CASE JoinFails(w, d) \/ SendRaises(w, d)
  BY <1>4, RestingEffect DEF JoinFails, SendRaises
<1>5. CASE SendSucceeds(w, d) \/ SendFails(w, d)
  BY <1>5, GoToEffect DEF SendSucceeds, SendFails, Step
<1>6. CASE StoreDelivered(w, d) \/ StoreFailure(w, d)
  BY <1>6, TreatedEffect DEF StoreDelivered, StoreFailure, RecordFailure
<1> QED
  BY <1>1, <1>2, <1>3, <1>4, <1>5, <1>6 DEF RowStep

LEMMA Alone ==
    ASSUME Exclusive, losses = 0, NEW w \in Worker, ticks[w].step # "idle"
    PROVE  \A v \in Worker : v # w => ticks[v].step = "idle"
BY DEF Exclusive

LEMMA ExclusiveInit == Init => Exclusive
BY DEF Init, Exclusive, Resting

LEMMA ExclusiveNext == TypeInv /\ Exclusive /\ [Next]_vars => Exclusive'
<1> SUFFICES ASSUME TypeInv, Exclusive, [Next]_vars PROVE Exclusive'
  OBVIOUS
<1> USE DEF Exclusive, tables, history, bounds
<1>0. OutboxTypeOK
  BY DEF TypeInv
<1>1. ASSUME NEW h \in Webhook, NEW sendable \in BOOLEAN,
             SaveWebhook(h, sendable) \/ DeleteWebhook(h) PROVE Exclusive'
  BY <1>1 DEF SaveWebhook, DeleteWebhook
<1>2. ASSUME NEW d \in Delivery, Queue(d) \/ DelayPasses(d) PROVE Exclusive'
  BY <1>2 DEF Queue, DelayPasses
<1>3. ASSUME NEW w \in Worker, Acquire(w) PROVE Exclusive'
  BY <1>0, <1>3, GoToEffect DEF Acquire, Step
<1>4. ASSUME NEW w \in Worker, UNCHANGED <<lock, losses>>, ticks[w].step # "idle",
             \A v \in Worker : v # w => ticks'[v] = ticks[v]
      PROVE  Exclusive'
  BY <1>4
<1>5. ASSUME NEW w \in Worker, Select(w) PROVE Exclusive'
  BY <1>0, <1>4, <1>5, SelectEffect DEF Select
<1>6. ASSUME NEW w \in Worker, Finish(w) PROVE Exclusive'
  BY <1>0, <1>4, <1>6, RestingEffect DEF Finish
<1>7. ASSUME NEW w \in Worker, NEW d \in Delivery, RowStep(w, d) PROVE Exclusive'
  BY <1>0, <1>4, <1>7, RowStepEffect
<1>8. ASSUME NEW w \in Worker, Interrupt(w) PROVE Exclusive'
  <2>1. ticks' = [ticks EXCEPT ![w] = Resting] /\ UNCHANGED losses
    BY <1>8 DEF Interrupt
  <2> QED
    BY <1>0, <1>8, <2>1, InterruptEffect, RestingEffect
<1>9. ASSUME NEW w \in Worker, LoseLock(w) PROVE Exclusive'
  BY <1>9 DEF LoseLock, TypeInv, OutboxTypeOK
<1>10. CASE UNCHANGED vars
  BY <1>10 DEF vars
<1> QED
  BY <1>1, <1>2, <1>3, <1>5, <1>6, <1>7, <1>8, <1>9, <1>10 DEF Next, WorkerStep

LEMMA FreshInit == Init => Fresh
BY DEF Init, Fresh, Resting

LEMMA FreshNext == TypeInv /\ Fresh /\ [Next]_vars => Fresh'
<1> SUFFICES ASSUME TypeInv, Fresh, [Next]_vars PROVE Fresh'
  OBVIOUS
<1> USE DEF Fresh, tables, history, bounds
<1>0. /\ OutboxTypeOK
      /\ \A w \in Worker : ticks[w].todo \subseteq Delivery
  BY DEF TypeInv, OutboxTypeOK, Tick
<1>1. ASSUME NEW h \in Webhook, NEW sendable \in BOOLEAN, SaveWebhook(h, sendable) PROVE Fresh'
  BY <1>1 DEF SaveWebhook
<1>2. ASSUME NEW h \in Webhook, DeleteWebhook(h) PROVE Fresh'
  <2>1. UNCHANGED <<ticks, sent>>
    BY <1>2 DEF DeleteWebhook
  <2> QED
    BY <1>0, <1>2, <2>1, DeleteEffect
<1>3. ASSUME NEW d \in Delivery, Queue(d) \/ DelayPasses(d) PROVE Fresh'
  <2>1. UNCHANGED <<ticks, sent>>
    BY <1>3 DEF Queue, DelayPasses
  <2>2. \A x \in Delivery : rows'[x] = rows[x] \/ rows'[x].status = "pending"
    BY <1>3 DEF Queue, DelayPasses, Pending, TypeInv, OutboxTypeOK, DeliveryRow
  <2> QED
    BY <1>0, <2>1, <2>2
<1>4. ASSUME NEW w \in Worker, UNCHANGED <<rows, sent>>,
             \A v \in Worker : v # w => ticks'[v] = ticks[v],
             \A d \in ticks'[w].todo : d \in ticks[w].todo \/ Pending(d)
      PROVE  Fresh'
  BY <1>0, <1>4 DEF Pending
<1>5. ASSUME NEW w \in Worker, Acquire(w) PROVE Fresh'
  BY <1>0, <1>4, <1>5, GoToEffect DEF Acquire, Step
<1>6. ASSUME NEW w \in Worker, Select(w) PROVE Fresh'
  <2>1. UNCHANGED <<rows, sent>>
    BY <1>6 DEF Select
  <2> QED
    BY <1>0, <1>4, <1>6, <2>1, SelectEffect
<1>7. ASSUME NEW w \in Worker, Finish(w) PROVE Fresh'
  BY <1>0, <1>4, <1>7, RestingEffect DEF Finish
<1>8. ASSUME NEW w \in Worker, NEW d \in Delivery, RowStep(w, d) PROVE Fresh'
  <2>0. /\ \A v \in Worker : ticks'[v].todo \subseteq ticks[v].todo
        /\ \A v \in Worker : \A x \in ticks'[v].todo : x \in ticks[v].todo
    BY <1>0, <1>8, RowStepEffect
  <2>1. CASE UNCHANGED <<rows, sent>>
    BY <2>0, <2>1
  <2>2. CASE SendSucceeds(w, d) \/ SendFails(w, d)
    <3>1. /\ At(w, "sending", d) /\ UNCHANGED rows
          /\ sent' = [sent EXCEPT ![d] = @ + 1]
      BY <2>2 DEF SendSucceeds, SendFails
    <3> QED
      BY <1>0, <2>0, <3>1 DEF At, OutboxTypeOK
  <2>3. CASE StoreDelivered(w, d) \/ StoreFailure(w, d)
    <3>1. UNCHANGED sent
      BY <2>3 DEF StoreDelivered, StoreFailure, RecordFailure
    <3>2. \A x \in Delivery : rows'[x] = rows[x] \/ rows'[x].status # "none"
      BY <2>3, StoreEffect
    <3> QED
      BY <1>0, <2>0, <3>1, <3>2
  <2> QED
    BY <1>8, <2>1, <2>2, <2>3
       DEF RowStep, Skip, Load, Join, JoinFails, SendRaises
<1>9. ASSUME NEW w \in Worker, Interrupt(w) PROVE Fresh'
  <2>1. ticks' = [ticks EXCEPT ![w] = Resting] /\ UNCHANGED rows
    BY <1>9 DEF Interrupt
  <2>2. \A d \in Delivery : sent'[d] = sent[d] \/ d \in ticks[w].todo
    BY <1>0, <1>9, InterruptEffect DEF At
  <2>3. \A v \in Worker : \A x \in ticks'[v].todo : x \in ticks[v].todo
    BY <1>0, <2>1, RestingEffect
  <2> QED
    BY <1>0, <2>1, <2>2, <2>3
<1>10. CASE UNCHANGED vars \/ \E w \in Worker : LoseLock(w)
  BY <1>10 DEF vars, LoseLock
<1> QED
  BY <1>1, <1>2, <1>3, <1>5, <1>6, <1>7, <1>8, <1>9, <1>10 DEF Next, WorkerStep

\* The two parts that need each other: how often the rows were sent, and what
\* the tick that has one in hands knows of it.
Balance == Undisturbed /\ DuplicatesAreCrashes

LEMMA BalanceInit == Init => Balance
BY DEF Init, Balance, Undisturbed, InHand, DuplicatesAreCrashes, At, Resting

LEMMA BalanceNext ==
    TypeInv /\ Exclusive /\ Fresh /\ Balance /\ [Next]_vars => Balance'
<1> SUFFICES ASSUME TypeInv, Exclusive, Fresh, Balance, [Next]_vars, losses' = 0
             PROVE  Balance'
  BY DEF Balance, Undisturbed, DuplicatesAreCrashes
<1> USE DEF tables, history, bounds
<1> DEFINE Open(d) == rows[d].status \in {"pending", "delivered", "failed"}
           Even(d) == Open(d) => sent[d] <= rows[d].attempts + crashes
                                            + (IF Sending(d) THEN 1 ELSE 0)
           Known(w, d) == InHand(w, d) =>
                              \/ Pending(d) /\ ticks[w].attempt = rows[d].attempts + 1
                              \/ rows[d].status = "deleted"
<1>0. /\ OutboxTypeOK
      /\ \A d \in Delivery : /\ sent[d] \in Nat /\ rows[d].attempts \in Nat
                             /\ rows[d] \in DeliveryRow
      /\ \A w \in Worker : ticks[w].todo \subseteq Delivery
      /\ crashes \in Nat
  BY DEF TypeInv, OutboxTypeOK, DeliveryRow, Tick
<1>a. ASSUME \A d \in Delivery : Even(d)', \A w \in Worker, d \in Delivery : Known(w, d)'
      PROVE  Balance'
  BY <1>a DEF Balance, Undisturbed, DuplicatesAreCrashes
<1>b. ASSUME losses = 0
      PROVE  /\ \A d \in Delivery : Even(d)
             /\ \A w \in Worker, d \in Delivery : Known(w, d)
  BY <1>b DEF Balance, Undisturbed, DuplicatesAreCrashes
<1> HIDE DEF Open, Even, Known
\* A worker that did not move knows what it knew, of rows that did not change
\* or were deleted.
<1>c. ASSUME losses = 0, NEW v \in Worker, NEW e \in Delivery, ticks'[v] = ticks[v],
             rows'[e] = rows[e] \/ rows'[e].status = "deleted"
      PROVE  Known(v, e)'
  <2>1. InHand(v, e)' <=> InHand(v, e)
    BY <1>c DEF InHand, At
  <2> QED
    BY <1>b, <1>c, <2>1 DEF Known, Pending
\* Others than the worker that moves have nothing in hands.
<1>d. ASSUME losses = 0, NEW w \in Worker, ticks[w].step # "idle"
      PROVE  /\ \A v \in Worker : v # w => ticks[v].step = "idle"
             /\ \A e \in Delivery : Sending(e) <=> At(w, "answered", e) \/ At(w, "refused", e)
  <2>1. \A v \in Worker : v # w => ticks[v].step = "idle"
    BY <1>d, Alone
  <2> QED
    BY <2>1 DEF Sending, At
<1>e. ASSUME losses = 0, NEW w \in Worker, UNCHANGED <<rows, sent, crashes>>,
             \A v \in Worker : v # w => ticks'[v] = ticks[v],
             ticks[w].step \notin {"answered", "refused"},
             \A e \in Delivery : Known(w, e)'
      PROVE  Balance'
  <2>1. \A e \in Delivery : Sending(e) => Sending(e)'
    BY <1>e DEF Sending, At
  <2>2. \A e \in Delivery : Even(e)'
    BY <1>0, <1>b, <1>e, <2>1 DEF Even, Open
  <2> QED
    BY <1>a, <1>c, <1>e, <2>2
<1>1. ASSUME NEW h \in Webhook, NEW sendable \in BOOLEAN,
             SaveWebhook(h, sendable) \/ DeleteWebhook(h) PROVE Balance'
  <2>1. UNCHANGED <<ticks, sent, crashes, losses>>
    BY <1>1 DEF SaveWebhook, DeleteWebhook
  <2>2. \A d \in Delivery : \/ rows'[d] = rows[d]
                            \/ rows'[d].status = "deleted"
    BY <1>0, <1>1, DeleteEffect DEF SaveWebhook
  <2>3. \A d \in Delivery : Sending(d)' <=> Sending(d)
    BY <2>1 DEF Sending, At
  <2>4. \A d \in Delivery : Even(d)'
    BY <1>b, <2>1, <2>2, <2>3 DEF Even, Open
  <2> QED
    BY <1>a, <1>c, <2>1, <2>2, <2>4
<1>2. ASSUME NEW d \in Delivery, Queue(d) \/ DelayPasses(d) PROVE Balance'
  <2>1. UNCHANGED <<ticks, sent, crashes, losses>>
    BY <1>2 DEF Queue, DelayPasses
  <2>2. \A x \in Delivery : x # d => rows'[x] = rows[x]
    BY <1>2 DEF Queue, DelayPasses, TypeInv, OutboxTypeOK
  <2>3. \A x \in Delivery : Sending(x)' <=> Sending(x)
    BY <2>1 DEF Sending, At
  <2>4. CASE Queue(d)
    <3>1. sent[d] = 0 /\ \A w \in Worker : ~ InHand(w, d)'
      BY <2>1, <2>4 DEF Queue, Fresh, InHand, At
    <3>2. rows'[d].attempts = 0
      BY <2>4 DEF Queue, TypeInv, OutboxTypeOK
    <3>3. \A x \in Delivery : Even(x)'
      BY <1>0, <1>b, <2>1, <2>2, <2>3, <3>1, <3>2 DEF Even, Open
    <3>4. \A w \in Worker, x \in Delivery : Known(w, x)'
      BY <1>c, <2>1, <2>2, <3>1 DEF Known
    <3> QED
      BY <1>a, <3>3, <3>4
  <2>5. CASE DelayPasses(d)
    <3>1. Pending(d) /\ rows'[d].status = "pending" /\ rows'[d].attempts = rows[d].attempts
      BY <1>0, <2>5 DEF DelayPasses, Pending, OutboxTypeOK, DeliveryRow
    <3>2. \A x \in Delivery : Even(x)'
      BY <1>b, <2>1, <2>2, <2>3, <3>1 DEF Even, Open, Pending
    <3>3. \A w \in Worker : Known(w, d)'
      BY <1>b, <2>1, <3>1 DEF Known, InHand, At, Pending
    <3> QED
      BY <1>a, <1>c, <2>1, <2>2, <3>2, <3>3
  <2> QED
    BY <1>2, <2>4, <2>5
<1>3. ASSUME NEW w \in Worker, Acquire(w) \/ Select(w) \/ Finish(w) PROVE Balance'
  <2>1. /\ UNCHANGED <<rows, sent, crashes, losses>>
        /\ ticks[w].step \notin {"answered", "refused"}
    BY <1>3 DEF Acquire, Select, Finish
  <2>2. /\ \A v \in Worker : v # w => ticks'[v] = ticks[v]
        /\ ticks'[w].step \in {"idle", "reconciling", "delivering"}
    BY <1>0, <1>3, GoToEffect, SelectEffect, RestingEffect DEF Acquire, Finish, Step
  <2>3. \A e \in Delivery : Known(w, e)'
    BY <2>2 DEF Known, InHand, At
  <2> QED
    BY <1>e, <2>1, <2>2, <2>3
<1>4. ASSUME NEW w \in Worker, NEW d \in Delivery, RowStep(w, d) PROVE Balance'
  <2>0. /\ losses = 0 /\ crashes' = crashes /\ ticks[w].step # "idle"
        /\ \A v \in Worker : v # w => ticks'[v] = ticks[v] /\ ticks[v].step = "idle"
    BY <1>0, <1>4, <1>d, RowStepEffect
  <2>1. CASE Skip(w, d) \/ JoinFails(w, d) \/ SendRaises(w, d)
    <3>1. /\ UNCHANGED <<rows, sent>> /\ ticks[w].step \notin {"answered", "refused"}
          /\ ticks'[w].step \in {"idle", "delivering"}
      BY <1>0, <2>1, TreatedEffect, RestingEffect DEF Skip, JoinFails, SendRaises, At
    <3>2. \A e \in Delivery : Known(w, e)'
      BY <3>1 DEF Known, InHand, At
    <3> QED
      BY <1>e, <2>0, <3>1, <3>2
  <2>2. CASE Load(w, d)
    <3>1. /\ UNCHANGED <<rows, sent>> /\ At(w, "delivering", d) /\ Pending(d)
      BY <2>2 DEF Load
    <3>2. ASSUME NEW e \in Delivery PROVE Known(w, e)'
      <4>1. InHand(w, e)' => At(w, "delivering", e)
        BY <2>2, <3>1, LoadEffect DEF InHand, At
      <4>2. InHand(w, e)' => e = d
        BY <1>0, <3>1, <4>1, AtMostOne
      <4> QED
        BY <2>2, <3>1, <4>2, LoadEffect DEF Known, Pending
    <3> QED
      BY <1>e, <2>0, <3>1, <3>2 DEF At
  <2>3. CASE Join(w, d)
    <3>1. UNCHANGED <<rows, sent>> /\ At(w, "joining", d) /\ GoTo(w, "sending")
      BY <2>3 DEF Join
    <3>2. ASSUME NEW e \in Delivery PROVE Known(w, e)'
      <4>1. InHand(w, e)' => InHand(w, e) /\ ticks'[w].attempt = ticks[w].attempt
        BY <1>0, <3>1, GoToAt DEF InHand, Step, At
      <4> QED
        BY <1>b, <2>0, <3>1, <4>1 DEF Known, Pending
    <3> QED
      BY <1>e, <2>0, <3>1, <3>2 DEF At
  <2>4. CASE SendSucceeds(w, d) \/ SendFails(w, d)
    <3> PICK step \in {"answered", "refused"} : GoTo(w, step)
      BY <2>4 DEF SendSucceeds, SendFails
    <3>1. UNCHANGED rows /\ At(w, "sending", d) /\ sent' = [sent EXCEPT ![d] = @ + 1]
      BY <2>4 DEF SendSucceeds, SendFails
    <3>2. ASSUME NEW e \in Delivery PROVE Known(w, e)'
      <4>1. InHand(w, e)' => InHand(w, e) /\ ticks'[w].attempt = ticks[w].attempt
        BY <1>0, <3>1, GoToAt DEF InHand, Step, At
      <4> QED
        BY <1>b, <2>0, <3>1, <4>1 DEF Known, Pending
    <3>3. \A e \in Delivery : ~ Sending(e)
      BY <1>d, <2>0, <3>1 DEF At
    <3>4. ticks'[w].step = step /\ ticks'[w].todo = ticks[w].todo
      BY <1>0, GoToEffect DEF Step
    <3>5. Sending(d)'
      BY <3>1, <3>4 DEF Sending, At
    <3>6. \A e \in Delivery : sent'[e] = IF e = d THEN sent[e] + 1 ELSE sent[e]
      BY <3>1, <1>0 DEF OutboxTypeOK
    <3>7. \A e \in Delivery : Even(e)'
      BY <1>0, <1>b, <2>0, <3>1, <3>3, <3>5, <3>6 DEF Even, Open
    <3> QED
      BY <1>a, <1>c, <2>0, <3>1, <3>2, <3>7
  <2>5. CASE StoreDelivered(w, d) \/ StoreFailure(w, d)
    <3>1. /\ At(w, "answered", d) \/ At(w, "refused", d)
          /\ Treated(w, d) /\ UNCHANGED sent
      BY <2>5 DEF StoreDelivered, StoreFailure, RecordFailure
    <3>2. \A e \in Delivery : e # d => ~ Sending(e)
      BY <1>0, <1>d, <2>0, <3>1, AtMostOne
    <3>3. Known(w, d) /\ InHand(w, d)
      BY <1>b, <2>0, <3>1 DEF InHand
    <3>4. \A e \in Delivery : e # d \/ ~ Pending(d) => rows'[e] = rows[e]
      BY <2>5, StoreEffect
    <3>5. Even(d)'
      <4>1. CASE Pending(d)
        <5>1. rows'[d].attempts = rows[d].attempts + 1
          BY <2>5, <3>3, <4>1, StoreEffect DEF Known, Pending
        <5>2. sent[d] <= rows[d].attempts + crashes + 1
          BY <1>0, <1>b, <2>0, <4>1 DEF Even, Open, Pending
        <5> QED
          BY <1>0, <2>0, <3>1, <5>1, <5>2 DEF Even
      <4>2. CASE ~ Pending(d)
        BY <3>3, <3>4, <4>2 DEF Known, Even, Open
      <4> QED
        BY <4>1, <4>2
    <3>6. \A e \in Delivery : Even(e)'
      BY <1>0, <1>b, <2>0, <3>1, <3>2, <3>4, <3>5 DEF Even, Open
    <3>7. \A v \in Worker, e \in Delivery : Known(v, e)'
      BY <1>0, <2>0, <3>1, TreatedEffect DEF Known, InHand, At
    <3> QED
      BY <1>a, <3>6, <3>7
  <2> QED
    BY <1>4, <2>1, <2>2, <2>3, <2>4, <2>5 DEF RowStep
<1>5. ASSUME NEW w \in Worker, Interrupt(w) PROVE Balance'
  <2>1. /\ ticks' = [ticks EXCEPT ![w] = Resting] /\ UNCHANGED rows
        /\ losses = 0 /\ crashes' = crashes + 1 /\ ticks[w].step # "idle"
    BY <1>5 DEF Interrupt
  <2>2. \A d \in Delivery : \/ sent'[d] = sent[d]
                            \/ ~ Sending(d) /\ sent'[d] = sent[d] + 1
    <3> TAKE d \in Delivery
    <3>1. sent'[d] = sent[d] \/ (At(w, "sending", d) /\ sent'[d] = sent[d] + 1)
      BY <1>0, <1>5, InterruptEffect
    <3>2. At(w, "sending", d) => ~ Sending(d)
      BY <1>d, <2>1 DEF At
    <3> QED
      BY <3>1, <3>2
  <2>3. \A d \in Delivery : Even(d)'
    BY <1>0, <1>b, <2>1, <2>2 DEF Even, Open
  <2>4. \A v \in Worker : ticks'[v].step = "idle"
    BY <1>0, <1>d, <2>1, RestingEffect
  <2> QED
    BY <1>a, <2>3, <2>4 DEF Known, InHand, At
<1>6. CASE \E w \in Worker : LoseLock(w)
  BY <1>0, <1>6 DEF LoseLock, OutboxTypeOK
<1>7. CASE UNCHANGED vars
  BY <1>7 DEF vars, Balance, Undisturbed, DuplicatesAreCrashes, InHand, Sending, At, Pending
<1> QED
  BY <1>1, <1>2, <1>3, <1>4, <1>5, <1>6, <1>7 DEF Next, WorkerStep

\* A delivery is sent more often than it counts attempts only by interrupted
\* ticks, one each, until a worker loses the lock in mid-tick.
THEOREM DuplicatesComeFromCrashes == Spec => []DuplicatesAreCrashes
<1>1. Spec => [](TypeInv /\ Exclusive /\ Fresh /\ Balance)
  BY TypeInit, TypeNext, ExclusiveInit, ExclusiveNext, FreshInit, FreshNext,
     BalanceInit, BalanceNext, PTL DEF Spec
<1>2. Balance => DuplicatesAreCrashes
  BY DEF Balance
<1> QED
  BY <1>1, <1>2, PTL
-----------------------------------------------------------------------------
(* The contract of module Channel.                                         *)

LEMMA StatusReads ==
    ASSUME NEW d \in Delivery, \A x \in Delivery : x # d => rows'[x] = rows[x]
    PROVE  StatusOf' = [StatusOf EXCEPT ![d] = rows'[d].status]
BY DEF StatusOf

LEMMA SameReads ==
    ASSUME UNCHANGED <<sent, accepted>>, (losses = 0)' = (losses = 0),
           \A d \in Delivery : rows'[d].status = rows[d].status
    PROVE  UNCHANGED Promise!vars
<1>1. StatusOf' = StatusOf
  BY DEF StatusOf
<1> QED
  BY <1>1 DEF Promise!vars

LEMMA QueueOffers ==
    ASSUME TypeInv, NEW d \in Delivery, Queue(d)
    PROVE  Promise!Offer(d)
<1>1. /\ rows'[d].status = "pending" /\ rows[d].status = "none"
      /\ \A x \in Delivery : x # d => rows'[x] = rows[x]
      /\ UNCHANGED <<sent, accepted, losses>>
  BY DEF Queue, TypeInv, OutboxTypeOK, DeliveryRow, history, bounds
<1>2. StatusOf' = [StatusOf EXCEPT ![d] = "pending"]
  BY <1>1, StatusReads
<1> QED
  BY <1>1, <1>2 DEF Promise!Offer, Promise!Become, StatusOf

LEMMA SendTries ==
    ASSUME TypeInv, Fresh, Balance, NEW w \in Worker, NEW d \in Delivery,
           At(w, "sending", d), sent' = [sent EXCEPT ![d] = @ + 1],
           accepted' \in {accepted, accepted \cup {d}}, UNCHANGED <<rows, losses>>
    PROVE  Promise!Try(d)
<1>1. rows[d].status # "none"
  BY DEF Fresh, At
<1>2. losses = 0 => rows[d].status \in {"pending", "deleted"}
  BY DEF Balance, Undisturbed, InHand, Pending
<1>3. StatusOf' = StatusOf /\ StatusOf[d] = rows[d].status
  BY DEF StatusOf
<1> QED
  BY <1>1, <1>2, <1>3 DEF Promise!Try

\* What is written over a row that is pending no more is what was there.
LEMMA StoreSettles ==
    ASSUME TypeInv, Counted, NEW w \in Worker, NEW d \in Delivery,
           StoreDelivered(w, d) \/ StoreFailure(w, d)
    PROVE  Promise!Confirm(d) \/ Promise!GiveUp(d) \/ UNCHANGED Promise!vars
<1>1. UNCHANGED <<sent, accepted, losses>>
  BY DEF StoreDelivered, StoreFailure, RecordFailure, history, bounds
<1>2. \A x \in Delivery : x # d \/ ~ Pending(d) => rows'[x] = rows[x]
  BY StoreEffect
<1>3. StatusOf' = [StatusOf EXCEPT ![d] = rows'[d].status] /\ StatusOf[d] = rows[d].status
  BY <1>2, StatusReads DEF StatusOf
<1>4. CASE \A x \in Delivery : rows'[x].status = rows[x].status
  BY <1>1, <1>4, SameReads
<1>5. CASE Pending(d) /\ rows'[d].status = "delivered"
  <2>1. At(w, "answered", d)
    BY <1>5, StoreEffect
  <2>2. d \in accepted
    BY <2>1 DEF Counted, TickCounted
  <2> QED
    BY <1>1, <1>3, <1>5, <2>2 DEF Promise!Confirm, Promise!Become, Pending
<1>6. CASE Pending(d) /\ rows'[d].status = "failed"
  <2>1. ticks[w].attempt = MaxAttempts
    BY <1>6, StoreEffect
  <2>2. At(w, "answered", d) \/ At(w, "refused", d)
    BY DEF StoreDelivered, StoreFailure, RecordFailure
  <2>3. sent[d] >= MaxAttempts
    BY <2>1, <2>2 DEF Counted, TickCounted, TypeInv, OutboxTypeOK
  <2> QED
    BY <1>1, <1>3, <1>6, <2>3 DEF Promise!GiveUp, Promise!Become, Pending
<1> QED
  BY <1>2, <1>4, <1>5, <1>6, StoreEffect DEF Pending

LEMMA DeleteDeletes ==
    ASSUME TypeInv, NEW h \in Webhook, DeleteWebhook(h)
    PROVE  \E gone \in SUBSET Delivery : Promise!Delete(gone)
<1> DEFINE gone == {d \in Delivery : HookOf[d] = h /\ rows[d].status # "none"}
<1>1. \A d \in Delivery : rows'[d].status = IF d \in gone THEN "deleted" ELSE rows[d].status
  BY DEF DeleteWebhook, TypeInv, OutboxTypeOK, DeliveryRow
<1>2. StatusOf' = [d \in Delivery |-> IF d \in gone THEN "deleted" ELSE StatusOf[d]]
  BY <1>1 DEF StatusOf
<1>3. \A d \in gone : StatusOf[d] # "none"
  BY DEF StatusOf
<1>4. UNCHANGED <<sent, accepted, losses>>
  BY DEF DeleteWebhook, history, bounds
<1> HIDE DEF gone
<1>5. Promise!Delete(gone)
  BY <1>2, <1>3, <1>4 DEF Promise!Delete
<1>6. gone \in SUBSET Delivery
  BY DEF gone
<1> QED
  BY <1>5, <1>6

LEMMA ChannelInit == Init => Promise!Init
BY DEF Init, Promise!Init, StatusOf

LEMMA ChannelStep ==
    TypeInv /\ Counted /\ Fresh /\ Balance /\ [Next]_vars => [Promise!Next]_(Promise!vars)
<1> SUFFICES ASSUME TypeInv, Counted, Fresh, Balance, [Next]_vars
             PROVE  Promise!Next \/ UNCHANGED Promise!vars
  OBVIOUS
<1>1. CASE UNCHANGED <<rows, sent, accepted, losses>>
  BY <1>1, SameReads
<1>2. ASSUME NEW h \in Webhook, DeleteWebhook(h) PROVE Promise!Next
  BY <1>2, DeleteDeletes DEF Promise!Next
<1>3. ASSUME NEW d \in Delivery, Queue(d) PROVE Promise!Next
  BY <1>3, QueueOffers DEF Promise!Next
<1>4. ASSUME NEW d \in Delivery, DelayPasses(d) PROVE UNCHANGED Promise!vars
  <2>1. \A x \in Delivery : rows'[x].status = rows[x].status
    BY <1>4 DEF DelayPasses, TypeInv, OutboxTypeOK, DeliveryRow
  <2> QED
    BY <1>4, <2>1, SameReads DEF DelayPasses, history, bounds
<1>5. ASSUME NEW w \in Worker, NEW d \in Delivery, SendSucceeds(w, d) \/ SendFails(w, d)
      PROVE  Promise!Next
  <2>1. Promise!Try(d)
    BY <1>5, SendTries DEF SendSucceeds, SendFails, tables, bounds
  <2> QED
    BY <2>1 DEF Promise!Next
<1>6. ASSUME NEW w \in Worker, NEW d \in Delivery, StoreDelivered(w, d) \/ StoreFailure(w, d)
      PROVE  Promise!Next \/ UNCHANGED Promise!vars
  BY <1>6, StoreSettles DEF Promise!Next
<1>7. ASSUME NEW w \in Worker, Interrupt(w) PROVE Promise!Next \/ UNCHANGED Promise!vars
  <2>1. UNCHANGED <<rows, accepted, losses>>
    BY <1>7 DEF Interrupt, tables
  <2>2. CASE UNCHANGED sent
    BY <1>1, <2>1, <2>2
  <2>3. ASSUME NEW d \in Delivery, At(w, "sending", d), sent' = [sent EXCEPT ![d] = @ + 1]
        PROVE  Promise!Next
    <3>1. Promise!Try(d)
      BY <2>1, <2>3, SendTries
    <3> QED
      BY <3>1 DEF Promise!Next
  <2> QED
    BY <1>7, <2>2, <2>3 DEF Interrupt
<1>8. ASSUME NEW w \in Worker, LoseLock(w) PROVE Promise!Next
  <2>1. (losses = 0)' = FALSE
    BY <1>8 DEF LoseLock, TypeInv, OutboxTypeOK
  <2>2. UNCHANGED <<rows, sent, accepted>>
    BY <1>8 DEF LoseLock, tables, history
  <2>3. StatusOf' = StatusOf
    BY <2>2 DEF StatusOf
  <2>4. Promise!Share
    BY <2>1, <2>2, <2>3 DEF Promise!Share
  <2> QED
    BY <2>4 DEF Promise!Next
<1> QED
  BY <1>1, <1>2, <1>3, <1>4, <1>5, <1>6, <1>7, <1>8
     DEF Next, WorkerStep, RowStep, SaveWebhook, Acquire, Select, Finish, Skip, Load, Join,
         JoinFails, SendRaises, vars, tables, history, bounds

\* Whatever workers, crashes and lost locks do, a delivery has one fate and a
\* reason for it, and while the lock is not lost it is not sent after that.
THEOREM OutboxKeepsPromise == Spec => ChannelHolds
<1>1. Spec => [](TypeInv /\ Counted /\ Fresh /\ Balance)
  BY TypeInit, TypeNext, CountedInit, CountedNext, ExclusiveInit, ExclusiveNext,
     FreshInit, FreshNext, BalanceInit, BalanceNext, PTL DEF Spec
<1>2. Spec => []([Promise!Next]_(Promise!vars))
  BY <1>1, ChannelStep, PTL DEF Spec
<1> QED
  BY <1>2, ChannelInit, PTL DEF Spec, ChannelHolds, Promise!Spec
=============================================================================
