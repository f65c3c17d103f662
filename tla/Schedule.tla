------------------------------ MODULE Schedule ------------------------------
(***************************************************************************)
(* Cron schedules: how admins set them (stacks/service.py save_stack) and   *)
(* how the worker opens checks by them (worker.py _schedule_due).           *)
(*                                                                         *)
(* The worker loads all scheduled stacks at the start of a tick and treats  *)
(* the due ones in turn; for each it asks git for a revision, which may     *)
(* take long, and only then writes.  An admin's form is saved meanwhile.    *)
(* Each writes just the columns it assigned another value to.               *)
(***************************************************************************)
EXTENDS Naturals, Sequences

CONSTANTS
    Stack, NoStack,
    Cron, NoCron,       \* the expressions croniter can be made with
    NextTime,           \* next_schedule: NoTime where get_next raises
    NoTime,
    NoRow,
    Admin,
    MaxTime,            \* bound on the clock
    Horizon,            \* the latest next time of any expression
    MaxEdits,           \* bound on saved forms
    MaxFaults           \* bound on other errors that end a tick

Clock == 0 .. MaxTime
Time == 0 .. Horizon

ASSUME ScheduleAssumption ==
    /\ NoStack \notin Stack
    /\ NoCron \notin Cron
    /\ NoTime \notin Nat
    /\ MaxTime \in Nat /\ Horizon \in Nat /\ MaxEdits \in Nat /\ MaxFaults \in Nat
    /\ NextTime \in [Cron -> [Clock -> Time \cup {NoTime}]]
    /\ \A c \in Cron, t \in Clock : NextTime[c][t] # NoTime => NextTime[c][t] > t

VARIABLES
    now,            \* the clock
    stacks,         \* table stacks
    busy,           \* stacks with an active run
    edits,          \* the form each admin is saving
    worker,         \* the worker, in _schedule_due
    opened,         \* for each stack the times by which checks were opened
    saved, faults

vars == <<now, stacks, busy, edits, worker, opened, saved, faults>>

-----------------------------------------------------------------------------
StackRow == [cron : Cron \cup {NoCron}, next : Time \cup {NoTime}]

NoSchedule == [cron |-> NoCron, next |-> NoTime]

\* row: the stack as the request loaded it.
Edit == [stack : Stack \cup {NoStack}, row : StackRow]

NoEdit == [stack |-> NoStack, row |-> NoSchedule]

\* now: the time the tick started with.  loaded: the stacks in the session,
\* NoRow when a rollback has expired them.  current: the stack whose revision
\* is being resolved, due by the time `due`, its next time computed.
WorkerState ==
    [step : {"idle", "schedule", "resolving"},
     now : Clock,
     todo : SUBSET Stack,
     loaded : [Stack -> StackRow \cup {NoRow}],
     current : Stack \cup {NoStack},
     due : Time, next : Time]

Resting == [step |-> "idle", now |-> 0, todo |-> {}, loaded |-> [s \in Stack |-> NoRow],
            current |-> NoStack, due |-> 0, next |-> 0]

ScheduleTypeOK ==
    /\ now \in Clock
    /\ stacks \in [Stack -> StackRow]
    /\ busy \subseteq Stack
    /\ edits \in [Admin -> Edit]
    /\ worker \in WorkerState
    /\ opened \in [Stack -> Seq(Time)]
    /\ saved \in 0 .. MaxEdits
    /\ faults \in 0 .. MaxFaults

Init ==
    /\ now = 0
    /\ stacks = [s \in Stack |-> NoSchedule]
    /\ busy = {}
    /\ edits = [u \in Admin |-> NoEdit]
    /\ worker = Resting
    /\ opened = [s \in Stack |-> <<>>]
    /\ saved = 0
    /\ faults = 0

-----------------------------------------------------------------------------
(* Admins.  A stack that is created is one whose row had no schedule.      *)

LoadForm(u, s) ==
    /\ edits[u] = NoEdit
    /\ saved < MaxEdits
    /\ saved' = saved + 1
    /\ edits' = [edits EXCEPT ![u] = [stack |-> s, row |-> stacks[s]]]
    /\ UNCHANGED <<now, stacks, busy, worker, opened, faults>>

\* The next time of a saved form: a time the row has is kept.
FormNext(row, cron) ==
    IF cron = NoCron THEN NoTime
    ELSE IF row.next = NoTime THEN NextTime[cron][now] ELSE row.next

SaveForm(u, cron) ==
    LET row == edits[u].row
        next == FormNext(row, cron) IN
    /\ edits[u] # NoEdit
    /\ cron # NoCron => next # NoTime
    /\ stacks' = [stacks EXCEPT ![edits[u].stack] =
                     [cron |-> IF cron = row.cron THEN @.cron ELSE cron,
                      next |-> IF next = row.next THEN @.next ELSE next]]
    /\ edits' = [edits EXCEPT ![u] = NoEdit]
    /\ UNCHANGED <<now, busy, worker, opened, saved, faults>>

\* The form is invalid, or its expression has no next time.
RefuseForm(u) ==
    /\ edits[u] # NoEdit
    /\ edits' = [edits EXCEPT ![u] = NoEdit]
    /\ UNCHANGED <<now, stacks, busy, worker, opened, saved, faults>>

-----------------------------------------------------------------------------
(* The worker.                                                             *)

StartTick ==
    /\ worker.step = "idle"
    /\ worker' = [Resting EXCEPT
                     !.step = "schedule", !.now = now, !.loaded = stacks,
                     !.todo = {s \in Stack : stacks[s].cron # NoCron /\ stacks[s].next # NoTime}]
    /\ UNCHANGED <<now, stacks, busy, edits, opened, saved, faults>>

\* What the session knows of a stack when its turn comes.
Known(s) == IF worker.loaded[s] = NoRow THEN stacks[s] ELSE worker.loaded[s]

IsDue(row, t) == row.next # NoTime /\ row.next <= t

SkipStack(s) ==
    /\ worker.step = "schedule" /\ s \in worker.todo
    /\ ~ IsDue(Known(s), worker.now)
    /\ worker' = [worker EXCEPT !.todo = @ \ {s}]
    /\ UNCHANGED <<now, stacks, busy, edits, opened, saved, faults>>

\* An expression without a next time is not noticed.
BugBeginResolve(s) ==
    LET row == Known(s) IN
    /\ worker.step = "schedule" /\ s \in worker.todo
    /\ IsDue(row, worker.now) /\ row.cron # NoCron
    /\ worker' = [worker EXCEPT !.step = "resolving", !.current = s, !.due = row.next,
                                !.next = NextTime[row.cron][worker.now]]
    /\ UNCHANGED <<now, stacks, busy, edits, opened, saved, faults>>

\* next_schedule is computed before the revision is asked for.
BeginResolve(s) ==
    LET row == Known(s) IN
    /\ worker.step = "schedule" /\ s \in worker.todo
    /\ IsDue(row, worker.now)
    /\ row.cron # NoCron /\ NextTime[row.cron][worker.now] # NoTime
    /\ worker' = [worker EXCEPT !.step = "resolving", !.current = s, !.due = row.next,
                                !.next = NextTime[row.cron][worker.now]]
    /\ UNCHANGED <<now, stacks, busy, edits, opened, saved, faults>>

\* ... and outside of any try: the tick ends when the expression has none.
NextRaises(s) ==
    LET row == Known(s) IN
    /\ worker.step = "schedule" /\ s \in worker.todo
    /\ IsDue(row, worker.now)
    /\ row.cron = NoCron \/ NextTime[row.cron][worker.now] = NoTime
    /\ worker' = Resting
    /\ UNCHANGED <<now, stacks, busy, edits, opened, saved, faults>>

\* The worker goes on with the next stack, having advanced this one.
Advance(s, known) ==
    /\ stacks' = [stacks EXCEPT ![s].next = worker.next]
    /\ worker' = [worker EXCEPT !.step = "schedule", !.todo = @ \ {s}, !.loaded = known,
                                !.current = NoStack, !.due = 0, !.next = 0]

\* The time is not advanced with the run.
BugOpenCheck(s, resolved) ==
    /\ worker.step = "resolving" /\ s = worker.current
    /\ s \notin busy
    /\ busy' = IF resolved THEN busy \cup {s} ELSE busy
    /\ opened' = [opened EXCEPT ![s] = Append(@, worker.due)]
    /\ worker' = [worker EXCEPT !.step = "schedule", !.todo = @ \ {s}]
    /\ UNCHANGED <<now, stacks, edits, saved, faults>>

\* The time and the run in one transaction.  When no revision could be
\* resolved the run fails before it is committed.
OpenCheck(s, resolved) ==
    /\ worker.step = "resolving" /\ s = worker.current
    /\ s \notin busy
    /\ busy' = IF resolved THEN busy \cup {s} ELSE busy
    /\ opened' = [opened EXCEPT ![s] = Append(@, worker.due)]
    /\ Advance(s, worker.loaded)
    /\ UNCHANGED <<now, edits, saved, faults>>

\* A busy stack is left for the next tick, and found due again.
BugSkipBusy(s) ==
    /\ worker.step = "resolving" /\ s = worker.current
    /\ s \in busy
    /\ worker' = [worker EXCEPT !.step = "schedule", !.loaded = [x \in Stack |-> NoRow]]
    /\ UNCHANGED <<now, stacks, busy, edits, opened, saved, faults>>

\* create_run found an active run: everything is rolled back, then the time is
\* written alone.
SkipBusy(s) ==
    /\ worker.step = "resolving" /\ s = worker.current
    /\ s \in busy
    /\ Advance(s, [x \in Stack |-> NoRow])
    /\ UNCHANGED <<now, busy, edits, opened, saved, faults>>

EndTick ==
    /\ worker.step = "schedule" /\ worker.todo = {}
    /\ worker' = Resting
    /\ UNCHANGED <<now, stacks, busy, edits, opened, saved, faults>>

\* Any other error, or the end of the process: nothing is committed.
TickFails ==
    /\ worker.step # "idle"
    /\ faults < MaxFaults
    /\ faults' = faults + 1
    /\ worker' = Resting
    /\ UNCHANGED <<now, stacks, busy, edits, opened, saved>>

-----------------------------------------------------------------------------
(* The rest of the system.                                                 *)

TimePasses ==
    /\ now < MaxTime
    /\ now' = now + 1
    /\ UNCHANGED <<stacks, busy, edits, worker, opened, saved, faults>>

\* A run of CI or of a user begins, or any run ends.
OtherRunOpens(s) ==
    /\ s \notin busy
    /\ busy' = busy \cup {s}
    /\ UNCHANGED <<now, stacks, edits, worker, opened, saved, faults>>

RunEnds(s) ==
    /\ s \in busy
    /\ busy' = busy \ {s}
    /\ UNCHANGED <<now, stacks, edits, worker, opened, saved, faults>>

-----------------------------------------------------------------------------
WorkerStep ==
    \/ StartTick \/ EndTick
    \/ \E s \in Stack :
          \/ SkipStack(s) \/ BeginResolve(s) \/ NextRaises(s) \/ SkipBusy(s)
          \/ \E resolved \in BOOLEAN : OpenCheck(s, resolved)

Next ==
    \/ \E u \in Admin : \/ \E s \in Stack : LoadForm(u, s)
                        \/ \E c \in Cron \cup {NoCron} : SaveForm(u, c)
                        \/ RefuseForm(u)
    \/ WorkerStep
    \/ TickFails
    \/ TimePasses
    \/ \E s \in Stack : OtherRunOpens(s) \/ RunEnds(s)

Spec == Init /\ [][Next]_vars

\* main() loops for ever, and asking git for a revision comes to an end.
FairSpec == Spec /\ WF_vars(WorkerStep)

-----------------------------------------------------------------------------
(* Properties.                                                             *)

\* A stack opens at most one check by each of its times, in their order: the
\* run and the advance are one transaction, which a form saved or a tick ended
\* at any moment does not take apart (worker.py:99-109).
OncePerTime ==
    \A s \in Stack : \A i, j \in 1 .. Len(opened[s]) :
        i < j => opened[s][i] < opened[s][j]

Waiting(s) ==
    /\ stacks[s].cron # NoCron
    /\ IsDue(stacks[s], now)
    /\ \A t \in Clock : NextTime[stacks[s].cron][t] # NoTime

\* While no stack has an expression without a next time, a due stack is treated
\* in the end, although forms are saved in the middle of ticks, ticks fail, and
\* a rollback for a busy stack expires the session (worker.py:76-121).
SoundSchedules ==
    \A s \in Stack : stacks[s].cron # NoCron =>
                        \A t \in Clock : NextTime[stacks[s].cron][t] # NoTime

DueStacksAreTreated ==
    \A s \in Stack : (Waiting(s) /\ SoundSchedules) ~> ~ (Waiting(s) /\ SoundSchedules)
=============================================================================
