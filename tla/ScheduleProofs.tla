---------------------------- MODULE ScheduleProofs ----------------------------
(***************************************************************************)
(* A stack opens at most one check by each of its times, for any stacks,    *)
(* admins, expressions and bounds.                                         *)
(*                                                                         *)
(* The worker opens a check by a time that it loaded, perhaps long ago, and *)
(* forms are saved meanwhile.  The inductive invariant says why that time   *)
(* is a new one wherever it is kept: in the table, in the session of the    *)
(* tick for the stacks it has yet to treat, and in the worker's hand.       *)
(***************************************************************************)
EXTENDS Schedule, TLAPS

\* Every check of s was opened by a time before t.
OpenedBefore(s, t) == \A i \in 1 .. Len(opened[s]) : opened[s][i] < t

OpenedInThePast == \A s \in Stack : OpenedBefore(s, now + 1)

TableIsAhead ==
    \A s \in Stack : stacks[s].next # NoTime => OpenedBefore(s, stacks[s].next)

SessionIsAhead ==
    \A s \in worker.todo :
        worker.loaded[s] # NoRow /\ worker.loaded[s].next # NoTime =>
            OpenedBefore(s, worker.loaded[s].next)

HandIsAhead ==
    /\ worker.now <= now
    /\ worker.step = "resolving" =>
        /\ worker.current \in Stack
        /\ OpenedBefore(worker.current, worker.due)
        /\ worker.due <= worker.now /\ worker.now < worker.next

IInv ==
    /\ ScheduleTypeOK
    /\ OncePerTime
    /\ OpenedInThePast
    /\ TableIsAhead
    /\ SessionIsAhead
    /\ HandIsAhead

-----------------------------------------------------------------------------
(* Proofs.                                                                 *)

LEMMA IInvInit == Init => IInv
<1> SUFFICES ASSUME Init PROVE IInv
  OBVIOUS
<1> USE ScheduleAssumption DEF Init, Clock, Time
<1>1. ScheduleTypeOK
  BY DEF ScheduleTypeOK, NoSchedule, StackRow, Edit, NoEdit, WorkerState, Resting
<1>2. \A s \in Stack : Len(opened[s]) = 0
  OBVIOUS
<1>3. OncePerTime /\ OpenedInThePast /\ TableIsAhead
  BY <1>2 DEF OncePerTime, OpenedInThePast, TableIsAhead, OpenedBefore
<1>4. SessionIsAhead /\ HandIsAhead
  BY DEF SessionIsAhead, HandIsAhead, Resting
<1> QED BY <1>1, <1>3, <1>4 DEF IInv

\* What is left when no check is opened.
LEMMA NothingOpened ==
    ASSUME UNCHANGED opened
    PROVE  /\ OncePerTime => OncePerTime'
           /\ \A s, t : OpenedBefore(s, t)' <=> OpenedBefore(s, t)
BY DEF OncePerTime, OpenedBefore

LEMMA RestingType == Resting \in WorkerState
BY ScheduleAssumption DEF Resting, WorkerState, Clock, Time

LEMMA TypeStep == ScheduleTypeOK /\ [Next]_vars => ScheduleTypeOK'
<1> SUFFICES ASSUME ScheduleTypeOK, [Next]_vars PROVE ScheduleTypeOK'
  OBVIOUS
<1> USE ScheduleAssumption
<1>1. ASSUME NEW u \in Admin, NEW s \in Stack, LoadForm(u, s) PROVE ScheduleTypeOK'
  BY <1>1 DEF ScheduleTypeOK, LoadForm, Edit, StackRow, NoEdit
<1>2. ASSUME NEW u \in Admin, NEW c \in Cron \cup {NoCron}, SaveForm(u, c) PROVE ScheduleTypeOK'
  <2> DEFINE row == edits[u].row
             next == FormNext(row, c)
  <2>1. edits[u].stack \in Stack \cup {NoStack} /\ row \in StackRow
    BY DEF ScheduleTypeOK, Edit
  <2>2. NextTime[c][now] \in Time \cup {NoTime} \/ c = NoCron
    BY DEF ScheduleTypeOK
  <2>3. next \in Time \cup {NoTime}
    BY <2>1, <2>2 DEF FormNext, StackRow
  <2>4. \A s \in Stack : [cron |-> IF c = row.cron THEN stacks[s].cron ELSE c,
                          next |-> IF next = row.next THEN stacks[s].next ELSE next]
                            \in StackRow
    BY <2>3 DEF ScheduleTypeOK, StackRow
  <2>5. stacks' \in [Stack -> StackRow]
    BY <1>2, <2>1, <2>4 DEF SaveForm, ScheduleTypeOK
  <2>6. edits' \in [Admin -> Edit]
    BY <1>2 DEF SaveForm, ScheduleTypeOK, Edit, NoEdit, NoSchedule, StackRow
  <2> QED BY <1>2, <2>5, <2>6 DEF SaveForm, ScheduleTypeOK
<1>3. ASSUME NEW u \in Admin, RefuseForm(u) PROVE ScheduleTypeOK'
  BY <1>3 DEF ScheduleTypeOK, RefuseForm, Edit, NoEdit, NoSchedule, StackRow
<1>4. ASSUME StartTick PROVE ScheduleTypeOK'
  <2>1. worker' \in WorkerState
    BY <1>4, RestingType DEF StartTick, Resting, WorkerState, ScheduleTypeOK
  <2> QED BY <1>4, <2>1 DEF StartTick, ScheduleTypeOK
<1>5. ASSUME EndTick PROVE ScheduleTypeOK'
  BY <1>5, RestingType DEF ScheduleTypeOK, EndTick
<1>6. ASSUME NEW s \in Stack, SkipStack(s) PROVE ScheduleTypeOK'
  BY <1>6 DEF ScheduleTypeOK, SkipStack, WorkerState
<1>7. ASSUME NEW s \in Stack, BeginResolve(s) PROVE ScheduleTypeOK'
  <2>1. Known(s) \in StackRow
    BY <1>7 DEF BeginResolve, IsDue, Known, ScheduleTypeOK, WorkerState
  <2>2. Known(s).next \in Time /\ NextTime[Known(s).cron][worker.now] \in Time
    BY <1>7, <2>1 DEF BeginResolve, IsDue, StackRow, ScheduleTypeOK, WorkerState
  <2>3. worker' \in WorkerState
    BY <1>7, <2>2 DEF BeginResolve, ScheduleTypeOK, WorkerState
  <2> QED BY <1>7, <2>3 DEF BeginResolve, ScheduleTypeOK
<1>8. ASSUME NEW s \in Stack, NextRaises(s) PROVE ScheduleTypeOK'
  BY <1>8, RestingType DEF ScheduleTypeOK, NextRaises
<1>9. ASSUME NEW s \in Stack, SkipBusy(s) PROVE ScheduleTypeOK'
  <2>1. stacks' \in [Stack -> StackRow]
    <3>1. worker.next \in Time /\ stacks[s] \in StackRow
      BY DEF ScheduleTypeOK, WorkerState
    <3>2. [stacks[s] EXCEPT !.next = worker.next] \in StackRow
      BY <3>1 DEF StackRow
    <3>3. stacks' = [stacks EXCEPT ![s] = [stacks[s] EXCEPT !.next = worker.next]]
      BY <1>9 DEF SkipBusy, Advance
    <3> QED BY <3>2, <3>3 DEF ScheduleTypeOK
  <2>2. worker' \in WorkerState
    BY <1>9, RestingType DEF SkipBusy, Advance, ScheduleTypeOK, WorkerState, Resting
  <2> QED BY <1>9, <2>1, <2>2 DEF SkipBusy, ScheduleTypeOK
<1>10. ASSUME NEW s \in Stack, NEW resolved \in BOOLEAN, OpenCheck(s, resolved) PROVE ScheduleTypeOK'
  <2>1. stacks' \in [Stack -> StackRow]
    <3>1. worker.next \in Time /\ stacks[s] \in StackRow
      BY DEF ScheduleTypeOK, WorkerState
    <3>2. [stacks[s] EXCEPT !.next = worker.next] \in StackRow
      BY <3>1 DEF StackRow
    <3>3. stacks' = [stacks EXCEPT ![s] = [stacks[s] EXCEPT !.next = worker.next]]
      BY <1>10 DEF OpenCheck, Advance
    <3> QED BY <3>2, <3>3 DEF ScheduleTypeOK
  <2>2. worker' \in WorkerState
    BY <1>10, RestingType DEF OpenCheck, Advance, ScheduleTypeOK, WorkerState, Resting
  <2>3. opened' \in [Stack -> Seq(Time)]
    BY <1>10 DEF OpenCheck, ScheduleTypeOK, WorkerState
  <2> QED BY <1>10, <2>1, <2>2, <2>3 DEF OpenCheck, ScheduleTypeOK
<1>11. ASSUME TickFails PROVE ScheduleTypeOK'
  BY <1>11, RestingType DEF ScheduleTypeOK, TickFails
<1>12. ASSUME TimePasses PROVE ScheduleTypeOK'
  BY <1>12 DEF ScheduleTypeOK, TimePasses, Clock
<1>13. ASSUME NEW s \in Stack, OtherRunOpens(s) PROVE ScheduleTypeOK'
  BY <1>13 DEF ScheduleTypeOK, OtherRunOpens
<1>14. ASSUME NEW s \in Stack, RunEnds(s) PROVE ScheduleTypeOK'
  BY <1>14 DEF ScheduleTypeOK, RunEnds
<1>15. CASE UNCHANGED vars
  BY <1>15 DEF vars, ScheduleTypeOK
<1> QED
  BY <1>1, <1>2, <1>3, <1>4, <1>5, <1>6, <1>7, <1>8, <1>9, <1>10, <1>11, <1>12,
        <1>13, <1>14, <1>15 DEF Next, WorkerStep

LEMMA IInvStep == IInv /\ [Next]_vars => IInv'
<1> SUFFICES ASSUME IInv, [Next]_vars PROVE IInv'
  OBVIOUS
<1> USE ScheduleAssumption DEF Clock, Time
<1>0. ScheduleTypeOK'
  BY TypeStep DEF IInv
<1>1. ASSUME NEW u \in Admin, NEW s \in Stack, LoadForm(u, s) PROVE IInv'
  <2>2. OncePerTime' /\ \A x, t : OpenedBefore(x, t)' <=> OpenedBefore(x, t)
    BY <1>1, NothingOpened DEF LoadForm, IInv
  <2>3. OpenedInThePast'
    BY <1>1, <2>2 DEF IInv, OpenedInThePast, LoadForm
  <2>4. TableIsAhead'
    BY <1>1, <2>2 DEF IInv, ScheduleTypeOK, TableIsAhead, LoadForm
  <2>5. SessionIsAhead'
    BY <1>1, <2>2 DEF IInv, SessionIsAhead, LoadForm
  <2>6. HandIsAhead'
    BY <1>1, <2>2 DEF IInv, ScheduleTypeOK, HandIsAhead, LoadForm, WorkerState
  <2> QED BY <1>0, <2>2, <2>3, <2>4, <2>5, <2>6 DEF IInv
<1>2. ASSUME NEW u \in Admin, NEW c \in Cron \cup {NoCron}, SaveForm(u, c) PROVE IInv'
  <2>2. OncePerTime' /\ \A x, t : OpenedBefore(x, t)' <=> OpenedBefore(x, t)
    BY <1>2, NothingOpened DEF SaveForm, IInv
  <2>3. OpenedInThePast'
    BY <1>2, <2>2 DEF IInv, OpenedInThePast, SaveForm
  <2>4. TableIsAhead'
    BY <1>2, <2>2 DEF IInv, ScheduleTypeOK, TableIsAhead, SaveForm, FormNext, Edit,
        StackRow, OpenedInThePast, OpenedBefore
  <2>5. SessionIsAhead'
    BY <1>2, <2>2 DEF IInv, SessionIsAhead, SaveForm
  <2>6. HandIsAhead'
    BY <1>2, <2>2 DEF IInv, ScheduleTypeOK, HandIsAhead, SaveForm, FormNext,
        WorkerState
  <2> QED BY <1>0, <2>2, <2>3, <2>4, <2>5, <2>6 DEF IInv
<1>3. ASSUME NEW u \in Admin, RefuseForm(u) PROVE IInv'
  <2>2. OncePerTime' /\ \A x, t : OpenedBefore(x, t)' <=> OpenedBefore(x, t)
    BY <1>3, NothingOpened DEF RefuseForm, IInv
  <2>3. OpenedInThePast'
    BY <1>3, <2>2 DEF IInv, OpenedInThePast, RefuseForm
  <2>4. TableIsAhead'
    BY <1>3, <2>2 DEF IInv, ScheduleTypeOK, TableIsAhead, RefuseForm
  <2>5. SessionIsAhead'
    BY <1>3, <2>2 DEF IInv, SessionIsAhead, RefuseForm
  <2>6. HandIsAhead'
    BY <1>3, <2>2 DEF IInv, ScheduleTypeOK, HandIsAhead, RefuseForm, WorkerState
  <2> QED BY <1>0, <2>2, <2>3, <2>4, <2>5, <2>6 DEF IInv
<1>4. ASSUME StartTick PROVE IInv'
  <2>2. OncePerTime' /\ \A x, t : OpenedBefore(x, t)' <=> OpenedBefore(x, t)
    BY <1>4, NothingOpened DEF StartTick, IInv
  <2>3. OpenedInThePast'
    BY <1>4, <2>2 DEF IInv, OpenedInThePast, StartTick
  <2>4. TableIsAhead'
    BY <1>4, <2>2 DEF IInv, ScheduleTypeOK, TableIsAhead, StartTick, Resting
  <2>5. SessionIsAhead'
    BY <1>4, <2>2 DEF IInv, SessionIsAhead, ScheduleTypeOK, WorkerState, StartTick,
        Resting, TableIsAhead
  <2>6. HandIsAhead'
    BY <1>4, <2>2 DEF IInv, ScheduleTypeOK, HandIsAhead, StartTick, Resting,
        WorkerState
  <2> QED BY <1>0, <2>2, <2>3, <2>4, <2>5, <2>6 DEF IInv
<1>5. ASSUME EndTick PROVE IInv'
  <2>2. OncePerTime' /\ \A x, t : OpenedBefore(x, t)' <=> OpenedBefore(x, t)
    BY <1>5, NothingOpened DEF EndTick, IInv
  <2>3. OpenedInThePast'
    BY <1>5, <2>2 DEF IInv, OpenedInThePast, EndTick
  <2>4. TableIsAhead'
    BY <1>5, <2>2 DEF IInv, ScheduleTypeOK, TableIsAhead, EndTick, Resting
  <2>5. SessionIsAhead'
    BY <1>5, <2>2 DEF IInv, SessionIsAhead, ScheduleTypeOK, WorkerState, EndTick,
        Resting
  <2>6. HandIsAhead'
    BY <1>5, <2>2 DEF IInv, ScheduleTypeOK, HandIsAhead, EndTick, Resting,
        WorkerState
  <2> QED BY <1>0, <2>2, <2>3, <2>4, <2>5, <2>6 DEF IInv
<1>6. ASSUME NEW s \in Stack, SkipStack(s) PROVE IInv'
  <2>2. OncePerTime' /\ \A x, t : OpenedBefore(x, t)' <=> OpenedBefore(x, t)
    BY <1>6, NothingOpened DEF SkipStack, IInv
  <2>3. OpenedInThePast'
    BY <1>6, <2>2 DEF IInv, OpenedInThePast, SkipStack
  <2>4. TableIsAhead'
    BY <1>6, <2>2 DEF IInv, ScheduleTypeOK, TableIsAhead, SkipStack
  <2>5. SessionIsAhead'
    BY <1>6, <2>2 DEF IInv, SessionIsAhead, ScheduleTypeOK, WorkerState, SkipStack
  <2>6. HandIsAhead'
    BY <1>6, <2>2 DEF IInv, ScheduleTypeOK, HandIsAhead, SkipStack, WorkerState
  <2> QED BY <1>0, <2>2, <2>3, <2>4, <2>5, <2>6 DEF IInv
<1>7. ASSUME NEW s \in Stack, BeginResolve(s) PROVE IInv'
  <2>2. OncePerTime' /\ \A x, t : OpenedBefore(x, t)' <=> OpenedBefore(x, t)
    BY <1>7, NothingOpened DEF BeginResolve, IInv
  <2>3. OpenedInThePast'
    BY <1>7, <2>2 DEF IInv, OpenedInThePast, BeginResolve
  <2>4. TableIsAhead'
    BY <1>7, <2>2 DEF IInv, ScheduleTypeOK, TableIsAhead, BeginResolve, Known, IsDue
  <2>5. SessionIsAhead'
    BY <1>7, <2>2 DEF IInv, SessionIsAhead, ScheduleTypeOK, WorkerState,
        BeginResolve, Known, IsDue
  <2>6. HandIsAhead'
    BY <1>7, <2>2 DEF IInv, ScheduleTypeOK, HandIsAhead, BeginResolve, Known, IsDue,
        WorkerState, TableIsAhead, SessionIsAhead, StackRow
  <2> QED BY <1>0, <2>2, <2>3, <2>4, <2>5, <2>6 DEF IInv
<1>8. ASSUME NEW s \in Stack, NextRaises(s) PROVE IInv'
  <2>2. OncePerTime' /\ \A x, t : OpenedBefore(x, t)' <=> OpenedBefore(x, t)
    BY <1>8, NothingOpened DEF NextRaises, IInv
  <2>3. OpenedInThePast'
    BY <1>8, <2>2 DEF IInv, OpenedInThePast, NextRaises
  <2>4. TableIsAhead'
    BY <1>8, <2>2 DEF IInv, ScheduleTypeOK, TableIsAhead, NextRaises, Resting
  <2>5. SessionIsAhead'
    BY <1>8, <2>2 DEF IInv, SessionIsAhead, ScheduleTypeOK, WorkerState, NextRaises,
        Resting
  <2>6. HandIsAhead'
    BY <1>8, <2>2 DEF IInv, ScheduleTypeOK, HandIsAhead, NextRaises, Resting,
        WorkerState
  <2> QED BY <1>0, <2>2, <2>3, <2>4, <2>5, <2>6 DEF IInv
<1>9. ASSUME NEW s \in Stack, SkipBusy(s) PROVE IInv'
  <2>2. OncePerTime' /\ \A x, t : OpenedBefore(x, t)' <=> OpenedBefore(x, t)
    BY <1>9, NothingOpened DEF SkipBusy, IInv
  <2>3. OpenedInThePast'
    BY <1>9, <2>2 DEF IInv, OpenedInThePast, SkipBusy
  <2>4. TableIsAhead'
    BY <1>9, <2>2 DEF IInv, ScheduleTypeOK, TableIsAhead, SkipBusy, Advance,
        HandIsAhead, OpenedBefore, WorkerState, StackRow
  <2>5. SessionIsAhead'
    BY <1>9, <2>2 DEF IInv, SessionIsAhead, ScheduleTypeOK, WorkerState, SkipBusy,
        Advance
  <2>6. HandIsAhead'
    BY <1>9, <2>2 DEF IInv, ScheduleTypeOK, HandIsAhead, SkipBusy, Advance,
        WorkerState
  <2> QED BY <1>0, <2>2, <2>3, <2>4, <2>5, <2>6 DEF IInv
<1>10. ASSUME NEW s \in Stack, NEW resolved \in BOOLEAN, OpenCheck(s, resolved) PROVE IInv'
  <2>2. /\ opened' = [opened EXCEPT ![s] = Append(@, worker.due)]
        /\ s = worker.current /\ OpenedBefore(s, worker.due)
        /\ worker.due <= worker.now /\ worker.now < worker.next /\ worker.now <= now
    BY <1>10 DEF OpenCheck, IInv, HandIsAhead
  <2>3. /\ opened[s] \in Seq(Time) /\ worker.due \in Time /\ worker.next \in Time
        /\ now \in Nat /\ worker.now \in Nat
    BY DEF IInv, ScheduleTypeOK, WorkerState
  <2>4. \A t \in Nat : worker.due < t /\ OpenedBefore(s, t) => OpenedBefore(s, t)'
    BY <2>2, <2>3 DEF OpenedBefore, IInv, ScheduleTypeOK
  <2>5. \A x \in Stack \ {s}, t \in Nat : OpenedBefore(x, t)' <=> OpenedBefore(x, t)
    BY <2>2 DEF OpenedBefore, IInv, ScheduleTypeOK
  <2>6. OpenedBefore(s, worker.next)
    BY <2>2, <2>3 DEF OpenedBefore
  <2>7. OncePerTime'
    <3> SUFFICES ASSUME NEW x \in Stack, NEW i \in (1 .. Len(opened[x]))',
                        NEW j \in (1 .. Len(opened[x]))', i < j
                 PROVE  opened'[x][i] < opened'[x][j]
      BY DEF OncePerTime
    <3>1. CASE x # s
      <4>1. opened'[x] = opened[x]
        BY <2>2, <3>1 DEF IInv, ScheduleTypeOK
      <4> QED BY <4>1 DEF IInv, OncePerTime
    <3>2. CASE x = s
      <4>1. opened'[s] = Append(opened[s], worker.due)
        BY <2>2 DEF IInv, ScheduleTypeOK
      <4>2. /\ Len(opened'[s]) = Len(opened[s]) + 1 /\ Len(opened[s]) \in Nat
            /\ opened'[s][Len(opened[s]) + 1] = worker.due
            /\ \A k \in 1 .. Len(opened[s]) : opened'[s][k] = opened[s][k]
        BY <2>3, <4>1
      <4>3. CASE j = Len(opened[s]) + 1
        BY <2>2, <3>2, <4>2, <4>3 DEF OpenedBefore
      <4>4. CASE j # Len(opened[s]) + 1
        BY <3>2, <4>2, <4>4 DEF IInv, OncePerTime
      <4> QED BY <4>3, <4>4
    <3> QED BY <3>1, <3>2
  <2>8. OpenedInThePast'
    BY <1>10, <2>2, <2>3, <2>4, <2>5 DEF OpenCheck, OpenedInThePast, IInv
  <2>9. TableIsAhead'
    <3>1. ASSUME NEW x \in Stack, NEW t, t = stacks'[x].next, t # NoTime
          PROVE  OpenedBefore(x, t)'
      <4>1. CASE x = s
        BY <1>10, <2>2, <2>3, <2>4, <2>6, <3>1, <4>1
           DEF OpenCheck, Advance, IInv, ScheduleTypeOK, StackRow
      <4>2. CASE x # s
        BY <1>10, <2>5, <3>1, <4>2
           DEF OpenCheck, Advance, IInv, ScheduleTypeOK, StackRow, TableIsAhead
      <4> QED BY <4>1, <4>2
    <3> QED BY <3>1 DEF TableIsAhead, OpenedBefore
  <2>10. SessionIsAhead'
    BY <1>10, <2>2, <2>5
       DEF OpenCheck, Advance, IInv, ScheduleTypeOK, WorkerState, StackRow, SessionIsAhead
  <2>11. HandIsAhead'
    BY <1>10 DEF OpenCheck, Advance, IInv, ScheduleTypeOK, WorkerState, HandIsAhead
  <2> QED BY <1>0, <2>7, <2>8, <2>9, <2>10, <2>11 DEF IInv
<1>11. ASSUME TickFails PROVE IInv'
  <2>2. OncePerTime' /\ \A x, t : OpenedBefore(x, t)' <=> OpenedBefore(x, t)
    BY <1>11, NothingOpened DEF TickFails, IInv
  <2>3. OpenedInThePast'
    BY <1>11, <2>2 DEF IInv, OpenedInThePast, TickFails
  <2>4. TableIsAhead'
    BY <1>11, <2>2 DEF IInv, ScheduleTypeOK, TableIsAhead, TickFails, Resting
  <2>5. SessionIsAhead'
    BY <1>11, <2>2 DEF IInv, SessionIsAhead, ScheduleTypeOK, WorkerState, TickFails,
        Resting
  <2>6. HandIsAhead'
    BY <1>11, <2>2 DEF IInv, ScheduleTypeOK, HandIsAhead, TickFails, Resting,
        WorkerState
  <2> QED BY <1>0, <2>2, <2>3, <2>4, <2>5, <2>6 DEF IInv
<1>12. ASSUME TimePasses PROVE IInv'
  <2>2. OncePerTime' /\ \A x, t : OpenedBefore(x, t)' <=> OpenedBefore(x, t)
    BY <1>12, NothingOpened DEF TimePasses, IInv
  <2>3. OpenedInThePast'
    BY <1>12 DEF TimePasses, IInv, ScheduleTypeOK, OpenedInThePast, OpenedBefore
  <2>4. TableIsAhead'
    BY <1>12, <2>2 DEF IInv, ScheduleTypeOK, TableIsAhead, TimePasses
  <2>5. SessionIsAhead'
    BY <1>12, <2>2 DEF IInv, SessionIsAhead, TimePasses
  <2>6. HandIsAhead'
    BY <1>12, <2>2 DEF IInv, ScheduleTypeOK, HandIsAhead, TimePasses, WorkerState
  <2> QED BY <1>0, <2>2, <2>3, <2>4, <2>5, <2>6 DEF IInv
<1>13. ASSUME NEW s \in Stack, OtherRunOpens(s) PROVE IInv'
  <2>2. OncePerTime' /\ \A x, t : OpenedBefore(x, t)' <=> OpenedBefore(x, t)
    BY <1>13, NothingOpened DEF OtherRunOpens, IInv
  <2>3. OpenedInThePast'
    BY <1>13, <2>2 DEF IInv, OpenedInThePast, OtherRunOpens
  <2>4. TableIsAhead'
    BY <1>13, <2>2 DEF IInv, ScheduleTypeOK, TableIsAhead, OtherRunOpens
  <2>5. SessionIsAhead'
    BY <1>13, <2>2 DEF IInv, SessionIsAhead, OtherRunOpens
  <2>6. HandIsAhead'
    BY <1>13, <2>2 DEF IInv, ScheduleTypeOK, HandIsAhead, OtherRunOpens, WorkerState
  <2> QED BY <1>0, <2>2, <2>3, <2>4, <2>5, <2>6 DEF IInv
<1>14. ASSUME NEW s \in Stack, RunEnds(s) PROVE IInv'
  <2>2. OncePerTime' /\ \A x, t : OpenedBefore(x, t)' <=> OpenedBefore(x, t)
    BY <1>14, NothingOpened DEF RunEnds, IInv
  <2>3. OpenedInThePast'
    BY <1>14, <2>2 DEF IInv, OpenedInThePast, RunEnds
  <2>4. TableIsAhead'
    BY <1>14, <2>2 DEF IInv, ScheduleTypeOK, TableIsAhead, RunEnds
  <2>5. SessionIsAhead'
    BY <1>14, <2>2 DEF IInv, SessionIsAhead, RunEnds
  <2>6. HandIsAhead'
    BY <1>14, <2>2 DEF IInv, ScheduleTypeOK, HandIsAhead, RunEnds, WorkerState
  <2> QED BY <1>0, <2>2, <2>3, <2>4, <2>5, <2>6 DEF IInv
<1>15. CASE UNCHANGED vars
  BY <1>15 DEF vars, IInv, ScheduleTypeOK, OncePerTime, OpenedInThePast,
        TableIsAhead, SessionIsAhead, HandIsAhead, OpenedBefore
<1> QED
  BY <1>1, <1>2, <1>3, <1>4, <1>5, <1>6, <1>7, <1>8, <1>9, <1>10, <1>11, <1>12,
        <1>13, <1>14, <1>15 DEF Next, WorkerStep

LEMMA IInvHolds == Spec => []IInv
BY IInvInit, IInvStep, PTL DEF Spec

\* Every variable keeps its type: the times of the table, of the session and of
\* the worker are times the expressions can have (worker.py:76-109,
\* stacks/service.py:86-105).
THEOREM ScheduleTypeCorrect == Spec => []ScheduleTypeOK
<1>1. IInv => ScheduleTypeOK
  BY DEF IInv
<1> QED BY <1>1, IInvHolds, PTL

\* A stack opens at most one check by each of its times, in their order
\* (worker.py:99-109).
THEOREM ChecksAreOpenedOnce == Spec => []OncePerTime
<1>1. IInv => OncePerTime
  BY DEF IInv
<1> QED BY <1>1, IInvHolds, PTL
=============================================================================
