-------------------------- MODULE RunServiceProofs --------------------------
(* Proofs about RunService, for every set of runs, users, tokens, webhooks   *)
(* and change sets.  Two inductive invariants are built on TypeInv:          *)
(*   KeyInv and ConvInv        which tokens stand, and how far the           *)
(*                             conversations of their holders may be         *)
(*   WaitingInv, RequestInv    what was up for approval when it was approved *)
(* Lemmas first say what the helpers change, then that each part of an       *)
(* invariant survives every action.  The last part proves that RunService   *)
(* implements the contract of module Approval.                              *)
EXTENDS RunService, TLAPS

\* Keys point at rows: an issued token and a request in progress name a run.
Linked ==
    /\ \A e \in Execution : /\ tokens[e].status # "none" => tokens[e].run \in Run
                            /\ calls[e].stage # "none" => tokens[e].status # "none"
                            /\ tokens[e].status = "none" =>
                                 /\ tokens[e].run = NoRun
                                 /\ calls[e].stage = "none" /\ calls[e].fp = NoFp
    /\ \A u \in User : requests[u].op # "none" => requests[u].run \in Run

TypeInv == TypeOK /\ Linked

USE ConstantsAssumption

-----------------------------------------------------------------------------
(* Type correctness.                                                       *)

LEMMA UploadType ==
    ASSUME NEW up \in Upload
    PROVE  /\ up.raw \in BOOLEAN /\ up.hosts \in BOOLEAN /\ up.exit0 \in BOOLEAN
           /\ up.doc.fp \in Fingerprint /\ up.doc.blocked \in BOOLEAN
           /\ up.doc.change \in BOOLEAN /\ up.doc.failed \in BOOLEAN
BY DEF Upload

LEMMA TypeInit == Init => TypeInv
BY DEF Init, TypeInv, Linked, TypeOK, RunRow, NewRun, RunState, TokenRow, NoToken,
   Phase, Call, Stage, Request, NoRequest

-----------------------------------------------------------------------------
(* What the helpers do, column by column.                                  *)

LEMMA TransitionEffect ==
    ASSUME TypeOK, NEW r \in Run, NEW from, NEW to, NEW values \in RunRow,
           Transition(r, from, to, values)
    PROVE  /\ <<from, to>> \in AllowedTransitions
           /\ runs[r].state = from
           /\ \A s \in Run : /\ runs'[s].state = IF s = r THEN to ELSE runs[s].state
                             /\ s # r => runs'[s] = runs[s]
           /\ runs'[r].checkFp = values.checkFp /\ runs'[r].approvedFp = values.approvedFp
           /\ runs'[r].approvedBy = values.approvedBy /\ runs'[r].blocked = values.blocked
BY DEF Transition, TypeOK, RunRow

LEMMA RevokeEffect ==
    ASSUME TypeOK, NEW r, NEW phase, Revoke(r, phase)
    PROVE  \A d \in Execution :
               /\ tokens'[d].run = tokens[d].run /\ tokens'[d].phase = tokens[d].phase
               /\ tokens'[d].status = IF tokens[d].run = r /\ tokens[d].phase = phase
                                      THEN "revoked" ELSE tokens[d].status
BY DEF Revoke, TypeOK, TokenRow

LEMMA AnswerEffect ==
    ASSUME TypeOK, NEW e \in Execution, NEW stage, Answer(e, stage)
    PROVE  \A d \in Execution :
               /\ calls'[d].stage = IF d = e THEN stage ELSE calls[d].stage
               /\ calls'[d].fp = calls[d].fp
BY DEF Answer, TypeOK, Call

LEMMA AnswerStopEffect ==
    ASSUME TypeOK, NEW e \in Execution, NEW stage, AnswerStop(e, stage)
    PROVE  \A d \in Execution :
               /\ calls'[d].stage = IF d = e THEN stage ELSE calls[d].stage
               /\ calls'[d].fp = IF d = e THEN NoFp ELSE calls[d].fp
BY DEF AnswerStop, TypeOK, Call

(* How the helpers keep the types of the tables.                           *)

LEMMA SetState ==
    ASSUME NEW row \in RunRow, NEW state \in RunState
    PROVE  [row EXCEPT !.state = state] \in RunRow
BY DEF RunRow

LEMMA SetPlan ==
    ASSUME NEW row \in RunRow, NEW up \in Upload
    PROVE  [row EXCEPT !.checkFp = up.doc.fp, !.blocked = up.doc.blocked] \in RunRow
BY UploadType DEF RunRow

LEMMA TransitionType ==
    ASSUME TypeOK, NEW r \in Run, NEW from, NEW to \in RunState, NEW values \in RunRow,
           Transition(r, from, to, values)
    PROVE  runs' \in [Run -> RunRow]
BY SetState DEF Transition, TypeOK

LEMMA RevokeType ==
    ASSUME TypeOK, NEW r, NEW phase, Revoke(r, phase)
    PROVE  tokens' \in [Execution -> TokenRow]
BY DEF Revoke, TypeOK, TokenRow

LEMMA AnswerType ==
    ASSUME TypeOK, NEW e \in Execution, NEW stage \in Stage,
           Answer(e, stage) \/ AnswerStop(e, stage)
    PROVE  calls' \in [Execution -> Call]
BY DEF Answer, AnswerStop, TypeOK, Call

LEMMA TypeOKStep == TypeInv /\ [Next]_vars => TypeOK'
<1> SUFFICES ASSUME TypeOK, Linked, [Next]_vars PROVE TypeOK'
  BY DEF TypeInv
<1>a. /\ \A r \in Run : runs[r] \in RunRow
      /\ \A e \in Execution : /\ tokens[e] \in TokenRow /\ calls[e] \in Call
                              /\ calls[e].stage # "none" => TokenRun(e) \in Run
      /\ \A u \in User : /\ requests[u] \in Request
                         /\ requests[u].op # "none" => requests[u].run \in Run
  BY DEF TypeOK, Linked, TokenRun
<1>b. /\ {"check_queued", "check_running", "needs_approval", "unchanged", "check_failed",
          "apply_queued", "apply_running", "succeeded", "apply_failed", "rejected"} \subseteq RunState
      /\ {"booted", "checking", "prechecking", "proceeding", "reporting", "done", "refused"}
            \subseteq Stage
  BY DEF RunState, ActiveState, TerminalState, Stage
<1>1. ASSUME NEW r \in Run, CreateRun(r) \/ RecordScheduleFailure(r) PROVE TypeOK'
  BY <1>1, <1>a, <1>b, SetState DEF CreateRun, RecordScheduleFailure, TypeOK
<1>2. ASSUME NEW r \in Run, NEW phase \in Phase, FailRun(r, phase) PROVE TypeOK'
  <2>1. FailedState(phase) \in RunState
    BY <1>b DEF FailedState
  <2>2. runs' \in [Run -> RunRow]
    BY <1>2, <1>a, <2>1, TransitionType DEF FailRun
  <2> QED BY <1>2, <2>2, RevokeType DEF FailRun, TypeOK
<1>3. ASSUME NEW r \in Run, NEW e \in Execution, NEW phase \in Phase, Dispatch(r, e, phase)
      PROVE TypeOK'
  <2>1. RunningState(phase) \in RunState
    BY <1>b DEF RunningState
  <2>2. runs' \in [Run -> RunRow]
    BY <1>3, <1>a, <2>1, TransitionType DEF Dispatch
  <2>3. tokens' \in [Execution -> TokenRow]
    BY <1>3 DEF Dispatch, TypeOK, TokenRow
  <2>4. calls' \in [Execution -> Call]
    BY <1>3, <1>b, AnswerType DEF Dispatch
  <2> QED BY <1>3, <2>2, <2>3, <2>4 DEF Dispatch, TypeOK
<1>4. ASSUME NEW e \in Execution, ExpireToken(e) PROVE TypeOK'
  <2>1. tokens' \in [Execution -> TokenRow]
    BY <1>4 DEF ExpireToken, TypeOK, TokenRow
  <2> QED BY <1>4, <2>1 DEF ExpireToken, TypeOK
<1>5. ASSUME NEW e \in Execution,
             RefuseCall(e) \/ RefuseCommit(e) \/ LoadCheck(e) \/ LoadResult(e)
      PROVE TypeOK'
  <2>1. calls' \in [Execution -> Call]
    BY <1>5, <1>b, AnswerType DEF RefuseCall, RefuseCommit, LoadCheck, LoadResult
  <2> QED BY <1>5, <2>1 DEF RefuseCall, RefuseCommit, LoadCheck, LoadResult, TypeOK
<1>6. ASSUME NEW e \in Execution, LoadPrecheck(e) PROVE TypeOK'
  <2>1. runs[TokenRun(e)].approvedFp \in Fingerprint \cup {NoFp}
    BY <1>6, <1>a DEF LoadPrecheck, RunRow
  <2>2. calls' \in [Execution -> Call]
    BY <1>6, <2>1, <1>b DEF LoadPrecheck, TypeOK, Call
  <2> QED BY <1>6, <2>2 DEF LoadPrecheck, TypeOK
<1>7. ASSUME NEW e \in Execution, NEW up \in Upload, CommitCheck(e, up) PROVE TypeOK'
  <2>1. TokenRun(e) \in Run
    BY <1>7, <1>a DEF CommitCheck
  <2>2. CheckVerdict(up) \in RunState
    BY <1>b DEF CheckVerdict
  <2>3. runs' \in [Run -> RunRow]
    BY <1>7, <1>a, <2>1, <2>2, SetPlan, TransitionType DEF CommitCheck
  <2>4. deliveries' \subseteq Webhook \X Run \X Fingerprint /\ offered' \subseteq Run \X Fingerprint
    BY <1>7, <2>1, UploadType DEF CommitCheck, PutUpForApproval, Enqueue, TypeOK
  <2>5. tokens' \in [Execution -> TokenRow] /\ calls' \in [Execution -> Call]
    BY <1>7, <1>b, RevokeType, AnswerType DEF CommitCheck
  <2> QED BY <1>7, <2>3, <2>4, <2>5 DEF CommitCheck, TypeOK
<1>8. ASSUME NEW e \in Execution, NEW up \in Upload,
             PrecheckFailed(e, up) \/ CommitResult(e, up)
      PROVE TypeOK'
  <2>1. TokenRun(e) \in Run
    BY <1>8, <1>a DEF PrecheckFailed, CommitResult
  <2>2. runs' \in [Run -> RunRow]
    BY <1>8, <1>a, <1>b, <2>1, TransitionType DEF PrecheckFailed, CommitResult
  <2>3. tokens' \in [Execution -> TokenRow] /\ calls' \in [Execution -> Call]
    BY <1>8, <1>b, RevokeType, AnswerType DEF PrecheckFailed, CommitResult
  <2> QED BY <1>8, <2>2, <2>3 DEF PrecheckFailed, CommitResult, TypeOK
<1>9. ASSUME NEW e \in Execution, NEW up \in Upload, PrecheckMoved(e, up) PROVE TypeOK'
  <2>1. TokenRun(e) \in Run
    BY <1>9, <1>a DEF PrecheckMoved
  <2>2. [runs[TokenRun(e)] EXCEPT !.checkFp = up.doc.fp, !.blocked = up.doc.blocked,
                                  !.approvedFp = NoFp, !.approvedBy = NoUser] \in RunRow
    <3>1. runs[TokenRun(e)] \in RunRow
      BY <1>a, <2>1
    <3>2. up.doc.fp \in Fingerprint /\ up.doc.blocked \in BOOLEAN
      BY UploadType
    <3> QED
      BY <3>1, <3>2 DEF RunRow
  <2>3. runs' \in [Run -> RunRow]
    BY <1>9, <1>b, <2>1, <2>2, TransitionType DEF PrecheckMoved
  <2>4. deliveries' \subseteq Webhook \X Run \X Fingerprint /\ offered' \subseteq Run \X Fingerprint
    BY <1>9, <2>1, UploadType DEF PrecheckMoved, PutUpForApproval, Enqueue, TypeOK
  <2>5. tokens' \in [Execution -> TokenRow] /\ calls' \in [Execution -> Call]
    BY <1>9, <1>b, RevokeType, AnswerType DEF PrecheckMoved
  <2> QED BY <1>9, <2>3, <2>4, <2>5 DEF PrecheckMoved, TypeOK
<1>10. ASSUME NEW e \in Execution, NEW up \in Upload, PrecheckAgreed(e, up) PROVE TypeOK'
  BY <1>10, <1>b, AnswerType DEF PrecheckAgreed, TypeOK
<1>11. ASSUME NEW u \in User, NEW r \in Run, LoadApprove(u, r) \/ LoadReject(u, r)
       PROVE TypeOK'
  <2>0. runs[r].checkFp \in Fingerprint \cup {NoFp}
    BY <1>a DEF RunRow
  <2>1. requests' \in [User -> Request]
    BY <1>11, <2>0 DEF LoadApprove, LoadReject, TypeOK, Request
  <2> QED BY <1>11, <2>1 DEF LoadApprove, LoadReject, TypeOK
<1>12. ASSUME NEW u \in User, CommitApprove(u) \/ CommitReject(u) \/ RequestMissed(u)
       PROVE TypeOK'
  <2>1. requests' \in [User -> Request]
    BY <1>12 DEF CommitApprove, CommitReject, RequestMissed, NoRequest, TypeOK, Request
  <2>2. CASE CommitApprove(u)
    <3> DEFINE q == requests[u]
    <3>1. q.run \in Run /\ q.fp \in Fingerprint \cup {NoFp}
      BY <2>2, <1>a DEF CommitApprove, Request
    <3>2. [runs[q.run] EXCEPT !.approvedFp = q.fp, !.approvedBy = u] \in RunRow
      BY <3>1, <1>a DEF RunRow
    <3>3. runs' \in [Run -> RunRow]
      BY <2>2, <1>b, <3>1, <3>2, TransitionType DEF CommitApprove
    <3> QED BY <2>1, <2>2, <3>3 DEF CommitApprove, TypeOK
  <2>3. CASE CommitReject(u)
    <3>1. runs' \in [Run -> RunRow]
      BY <2>3, <1>a, <1>b, TransitionType DEF CommitReject
    <3> QED BY <2>1, <2>3, <3>1 DEF CommitReject, TypeOK
  <2>4. CASE RequestMissed(u)
    BY <2>1, <2>4 DEF RequestMissed, TypeOK
  <2> QED BY <1>12, <2>2, <2>3, <2>4
<1>13. CASE UNCHANGED vars
  BY <1>13 DEF vars, TypeOK
<1> QED
  BY <1>1, <1>2, <1>3, <1>4, <1>5, <1>6, <1>7, <1>8, <1>9, <1>10, <1>11, <1>12, <1>13
  DEF Next

LEMMA LinkedStep == TypeInv /\ [Next]_vars => Linked'
<1> SUFFICES ASSUME TypeOK, Linked, [Next]_vars PROVE Linked'
  BY DEF TypeInv
<1> USE DEF Linked
<1>1. ASSUME NEW r \in Run, CreateRun(r) \/ RecordScheduleFailure(r) PROVE Linked'
  BY <1>1 DEF CreateRun, RecordScheduleFailure
<1>2. ASSUME NEW r \in Run, NEW phase \in Phase, FailRun(r, phase) PROVE Linked'
  BY <1>2, RevokeEffect DEF FailRun
<1>3. ASSUME NEW r \in Run, NEW e \in Execution, NEW phase \in Phase, Dispatch(r, e, phase)
      PROVE Linked'
  BY <1>3, AnswerEffect DEF Dispatch, TypeOK, TokenRow
<1>4. ASSUME NEW e \in Execution, ExpireToken(e) PROVE Linked'
  BY <1>4 DEF ExpireToken, TypeOK, TokenRow
<1>5. ASSUME NEW e \in Execution, RefuseCall(e) \/ RefuseCommit(e) PROVE Linked'
  BY <1>5, AnswerEffect, AnswerStopEffect DEF RefuseCall, RefuseCommit
<1>6. ASSUME NEW e \in Execution, LoadCheck(e) \/ LoadResult(e) PROVE Linked'
  BY <1>6, AnswerEffect DEF LoadCheck, LoadResult
<1>7. ASSUME NEW e \in Execution, LoadPrecheck(e) PROVE Linked'
  BY <1>7 DEF LoadPrecheck, TypeOK, Call
<1>8. ASSUME NEW e \in Execution, NEW up \in Upload, CommitCheck(e, up) PROVE Linked'
  BY <1>8, RevokeEffect, AnswerEffect DEF CommitCheck, TokenRun
<1>9. ASSUME NEW e \in Execution, NEW up \in Upload,
             PrecheckFailed(e, up) \/ PrecheckMoved(e, up)
      PROVE Linked'
  BY <1>9, RevokeEffect, AnswerStopEffect DEF PrecheckFailed, PrecheckMoved, TokenRun
<1>10. ASSUME NEW e \in Execution, NEW up \in Upload, PrecheckAgreed(e, up) PROVE Linked'
  BY <1>10, AnswerEffect DEF PrecheckAgreed
<1>11. ASSUME NEW e \in Execution, NEW up \in Upload, CommitResult(e, up) PROVE Linked'
  BY <1>11, RevokeEffect, AnswerEffect DEF CommitResult, TokenRun
<1>12. ASSUME NEW u \in User, NEW r \in Run, LoadApprove(u, r) \/ LoadReject(u, r)
       PROVE Linked'
  BY <1>12 DEF LoadApprove, LoadReject, TypeOK, Request
<1>13. ASSUME NEW u \in User, CommitApprove(u) \/ CommitReject(u) \/ RequestMissed(u)
       PROVE Linked'
  <2>1. /\ tokens' = tokens /\ calls' = calls
        /\ requests' = [requests EXCEPT ![u] = NoRequest]
    BY <1>13 DEF CommitApprove, CommitReject, RequestMissed
  <2> QED BY <2>1 DEF NoRequest, TypeOK
<1>14. CASE UNCHANGED vars
  BY <1>14 DEF vars
<1> QED
  BY <1>1, <1>2, <1>3, <1>4, <1>5, <1>6, <1>7, <1>8, <1>9, <1>10, <1>11, <1>12, <1>13,
     <1>14 DEF Next

LEMMA TypeStep == TypeInv /\ [Next]_vars => TypeInv'
BY TypeOKStep, LinkedStep DEF TypeInv

\* Every row, call and request of the service has the columns of its table.
THEOREM TypeCorrect == Spec => []TypeOK
<1>1. TypeInv => TypeOK
  BY DEF TypeInv
<1> QED BY <1>1, TypeInit, TypeStep, PTL DEF Spec

-----------------------------------------------------------------------------
(* The inductive invariant.                                                *)

\* A token is unrevoked only while its run is running its phase, a run has at
\* most one such token, and a running run has one.
KeyInv ==
    /\ \A e \in Execution :
          Unrevoked(e) => runs[TokenRun(e)].state = RunningState(tokens[e].phase)
    /\ \A d, e \in Execution :
          Unrevoked(d) /\ Unrevoked(e) /\ TokenRun(d) = TokenRun(e) => d = e
    /\ \A r \in Run, phase \in Phase :
          runs[r].state = RunningState(phase) =>
              \E e \in Execution : /\ Unrevoked(e)
                                   /\ TokenRun(e) = r /\ tokens[e].phase = phase

InConversation(e) ==
    calls[e].stage \in {"booted", "checking", "prechecking", "proceeding", "reporting"}

\* A holder's conversation fits its token's phase.  One that is still going on
\* although its token is revoked, and one that was told to proceed and has
\* lost its token, belong to a finished run: nobody else revokes a token
\* before its own last upload, except a failure.
ConvInv ==
    \A e \in Execution :
        /\ calls[e].stage = "checking" => tokens[e].phase = "check"
        /\ calls[e].stage \in {"prechecking", "proceeding", "reporting"}
              => tokens[e].phase = "apply"
        /\ HasProceeded(e) => tokens[e].phase = "apply"
        /\ calls[e].stage \in {"none", "booted", "checking"} => calls[e].fp = NoFp
        /\ ~ Unrevoked(e) /\ (InConversation(e) \/ HasProceeded(e))
              => runs[TokenRun(e)].state \in TerminalState
        /\ Unrevoked(e) /\ (calls[e].stage = "prechecking" \/ HasProceeded(e))
              => runs[TokenRun(e)].approvedFp = calls[e].fp

-----------------------------------------------------------------------------
(* KeyInv survives every step.                                             *)

LEMMA Linkage ==
    ASSUME TypeInv
    PROVE  /\ \A r \in Run : runs[r] \in RunRow
           /\ \A e \in Execution : /\ tokens[e].phase \in Phase
                                   /\ calls[e].stage # "none" => TokenRun(e) \in Run
                                   /\ Unrevoked(e) => TokenRun(e) \in Run
           /\ \A u \in User : requests[u].op # "none" => requests[u].run \in Run
BY DEF TypeInv, TypeOK, Linked, TokenRun, Unrevoked, TokenRow

LEMMA KeepKeys ==
    ASSUME TypeInv, KeyInv,
           \A e \in Execution : /\ tokens'[e].run = tokens[e].run
                                /\ tokens'[e].phase = tokens[e].phase
                                /\ Unrevoked(e)' <=> Unrevoked(e),
           \A r \in Run, phase \in Phase :
               runs'[r].state = RunningState(phase) <=> runs[r].state = RunningState(phase)
    PROVE  KeyInv'
BY Linkage DEF KeyInv, TokenRun

LEMMA LeaveRunning ==
    ASSUME TypeInv, KeyInv, NEW r \in Run, NEW phase \in Phase, NEW values \in RunRow,
           NEW to, to \notin {"check_running", "apply_running"},
           Transition(r, RunningState(phase), to, values), Revoke(r, phase)
    PROVE  KeyInv'
<1>1. \A p \in Phase : /\ RunningState(p) \in {"check_running", "apply_running"}
                       /\ RunningState(p) = RunningState(phase) => p = phase
  BY DEF RunningState, Phase
<1>2. /\ runs[r].state = RunningState(phase)
      /\ \A s \in Run : runs'[s].state = IF s = r THEN to ELSE runs[s].state
  BY TransitionEffect, ZenonT(30) DEF TypeInv
<1>3. \A d \in Execution :
          /\ tokens'[d].run = tokens[d].run /\ tokens'[d].phase = tokens[d].phase
          /\ Unrevoked(d)' <=> Unrevoked(d) /\ ~ (TokenRun(d) = r /\ tokens[d].phase = phase)
  BY RevokeEffect DEF Unrevoked, TypeInv, TokenRun
<1>4. \A d \in Execution : Unrevoked(d) /\ TokenRun(d) = r => tokens[d].phase = phase
  BY <1>1, <1>2, Linkage DEF KeyInv
<1> QED
  BY <1>1, <1>2, <1>3, <1>4, Linkage DEF KeyInv, TokenRun

LEMMA KeyInit == Init => KeyInv
BY DEF Init, KeyInv, Unrevoked, NoToken, NewRun, RunningState

LEMMA KeyStep == TypeInv /\ KeyInv /\ [Next]_vars => KeyInv'
<1> SUFFICES ASSUME TypeInv, KeyInv, [Next]_vars PROVE KeyInv'
  OBVIOUS
<1>a. \A p \in Phase : RunningState(p) \in {"check_running", "apply_running"}
  BY DEF RunningState
<1>1. ASSUME NEW r \in Run, CreateRun(r) \/ RecordScheduleFailure(r) PROVE KeyInv'
  <2>1. /\ tokens' = tokens
        /\ runs[r].state = "absent"
        /\ \A s \in Run : \/ runs'[s].state = runs[s].state
                          \/ s = r /\ runs'[s].state \in {"check_queued", "check_failed"}
    BY <1>1 DEF CreateRun, RecordScheduleFailure, CanInsert, TypeInv, TypeOK, RunRow
  <2> QED BY <2>1, <1>a, KeepKeys DEF Unrevoked
<1>2. ASSUME NEW r \in Run, NEW phase \in Phase, FailRun(r, phase) PROVE KeyInv'
  BY <1>2, LeaveRunning, Linkage DEF FailRun, FailedState
<1>3. ASSUME NEW r \in Run, NEW e \in Execution, NEW phase \in Phase, Dispatch(r, e, phase)
      PROVE KeyInv'
  <2>1. /\ runs[r].state = QueuedState(phase)
        /\ \A s \in Run : runs'[s].state = IF s = r THEN RunningState(phase) ELSE runs[s].state
    BY <1>3, TransitionEffect, Linkage DEF Dispatch, TypeInv
  <2>2. /\ ~ Unrevoked(e)
        /\ \A d \in Execution : /\ d # e => /\ tokens'[d] = tokens[d]
                                /\ d = e => /\ tokens'[d].run = r
                                            /\ tokens'[d].phase = phase
                                            /\ tokens'[d].status = "live"
    BY <1>3 DEF Dispatch, Unrevoked, TypeInv, TypeOK, TokenRow
  <2>3. \A d \in Execution : Unrevoked(d) => TokenRun(d) # r
    BY <2>1, <1>a, Linkage DEF KeyInv, QueuedState
  <2>4. /\ \A d \in Execution : Unrevoked(d)' <=> Unrevoked(d) \/ d = e
        /\ \A d \in Execution : /\ TokenRun(d)' = IF d = e THEN r ELSE TokenRun(d)
                                /\ d # e => tokens'[d].phase = tokens[d].phase
        /\ tokens'[e].phase = phase
    BY <2>2 DEF Unrevoked, TokenRun
  <2>5. \A p \in Phase : RunningState(p) = RunningState(phase) => p = phase
    BY DEF RunningState, Phase
  <2>6. \A d \in Execution :
            Unrevoked(d)' => runs'[TokenRun(d)'].state = RunningState(tokens'[d].phase)
    BY <2>1, <2>3, <2>4, Linkage DEF KeyInv
  <2>7. \A c, d \in Execution :
            Unrevoked(c)' /\ Unrevoked(d)' /\ TokenRun(c)' = TokenRun(d)' => c = d
    BY <2>3, <2>4 DEF KeyInv
  <2>8. ASSUME NEW s \in Run, NEW p \in Phase, runs'[s].state = RunningState(p)
        PROVE  \E d \in Execution : /\ Unrevoked(d)'
                                   /\ TokenRun(d)' = s /\ tokens'[d].phase = p
    <3>1. CASE s = r
      BY <2>1, <2>4, <2>5, <2>8, <3>1
    <3>2. CASE s # r
      <4>1. PICK d \in Execution : /\ Unrevoked(d)
                                   /\ TokenRun(d) = s /\ tokens[d].phase = p
        BY <2>1, <2>8, <3>2 DEF KeyInv
      <4> QED BY <2>2, <2>4, <4>1
    <3> QED BY <3>1, <3>2
  <2> QED
    BY <2>6, <2>7, <2>8 DEF KeyInv
<1>4. ASSUME NEW e \in Execution, ExpireToken(e) PROVE KeyInv'
  <2>1. \A d \in Execution : /\ tokens'[d].run = tokens[d].run
                             /\ tokens'[d].phase = tokens[d].phase
                             /\ Unrevoked(d)' <=> Unrevoked(d)
    BY <1>4 DEF ExpireToken, Unrevoked, TypeInv, TypeOK, TokenRow
  <2> QED BY <1>4, <2>1, KeepKeys DEF ExpireToken
<1>5. ASSUME UNCHANGED <<runs, tokens>> PROVE KeyInv'
  BY <1>5, KeepKeys DEF Unrevoked
<1>6. ASSUME NEW e \in Execution,
             \/ RefuseCall(e) \/ RefuseCommit(e)
             \/ LoadCheck(e) \/ LoadPrecheck(e) \/ LoadResult(e)
      PROVE KeyInv'
  BY <1>5, <1>6 DEF RefuseCall, RefuseCommit, LoadCheck, LoadPrecheck, LoadResult
<1>7. ASSUME NEW e \in Execution, NEW up \in Upload, CommitCheck(e, up) PROVE KeyInv'
  <2>1. TokenRun(e) \in Run
    BY <1>7, Linkage DEF CommitCheck
  <2> DEFINE values == IF up.raw THEN [runs[TokenRun(e)] EXCEPT !.checkFp = up.doc.fp,
                                                                !.blocked = up.doc.blocked]
                                 ELSE runs[TokenRun(e)]
  <2>2. values \in RunRow
    BY <2>1, SetPlan, Linkage
  <2>3. Transition(TokenRun(e), RunningState("check"), CheckVerdict(up), values)
    BY <1>7 DEF CommitCheck, RunningState
  <2>4. CheckVerdict(up) \notin {"check_running", "apply_running"}
    BY DEF CheckVerdict
  <2> HIDE DEF values
  <2> QED BY <1>7, <2>1, <2>2, <2>3, <2>4, LeaveRunning DEF CommitCheck, Phase
<1>8. ASSUME NEW e \in Execution, NEW up \in Upload,
             PrecheckFailed(e, up) \/ CommitResult(e, up)
      PROVE KeyInv'
  <2>1. TokenRun(e) \in Run
    BY <1>8, Linkage DEF PrecheckFailed, CommitResult
  <2>2. \E to \in {"apply_failed", "succeeded"} :
            Transition(TokenRun(e), RunningState("apply"), to, runs[TokenRun(e)])
    BY <1>8 DEF PrecheckFailed, CommitResult, RunningState
  <2> QED BY <1>8, <2>1, <2>2, LeaveRunning, Linkage DEF PrecheckFailed, CommitResult, Phase
<1>9. ASSUME NEW e \in Execution, NEW up \in Upload, PrecheckMoved(e, up) PROVE KeyInv'
  <2>1. TokenRun(e) \in Run
    BY <1>9, Linkage DEF PrecheckMoved
  <2>2. PICK values \in RunRow :
            Transition(TokenRun(e), RunningState("apply"), "needs_approval", values)
    <3>1. [runs[TokenRun(e)] EXCEPT !.checkFp = up.doc.fp, !.blocked = up.doc.blocked,
                                    !.approvedFp = NoFp, !.approvedBy = NoUser] \in RunRow
      BY <2>1, UploadType, Linkage DEF RunRow
    <3> QED BY <1>9, <3>1 DEF PrecheckMoved, RunningState
  <2> QED BY <1>9, <2>1, <2>2, LeaveRunning DEF PrecheckMoved, Phase
<1>10. ASSUME NEW e \in Execution, NEW up \in Upload, PrecheckAgreed(e, up) PROVE KeyInv'
  BY <1>5, <1>10 DEF PrecheckAgreed
<1>11. ASSUME NEW u \in User, NEW r \in Run, LoadApprove(u, r) \/ LoadReject(u, r)
       PROVE KeyInv'
  BY <1>5, <1>11 DEF LoadApprove, LoadReject
<1>12. ASSUME NEW u \in User, CommitApprove(u) \/ CommitReject(u) PROVE KeyInv'
  <2> DEFINE r == requests[u].run
  <2>1. /\ tokens' = tokens /\ r \in Run
        /\ runs[r].state = "needs_approval"
        /\ \A s \in Run : \/ runs'[s].state = runs[s].state
                          \/ s = r /\ runs'[s].state \in {"apply_queued", "rejected"}
    <3>1. r \in Run
      BY <1>12, Linkage DEF CommitApprove, CommitReject
    <3>2. PICK values \in RunRow, to \in {"apply_queued", "rejected"} :
              Transition(r, "needs_approval", to, values)
      <4>1. [runs[r] EXCEPT !.approvedFp = requests[u].fp, !.approvedBy = u] \in RunRow
        <5>1. requests[u].fp \in Fingerprint \cup {NoFp}
          BY DEF TypeInv, TypeOK, Request
        <5> QED BY <3>1, <5>1, Linkage DEF RunRow
      <4> QED BY <1>12, <3>1, <4>1, Linkage DEF CommitApprove, CommitReject
    <3>3. tokens' = tokens
      BY <1>12 DEF CommitApprove, CommitReject
    <3> HIDE DEF r
    <3>4. /\ runs[r].state = "needs_approval"
          /\ \A s \in Run : runs'[s].state = IF s = r THEN to ELSE runs[s].state
      BY <3>1, <3>2, TransitionEffect DEF TypeInv
    <3> QED BY <3>1, <3>3, <3>4
  <2> QED BY <2>1, <1>a, KeepKeys DEF Unrevoked
<1>13. ASSUME NEW u \in User, RequestMissed(u) PROVE KeyInv'
  BY <1>5, <1>13 DEF RequestMissed
<1>14. CASE UNCHANGED vars
  BY <1>5, <1>14 DEF vars
<1> QED
  BY <1>1, <1>2, <1>3, <1>4, <1>6, <1>7, <1>8, <1>9, <1>10, <1>11, <1>12, <1>13, <1>14 DEF Next

\* A run is running a phase exactly when one token of that phase is unrevoked.
THEOREM TokenWhileRunning == Spec => []OneTokenWhileRunning
<1>1. TypeInv /\ KeyInv => OneTokenWhileRunning
  BY Linkage DEF KeyInv, OneTokenWhileRunning, TokenRun, Unrevoked
<1> QED BY <1>1, TypeInit, TypeStep, KeyInit, KeyStep, PTL DEF Spec

-----------------------------------------------------------------------------
(* A step moves at most one run, along the table of allowed transitions.     *)

Moves(r) ==
    /\ \A s \in Run : s # r => runs'[s] = runs[s]
    /\ \/ CanInsert(r) /\ runs'[r].state \in {"check_queued", "check_failed"}
       \/ <<runs[r].state, runs'[r].state>> \in AllowedTransitions

LEMMA OneRunMoves == TypeInv /\ [Next]_vars => runs' = runs \/ \E r \in Run : Moves(r)
<1> SUFFICES ASSUME TypeInv, [Next]_vars PROVE runs' = runs \/ \E r \in Run : Moves(r)
  OBVIOUS
<1>a. ASSUME NEW r \in Run, NEW from, NEW to, NEW values \in RunRow,
             Transition(r, from, to, values)
      PROVE  Moves(r)
  <2>1. /\ <<from, to>> \in AllowedTransitions
        /\ runs[r].state = from /\ runs'[r].state = to
        /\ \A s \in Run : s # r => runs'[s] = runs[s]
    BY <1>a, TransitionEffect DEF TypeInv
  <2> QED BY <2>1 DEF Moves
<1>1. ASSUME NEW r \in Run, CreateRun(r) \/ RecordScheduleFailure(r)
      PROVE  Moves(r)
  BY <1>1 DEF CreateRun, RecordScheduleFailure, Moves, TypeInv, TypeOK, RunRow
<1>2. ASSUME NEW r \in Run, NEW phase \in Phase, FailRun(r, phase) PROVE Moves(r)
  BY <1>2, <1>a, Linkage DEF FailRun
<1>3. ASSUME NEW r \in Run, NEW e \in Execution, NEW phase \in Phase, Dispatch(r, e, phase)
      PROVE  Moves(r)
  BY <1>3, <1>a, Linkage DEF Dispatch
<1>4. ASSUME NEW e \in Execution, NEW up \in Upload,
             \/ CommitCheck(e, up) \/ PrecheckFailed(e, up) \/ PrecheckMoved(e, up)
             \/ CommitResult(e, up)
      PROVE  \E r \in Run : Moves(r)
  <2> DEFINE r == TokenRun(e)
  <2>1. r \in Run
    BY <1>4, Linkage DEF CommitCheck, PrecheckFailed, PrecheckMoved, CommitResult
  <2>2. /\ runs[r] \in RunRow
        /\ [runs[r] EXCEPT !.checkFp = up.doc.fp, !.blocked = up.doc.blocked] \in RunRow
        /\ [runs[r] EXCEPT !.checkFp = up.doc.fp, !.blocked = up.doc.blocked,
                           !.approvedFp = NoFp, !.approvedBy = NoUser] \in RunRow
    BY <2>1, UploadType, Linkage DEF RunRow
  <2>3. \E from, to : \E values \in RunRow : Transition(r, from, to, values)
    BY <1>4, <2>2 DEF CommitCheck, PrecheckFailed, PrecheckMoved, CommitResult
  <2> QED BY <2>1, <2>3, <1>a
<1>5. ASSUME NEW u \in User, CommitApprove(u) \/ CommitReject(u)
      PROVE  \E r \in Run : Moves(r)
  <2> DEFINE r == requests[u].run
  <2>1. r \in Run
    BY <1>5, Linkage DEF CommitApprove, CommitReject
  <2>2. requests[u].fp \in Fingerprint \cup {NoFp}
    BY DEF TypeInv, TypeOK, Request
  <2>3. /\ runs[r] \in RunRow
        /\ [runs[r] EXCEPT !.approvedFp = requests[u].fp, !.approvedBy = u] \in RunRow
    BY <2>1, <2>2, Linkage DEF RunRow
  <2>4. \E from, to : \E values \in RunRow : Transition(r, from, to, values)
    BY <1>5, <2>3 DEF CommitApprove, CommitReject
  <2> QED BY <2>1, <2>4, <1>a
<1>6. ASSUME NEW e \in Execution,
             \/ ExpireToken(e) \/ RefuseCall(e) \/ RefuseCommit(e)
             \/ LoadCheck(e) \/ LoadPrecheck(e) \/ LoadResult(e)
             \/ \E up \in Upload : PrecheckAgreed(e, up)
      PROVE  runs' = runs
  BY <1>6 DEF ExpireToken, RefuseCall, RefuseCommit, LoadCheck, LoadPrecheck, LoadResult,
     PrecheckAgreed
<1>7. ASSUME NEW u \in User,
             RequestMissed(u) \/ \E r \in Run : LoadApprove(u, r) \/ LoadReject(u, r)
      PROVE  runs' = runs
  BY <1>7 DEF RequestMissed, LoadApprove, LoadReject
<1>8. CASE UNCHANGED vars
  BY <1>8 DEF vars
<1> QED
  BY <1>1, <1>2, <1>3, <1>4, <1>5, <1>6, <1>7, <1>8 DEF Next

\* A finished run keeps its row: nothing leads out of a terminal state.
THEOREM FinishedRunsStay == Spec => TerminalIsFinal
<1>1. TypeInv /\ [Next]_vars =>
        [\A r \in Run : runs[r].state \in TerminalState => runs'[r] = runs[r]]_vars
  BY OneRunMoves DEF Moves, AllowedTransitions, CanInsert, TerminalState
<1> QED BY <1>1, TypeInit, TypeStep, PTL DEF Spec, TerminalIsFinal

\* A stack never has two active runs.
THEOREM ActiveRunIsUnique == Spec => []OneActiveRun
<1>1. Init => OneActiveRun
  BY DEF Init, OneActiveRun, NewRun, ActiveState
<1>2. TypeInv /\ OneActiveRun /\ [Next]_vars => OneActiveRun'
  <2> SUFFICES ASSUME TypeInv, OneActiveRun, [Next]_vars PROVE OneActiveRun'
    OBVIOUS
  <2>1. CASE runs' = runs
    BY <2>1 DEF OneActiveRun
  <2>2. ASSUME NEW r \in Run, Moves(r) PROVE OneActiveRun'
    <3>1. \A s \in Run : s # r => runs'[s].state = runs[s].state
      BY <2>2 DEF Moves
    <3>2. CASE CanInsert(r)
      BY <3>1, <3>2 DEF OneActiveRun, CanInsert
    <3>3. CASE <<runs[r].state, runs'[r].state>> \in AllowedTransitions
      <4>1. runs[r].state \in ActiveState
        BY <3>3 DEF AllowedTransitions, ActiveState
      <4> QED BY <3>1, <4>1 DEF OneActiveRun
    <3> QED BY <2>2, <3>2, <3>3 DEF Moves
  <2> QED BY <2>1, <2>2, OneRunMoves
<1> QED BY <1>1, <1>2, TypeInit, TypeStep, PTL DEF Spec

-----------------------------------------------------------------------------
(* ConvInv survives every step.                                            *)

\* A run that is neither running nor finished may change: no token holder of
\* it is in a conversation.
LEMMA IdleRunMoves ==
    ASSUME TypeInv, KeyInv, ConvInv, NEW r \in Run,
           runs[r].state \notin {"check_running", "apply_running"} \cup TerminalState,
           \A s \in Run : s # r => runs'[s] = runs[s],
           tokens' = tokens, calls' = calls
    PROVE  ConvInv'
<1>1. \A e \in Execution :
          /\ TokenRun(e)' = TokenRun(e) /\ (Unrevoked(e)' <=> Unrevoked(e))
          /\ (InConversation(e)' <=> InConversation(e)) /\ (HasProceeded(e)' <=> HasProceeded(e))
  BY DEF TokenRun, Unrevoked, InConversation, HasProceeded
<1>2. \A e \in Execution :
          TokenRun(e) = r => ~ Unrevoked(e) /\ ~ InConversation(e) /\ ~ HasProceeded(e)
  BY Linkage DEF KeyInv, ConvInv, RunningState
<1>3. \A e \in Execution :
          InConversation(e) \/ HasProceeded(e) \/ Unrevoked(e) => TokenRun(e) \in Run
  BY Linkage DEF InConversation, HasProceeded, TypeInv, Linked, TokenRun
<1> QED BY <1>1, <1>2, <1>3 DEF ConvInv, InConversation

\* The upload that ends a phase: its token was unrevoked, and it was the only
\* one of the run.
LEMMA LastUpload ==
    ASSUME TypeInv, KeyInv, ConvInv, NEW e \in Execution, InConversation(e),
           runs[TokenRun(e)].state = RunningState(tokens[e].phase),
           \A s \in Run : s # TokenRun(e) => runs'[s] = runs[s],
           Revoke(TokenRun(e), tokens[e].phase),
           \A d \in Execution : d # e => calls'[d] = calls[d],
           calls'[e].stage = "done",
           \/ calls'[e].fp = NoFp
           \/ tokens[e].phase = "apply" /\ runs'[TokenRun(e)].state \in TerminalState
    PROVE  ConvInv'
<1> DEFINE r == TokenRun(e)
<1>1. r \in Run /\ Unrevoked(e) /\ runs[r].state \notin TerminalState
  BY Linkage DEF ConvInv, InConversation, RunningState, TerminalState
<1>2. \A d \in Execution : d # e /\ TokenRun(d) = r =>
          ~ Unrevoked(d) /\ ~ InConversation(d) /\ ~ HasProceeded(d)
  BY <1>1 DEF KeyInv, ConvInv
<1>3. \A d \in Execution : InConversation(d) \/ HasProceeded(d) => TokenRun(d) \in Run
  BY Linkage DEF InConversation, HasProceeded, TypeInv, Linked, TokenRun
<1>4. \A d \in Execution :
          /\ TokenRun(d)' = TokenRun(d) /\ tokens'[d].phase = tokens[d].phase
          /\ TokenRun(d) # r => (Unrevoked(d)' <=> Unrevoked(d))
          /\ Unrevoked(d)' => Unrevoked(d)
          /\ d = e => ~ Unrevoked(d)'
  BY RevokeEffect DEF Unrevoked, TokenRun, TypeInv
<1>5. \A d \in Execution : d # e => /\ InConversation(d)' <=> InConversation(d)
                                    /\ HasProceeded(d)' <=> HasProceeded(d)
  BY DEF InConversation, HasProceeded
<1>6. ~ InConversation(e)' /\ (HasProceeded(e)' => calls'[e].fp # NoFp)
  BY DEF InConversation, HasProceeded
<1> DEFINE Conv(d) ==
        /\ calls[d].stage = "checking" => tokens[d].phase = "check"
        /\ calls[d].stage \in {"prechecking", "proceeding", "reporting"}
              => tokens[d].phase = "apply"
        /\ HasProceeded(d) => tokens[d].phase = "apply"
        /\ calls[d].stage \in {"none", "booted", "checking"} => calls[d].fp = NoFp
        /\ ~ Unrevoked(d) /\ (InConversation(d) \/ HasProceeded(d))
              => runs[TokenRun(d)].state \in TerminalState
        /\ Unrevoked(d) /\ (calls[d].stage = "prechecking" \/ HasProceeded(d))
              => runs[TokenRun(d)].approvedFp = calls[d].fp
<1>7. Conv(e)'
  BY <1>4, <1>6
<1>8. ASSUME NEW d \in Execution, d # e, TokenRun(d) = r PROVE Conv(d)'
  BY <1>2, <1>4, <1>5, <1>8 DEF ConvInv, InConversation
<1>9. ASSUME NEW d \in Execution, d # e, TokenRun(d) # r PROVE Conv(d)'
  BY <1>3, <1>4, <1>5, <1>9 DEF ConvInv, InConversation
<1> QED BY <1>7, <1>8, <1>9 DEF ConvInv

LEMMA ConvInit == Init => ConvInv
BY DEF Init, ConvInv, InConversation, HasProceeded

LEMMA ConvStep == TypeInv /\ KeyInv /\ ConvInv /\ [Next]_vars => ConvInv'
<1> SUFFICES ASSUME TypeInv, KeyInv, ConvInv, [Next]_vars PROVE ConvInv'
  OBVIOUS
<1>1. ASSUME NEW r \in Run, CreateRun(r) \/ RecordScheduleFailure(r) PROVE ConvInv'
  <2>1. /\ runs[r].state = "absent"
        /\ \A s \in Run : s # r => runs'[s] = runs[s]
        /\ tokens' = tokens /\ calls' = calls
    BY <1>1 DEF CreateRun, RecordScheduleFailure, CanInsert, TypeInv, TypeOK
  <2> QED BY <2>1, IdleRunMoves DEF TerminalState
<1>2. ASSUME NEW r \in Run, NEW phase \in Phase, FailRun(r, phase) PROVE ConvInv'
  <2>1. /\ runs[r].state = RunningState(phase)
        /\ runs'[r].state \in TerminalState
        /\ \A s \in Run : s # r => runs'[s] = runs[s]
        /\ calls' = calls
    <3>1. TypeOK /\ runs[r] \in RunRow /\ FailedState(phase) \in TerminalState
      BY Linkage DEF TypeInv, FailedState, TerminalState
    <3>2. Transition(r, RunningState(phase), FailedState(phase), runs[r]) /\ calls' = calls
      BY <1>2 DEF FailRun
    <3>3. /\ runs[r].state = RunningState(phase)
          /\ \A s \in Run : /\ runs'[s].state = IF s = r THEN FailedState(phase) ELSE runs[s].state
                            /\ s # r => runs'[s] = runs[s]
      BY <3>1, <3>2 DEF Transition, TypeOK, RunRow
    <3> QED BY <3>1, <3>2, <3>3
  <2>2. \A d \in Execution :
            /\ TokenRun(d)' = TokenRun(d) /\ tokens'[d].phase = tokens[d].phase
            /\ TokenRun(d) # r => (Unrevoked(d)' <=> Unrevoked(d))
            /\ Unrevoked(d)' => Unrevoked(d) /\ ~ (TokenRun(d) = r /\ tokens[d].phase = phase)
    BY <1>2, RevokeEffect DEF FailRun, Unrevoked, TokenRun, TypeInv
  <2>3. \A d \in Execution : Unrevoked(d) /\ TokenRun(d) = r => tokens[d].phase = phase
    BY <2>1, Linkage DEF KeyInv, RunningState, Phase
  <2>4. \A d \in Execution : InConversation(d) \/ HasProceeded(d) => TokenRun(d) \in Run
    BY Linkage DEF InConversation, HasProceeded, TypeInv, Linked, TokenRun
  <2>5. \A d \in Execution : /\ InConversation(d)' <=> InConversation(d)
                             /\ HasProceeded(d)' <=> HasProceeded(d)
    BY <2>1 DEF InConversation, HasProceeded
  <2> QED BY <2>1, <2>2, <2>3, <2>4, <2>5 DEF ConvInv, InConversation
<1>3. ASSUME NEW r \in Run, NEW e \in Execution, NEW phase \in Phase, Dispatch(r, e, phase)
      PROVE ConvInv'
  <2>1. /\ runs[r].state \in {"check_queued", "apply_queued"}
        /\ \A s \in Run : s # r => runs'[s] = runs[s]
    <3>1. TypeOK /\ runs[r] \in RunRow /\ QueuedState(phase) \in {"check_queued", "apply_queued"}
      BY Linkage DEF TypeInv, QueuedState
    <3>2. Transition(r, QueuedState(phase), RunningState(phase), runs[r])
      BY <1>3 DEF Dispatch
    <3> QED BY <3>1, <3>2 DEF Transition, TypeOK, RunRow
  <2>2. /\ calls[e].stage = "none" /\ calls[e].fp = NoFp
        /\ calls'[e].stage = "booted" /\ calls'[e].fp = NoFp
        /\ tokens'[e].status = "live"
        /\ \A d \in Execution : d # e => calls'[d] = calls[d] /\ tokens'[d] = tokens[d]
    BY <1>3 DEF Dispatch, Answer, TypeInv, Linked, TypeOK, TokenRow, Call
  <2>3. \A d \in Execution : TokenRun(d) = r =>
            ~ Unrevoked(d) /\ ~ InConversation(d) /\ ~ HasProceeded(d)
    BY <2>1, Linkage DEF KeyInv, ConvInv, RunningState, TerminalState
  <2>4. \A d \in Execution :
            InConversation(d) \/ HasProceeded(d) \/ Unrevoked(d) => TokenRun(d) \in Run
    BY Linkage DEF InConversation, HasProceeded, TypeInv, Linked, TokenRun
  <2>5. \A d \in Execution : d # e => /\ TokenRun(d)' = TokenRun(d)
                                      /\ Unrevoked(d)' <=> Unrevoked(d)
                                      /\ InConversation(d)' <=> InConversation(d)
                                      /\ HasProceeded(d)' <=> HasProceeded(d)
    BY <2>2 DEF TokenRun, Unrevoked, InConversation, HasProceeded
  <2>6. Unrevoked(e)' /\ ~ HasProceeded(e)'
    BY <2>2 DEF Unrevoked, HasProceeded
  <2> QED BY <2>1, <2>2, <2>3, <2>4, <2>5, <2>6 DEF ConvInv, InConversation
<1>4. ASSUME NEW e \in Execution, ExpireToken(e) PROVE ConvInv'
  <2>1. /\ runs' = runs /\ calls' = calls
        /\ \A d \in Execution : /\ TokenRun(d)' = TokenRun(d)
                                /\ tokens'[d].phase = tokens[d].phase
                                /\ Unrevoked(d)' <=> Unrevoked(d)
    BY <1>4 DEF ExpireToken, Unrevoked, TokenRun, TypeInv, TypeOK, TokenRow
  <2> QED BY <2>1 DEF ConvInv, InConversation, HasProceeded
<1>5. ASSUME NEW e \in Execution, RefuseCall(e) PROVE ConvInv'
  <2>1. /\ UNCHANGED <<runs, tokens>> /\ calls[e].stage \in {"booted", "proceeding"}
        /\ \A d \in Execution : /\ calls'[d].stage = IF d = e THEN "refused" ELSE calls[d].stage
                                /\ calls'[d].fp = calls[d].fp
    BY <1>5, AnswerEffect DEF RefuseCall, TypeInv
  <2> QED BY <2>1 DEF ConvInv, InConversation, HasProceeded, TokenRun, Unrevoked
<1>6. ASSUME NEW e \in Execution, RefuseCommit(e) PROVE ConvInv'
  <2>1. /\ UNCHANGED <<runs, tokens>>
        /\ calls[e].stage \in {"checking", "prechecking", "reporting"}
        /\ \A d \in Execution : /\ calls'[d].stage = IF d = e THEN "refused" ELSE calls[d].stage
                                /\ calls'[d].fp = IF d = e /\ calls[d].stage = "prechecking"
                                                  THEN NoFp ELSE calls[d].fp
    BY <1>6, AnswerEffect, AnswerStopEffect DEF RefuseCommit, TypeInv
  <2> QED BY <2>1 DEF ConvInv, InConversation, HasProceeded, TokenRun, Unrevoked
<1>7. ASSUME NEW e \in Execution, LoadCheck(e) \/ LoadResult(e) PROVE ConvInv'
  <2>1. /\ UNCHANGED <<runs, tokens>>
        /\ \/ calls[e].stage = "booted" /\ tokens[e].phase = "check" /\ calls'[e].stage = "checking"
           \/ calls[e].stage = "proceeding" /\ calls'[e].stage = "reporting"
        /\ \A d \in Execution : /\ d # e => calls'[d].stage = calls[d].stage
                                /\ calls'[d].fp = calls[d].fp
    BY <1>7, AnswerEffect DEF LoadCheck, LoadResult, TypeInv
  <2> QED BY <2>1 DEF ConvInv, InConversation, HasProceeded, TokenRun, Unrevoked
<1>8. ASSUME NEW e \in Execution, LoadPrecheck(e) PROVE ConvInv'
  <2>1. /\ UNCHANGED <<runs, tokens>>
        /\ Unrevoked(e) /\ tokens[e].phase = "apply"
        /\ calls'[e].stage = "prechecking" /\ calls'[e].fp = runs[TokenRun(e)].approvedFp
        /\ \A d \in Execution : d # e => calls'[d] = calls[d]
    BY <1>8 DEF LoadPrecheck, Accepts, Unrevoked, TypeInv, TypeOK
  <2> QED BY <2>1 DEF ConvInv, InConversation, HasProceeded, TokenRun, Unrevoked
<1>9. ASSUME NEW e \in Execution, NEW up \in Upload,
             CommitCheck(e, up) \/ PrecheckFailed(e, up) \/ PrecheckMoved(e, up)
      PROVE ConvInv'
  <2>1. /\ InConversation(e)
        /\ runs[TokenRun(e)].state = RunningState(tokens[e].phase)
        /\ Revoke(TokenRun(e), tokens[e].phase)
        /\ \A s \in Run : s # TokenRun(e) => runs'[s] = runs[s]
    BY <1>9 DEF CommitCheck, PrecheckFailed, PrecheckMoved, Transition, RunningState,
       ConvInv, InConversation, TypeInv, TypeOK
  <2>2. /\ \A d \in Execution : d # e => calls'[d] = calls[d]
        /\ calls'[e].stage = "done" /\ calls'[e].fp = NoFp
    BY <1>9 DEF CommitCheck, PrecheckFailed, PrecheckMoved, Answer, AnswerStop,
       ConvInv, TypeInv, TypeOK, Call
  <2> QED BY <2>1, <2>2, LastUpload
<1>10. ASSUME NEW e \in Execution, NEW up \in Upload, PrecheckAgreed(e, up) PROVE ConvInv'
  <2>1. /\ UNCHANGED <<runs, tokens>> /\ calls[e].stage = "prechecking"
        /\ calls'[e].stage = "proceeding"
        /\ \A d \in Execution : /\ d # e => calls'[d].stage = calls[d].stage
                                /\ calls'[d].fp = calls[d].fp
    BY <1>10, AnswerEffect DEF PrecheckAgreed, TypeInv
  <2> QED BY <2>1 DEF ConvInv, InConversation, HasProceeded, TokenRun, Unrevoked
<1>11. ASSUME NEW e \in Execution, NEW up \in Upload, CommitResult(e, up) PROVE ConvInv'
  <2>1. /\ InConversation(e) /\ tokens[e].phase = "apply" /\ TokenRun(e) \in Run
    BY <1>11, Linkage DEF CommitResult, ConvInv, InConversation
  <2>2. /\ runs[TokenRun(e)].state = RunningState(tokens[e].phase)
        /\ Revoke(TokenRun(e), tokens[e].phase)
        /\ \A s \in Run : s # TokenRun(e) => runs'[s] = runs[s]
        /\ runs'[TokenRun(e)].state \in TerminalState
    <3>1. TypeOK /\ runs[TokenRun(e)] \in RunRow /\ RunningState(tokens[e].phase) = "apply_running"
      BY <2>1, Linkage DEF TypeInv, RunningState
    <3>2. /\ Revoke(TokenRun(e), tokens[e].phase)
          /\ \E to \in TerminalState :
                 Transition(TokenRun(e), "apply_running", to, runs[TokenRun(e)])
      BY <1>11, <2>1 DEF CommitResult, TerminalState
    <3> QED BY <2>1, <3>1, <3>2 DEF Transition, TypeOK, RunRow
  <2>3. /\ \A d \in Execution : d # e => calls'[d] = calls[d]
        /\ calls'[e].stage = "done"
    BY <1>11 DEF CommitResult, Answer, TypeInv, TypeOK, Call
  <2> QED BY <2>1, <2>2, <2>3, LastUpload
<1>12. ASSUME NEW u \in User, CommitApprove(u) \/ CommitReject(u) PROVE ConvInv'
  <2> DEFINE r == requests[u].run
  <2>1. /\ r \in Run /\ runs[r].state = "needs_approval"
        /\ \A s \in Run : s # r => runs'[s] = runs[s]
        /\ tokens' = tokens /\ calls' = calls
    BY <1>12, Linkage DEF CommitApprove, CommitReject, Transition, TypeInv, TypeOK
  <2> QED BY <2>1, IdleRunMoves DEF TerminalState
<1>13. ASSUME UNCHANGED <<runs, tokens, calls>> PROVE ConvInv'
  BY <1>13 DEF ConvInv, InConversation, HasProceeded, TokenRun, Unrevoked
<1>14. ASSUME NEW u \in User,
              RequestMissed(u) \/ \E r \in Run : LoadApprove(u, r) \/ LoadReject(u, r)
       PROVE ConvInv'
  BY <1>13, <1>14 DEF RequestMissed, LoadApprove, LoadReject
<1>15. CASE UNCHANGED vars
  BY <1>13, <1>15 DEF vars
<1> QED
  BY <1>1, <1>2, <1>3, <1>4, <1>5, <1>6, <1>7, <1>8, <1>9, <1>10, <1>11, <1>12, <1>14,
     <1>15 DEF Next

-----------------------------------------------------------------------------
(* What a single step does to one token and one conversation.              *)

\* Every action of Next that answers the holder of token e.
CallStep(e) ==
    \/ \E r \in Run, phase \in Phase : Dispatch(r, e, phase)
    \/ RefuseCall(e) \/ RefuseCommit(e)
    \/ LoadCheck(e) \/ LoadPrecheck(e) \/ LoadResult(e)
    \/ \E up \in Upload : \/ CommitCheck(e, up)   \/ PrecheckFailed(e, up)
                          \/ PrecheckMoved(e, up) \/ PrecheckAgreed(e, up)
                          \/ CommitResult(e, up)

LEMMA CallStepIsOwn ==
    ASSUME TypeInv, [Next]_vars, NEW e \in Execution, calls'[e] # calls[e]
    PROVE  CallStep(e)
<1>1. ASSUME calls' = calls PROVE FALSE
  BY <1>1
<1>2. ASSUME NEW d \in Execution, d # e, NEW stage, Answer(d, stage) \/ AnswerStop(d, stage)
      PROVE  FALSE
  BY <1>2 DEF Answer, AnswerStop, TypeInv, TypeOK
<1>3. ASSUME NEW d \in Execution, d # e, LoadPrecheck(d) PROVE FALSE
  BY <1>3 DEF LoadPrecheck, TypeInv, TypeOK
<1>4. ASSUME NEW d \in Execution, d # e,
             \/ \E r \in Run, phase \in Phase : Dispatch(r, d, phase)
             \/ RefuseCall(d) \/ RefuseCommit(d) \/ LoadCheck(d) \/ LoadResult(d)
             \/ \E up \in Upload : \/ CommitCheck(d, up) \/ CommitResult(d, up)
                                   \/ PrecheckAgreed(d, up)
                                   \/ PrecheckFailed(d, up) \/ PrecheckMoved(d, up)
      PROVE  FALSE
  BY <1>2, <1>4 DEF Dispatch, RefuseCall, RefuseCommit, LoadCheck, LoadResult, CommitCheck,
     CommitResult, PrecheckAgreed, PrecheckFailed, PrecheckMoved
<1>5. ASSUME \/ \E r \in Run : CreateRun(r) \/ RecordScheduleFailure(r)
             \/ \E r \in Run, phase \in Phase : FailRun(r, phase)
             \/ \E d \in Execution : ExpireToken(d)
             \/ \E u \in User, r \in Run : LoadApprove(u, r) \/ LoadReject(u, r)
             \/ \E u \in User : CommitApprove(u) \/ CommitReject(u) \/ RequestMissed(u)
             \/ UNCHANGED vars
      PROVE  FALSE
  BY <1>1, <1>5 DEF CreateRun, RecordScheduleFailure, FailRun, ExpireToken, LoadApprove,
     LoadReject, CommitApprove, CommitReject, RequestMissed, vars
<1> QED BY <1>3, <1>4, <1>5 DEF Next, CallStep

LEMMA IssuedTokenKeepsRun ==
    ASSUME TypeInv, [Next]_vars, NEW e \in Execution, tokens[e].status # "none"
    PROVE  TokenRun(e)' = TokenRun(e)
<1>1. ASSUME tokens' = tokens PROVE TokenRun(e)' = TokenRun(e)
  BY <1>1 DEF TokenRun
<1>2. ASSUME NEW r, NEW phase, Revoke(r, phase) PROVE TokenRun(e)' = TokenRun(e)
  BY <1>2, RevokeEffect DEF TokenRun, TypeInv
<1>3. ASSUME NEW r \in Run, NEW d \in Execution, NEW phase \in Phase, Dispatch(r, d, phase)
      PROVE  TokenRun(e)' = TokenRun(e)
  BY <1>3 DEF Dispatch, TokenRun, TypeInv, TypeOK
<1>4. ASSUME NEW d \in Execution, ExpireToken(d) PROVE TokenRun(e)' = TokenRun(e)
  BY <1>4 DEF ExpireToken, TokenRun, TypeInv, TypeOK, TokenRow
<1>5. ASSUME \/ \E r \in Run, phase \in Phase : FailRun(r, phase)
             \/ \E d \in Execution, up \in Upload :
                    \/ CommitCheck(d, up) \/ CommitResult(d, up)
                    \/ PrecheckFailed(d, up) \/ PrecheckMoved(d, up)
      PROVE  TokenRun(e)' = TokenRun(e)
  BY <1>2, <1>5 DEF FailRun, CommitCheck, CommitResult, PrecheckFailed, PrecheckMoved
<1>6. ASSUME \/ \E r \in Run : CreateRun(r) \/ RecordScheduleFailure(r)
             \/ \E d \in Execution : \/ RefuseCall(d) \/ RefuseCommit(d)
                                     \/ LoadCheck(d) \/ LoadPrecheck(d) \/ LoadResult(d)
                                     \/ \E up \in Upload : PrecheckAgreed(d, up)
             \/ \E u \in User, r \in Run : LoadApprove(u, r) \/ LoadReject(u, r)
             \/ \E u \in User : CommitApprove(u) \/ CommitReject(u) \/ RequestMissed(u)
             \/ UNCHANGED vars
      PROVE  TokenRun(e)' = TokenRun(e)
  BY <1>1, <1>6 DEF CreateRun, RecordScheduleFailure, RefuseCall, RefuseCommit, LoadCheck,
     LoadPrecheck, LoadResult, PrecheckAgreed, LoadApprove, LoadReject, CommitApprove,
     CommitReject, RequestMissed, vars
<1> QED BY <1>3, <1>4, <1>5, <1>6 DEF Next

-----------------------------------------------------------------------------
(* The theorems about conversations.                                       *)

ServiceInv == TypeInv /\ KeyInv /\ ConvInv

LEMMA ServiceInvariant == Spec => []ServiceInv
<1>1. Init => ServiceInv
  BY TypeInit, KeyInit, ConvInit DEF ServiceInv
<1>2. ServiceInv /\ [Next]_vars => ServiceInv'
  BY TypeStep, KeyStep, ConvStep DEF ServiceInv
<1> QED BY <1>1, <1>2, PTL DEF Spec

\* A runner that was told to proceed, and holds its token, applies under an
\* approval of exactly the change set it planned.
THEOREM ApplyIsApproved == Spec => []ProceedsUnderApproval
<1>1. ServiceInv => ProceedsUnderApproval
  BY DEF ServiceInv, ConvInv, KeyInv, ProceedsUnderApproval, HasProceeded, RunningState
<1> QED BY <1>1, ServiceInvariant, PTL

\* At most one runner of a run is ever told to proceed: the run of a runner
\* that proceeded is apply_running under its token, or finished, so no other
\* runner's precheck of the run can be answered.
THEOREM ApplyHappensOnce == Spec => []OneApplyPerRun
<1>1. Init => OneApplyPerRun
  BY DEF Init, OneApplyPerRun, HasProceeded
<1>2. ServiceInv /\ OneApplyPerRun /\ [Next]_vars => OneApplyPerRun'
  <2> SUFFICES ASSUME ServiceInv, OneApplyPerRun, [Next]_vars PROVE OneApplyPerRun'
    OBVIOUS
  <2> USE DEF ServiceInv
  <2>1. \A e \in Execution : HasProceeded(e) => tokens[e].status # "none"
    BY DEF HasProceeded, TypeInv, Linked
  <2>2. \A e \in Execution : HasProceeded(e)' /\ ~ HasProceeded(e) =>
            /\ calls[e].stage = "prechecking" /\ tokens' = tokens
            /\ runs[TokenRun(e)].state = "apply_running"
            /\ \A d \in Execution : d # e => calls'[d] = calls[d]
    <3> SUFFICES ASSUME NEW e \in Execution, HasProceeded(e)', ~ HasProceeded(e)
                 PROVE  /\ calls[e].stage = "prechecking" /\ tokens' = tokens
                        /\ runs[TokenRun(e)].state = "apply_running"
                        /\ \A d \in Execution : d # e => calls'[d] = calls[d]
      OBVIOUS
    <3>1. CallStep(e)
      BY CallStepIsOwn DEF HasProceeded
    <3>2. CASE \E up \in Upload : PrecheckAgreed(e, up)
      BY <3>2 DEF PrecheckAgreed, Answer, TypeInv, TypeOK
    <3>3. ASSUME NEW up \in Upload,
                 \/ CommitCheck(e, up) \/ PrecheckFailed(e, up) \/ PrecheckMoved(e, up)
                 \/ CommitResult(e, up)
          PROVE  FALSE
      BY <3>3, AnswerEffect, AnswerStopEffect DEF CommitCheck, PrecheckFailed, PrecheckMoved,
         CommitResult, HasProceeded, TypeInv
    <3>4. ASSUME \/ \E r \in Run, phase \in Phase : Dispatch(r, e, phase)
                 \/ RefuseCall(e) \/ RefuseCommit(e) \/ LoadCheck(e) \/ LoadResult(e)
          PROVE  FALSE
      BY <3>4, AnswerEffect, AnswerStopEffect DEF Dispatch, RefuseCall, RefuseCommit,
         LoadCheck, LoadResult, HasProceeded, TypeInv, Linked
    <3>5. ASSUME LoadPrecheck(e) PROVE FALSE
      BY <3>5 DEF LoadPrecheck, HasProceeded, TypeInv, TypeOK
    <3> QED BY <3>1, <3>2, <3>3, <3>4, <3>5 DEF CallStep
  <2>3. ASSUME NEW c \in Execution, NEW d \in Execution, HasProceeded(c), HasProceeded(d)',
               ~ HasProceeded(d), TokenRun(c)' = TokenRun(d)'
        PROVE  c = d
    <3>1. /\ calls[d].stage = "prechecking" /\ tokens' = tokens
          /\ runs[TokenRun(d)].state = "apply_running"
      BY <2>2, <2>3
    <3>2. TokenRun(c) = TokenRun(d)
      BY <2>3, <3>1 DEF TokenRun
    <3>3. Unrevoked(c) /\ Unrevoked(d)
      BY <2>3, <3>1, <3>2 DEF ConvInv, InConversation, TerminalState
    <3> QED BY <3>2, <3>3 DEF KeyInv
  <2>4. ASSUME NEW c \in Execution, NEW d \in Execution, HasProceeded(c), HasProceeded(d),
               TokenRun(c)' = TokenRun(d)'
        PROVE  c = d
    BY <2>1, <2>4, IssuedTokenKeepsRun DEF OneApplyPerRun
  <2>5. ASSUME NEW c \in Execution, NEW d \in Execution, c # d,
               HasProceeded(c)', ~ HasProceeded(c), HasProceeded(d)', ~ HasProceeded(d)
        PROVE  FALSE
    <3>1. calls'[d] = calls[d]
      BY <2>2, <2>5
    <3> QED BY <2>5, <3>1 DEF HasProceeded
  <2> QED BY <2>3, <2>4, <2>5 DEF OneApplyPerRun
<1> QED BY <1>1, <1>2, ServiceInvariant, PTL DEF Spec

\* A handler whose token was revoked after it loaded changes nothing.
THEOREM LateHandlersMiss == Spec => RevokedTokenChangesNothing
<1>1. ServiceInv /\ [Next]_vars =>
        [\A e \in Execution :
            tokens[e].status = "revoked" /\ calls'[e] # calls[e] =>
                /\ calls'[e].stage = "refused"
                /\ UNCHANGED <<runs, tokens, deliveries>>]_vars
  <2> SUFFICES ASSUME ServiceInv, [Next]_vars, NEW e \in Execution,
                      tokens[e].status = "revoked", calls'[e] # calls[e]
               PROVE  calls'[e].stage = "refused" /\ UNCHANGED <<runs, tokens, deliveries>>
    OBVIOUS
  <2> USE DEF ServiceInv
  <2>1. CallStep(e)
    BY CallStepIsOwn
  <2>2. InConversation(e) => runs[TokenRun(e)].state \in TerminalState
    BY DEF ConvInv, Unrevoked
  <2>3. CASE RefuseCall(e) \/ RefuseCommit(e)
    BY <2>3, AnswerEffect, AnswerStopEffect DEF RefuseCall, RefuseCommit, TypeInv
  <2>4. ASSUME \/ \E r \in Run, phase \in Phase : Dispatch(r, e, phase)
               \/ LoadCheck(e) \/ LoadPrecheck(e) \/ LoadResult(e)
        PROVE  FALSE
    BY <2>4 DEF Dispatch, LoadCheck, LoadPrecheck, LoadResult, Accepts
  <2>5. ASSUME NEW up \in Upload,
               \/ CommitCheck(e, up) \/ PrecheckFailed(e, up) \/ PrecheckMoved(e, up)
               \/ PrecheckAgreed(e, up) \/ CommitResult(e, up)
        PROVE  FALSE
    BY <2>2, <2>5 DEF CommitCheck, PrecheckFailed, PrecheckMoved, PrecheckAgreed, CommitResult,
       Transition, InConversation, TerminalState
  <2> QED BY <2>1, <2>3, <2>4, <2>5 DEF CallStep
<1> QED BY <1>1, ServiceInvariant, PTL DEF Spec, RevokedTokenChangesNothing

-----------------------------------------------------------------------------
(* Offers and approvals.                                                   *)

\* Every action of Next that writes row r.
RunStep(r) ==
    \/ CreateRun(r) \/ RecordScheduleFailure(r)
    \/ \E phase \in Phase : FailRun(r, phase) \/ \E e \in Execution : Dispatch(r, e, phase)
    \/ \E e \in Execution, up \in Upload :
          /\ TokenRun(e) = r
          /\ \/ CommitCheck(e, up) \/ PrecheckFailed(e, up) \/ PrecheckMoved(e, up)
             \/ CommitResult(e, up)
    \/ \E u \in User : requests[u].run = r /\ (CommitApprove(u) \/ CommitReject(u))

LEMMA RunStepIsOwn ==
    ASSUME TypeInv, [Next]_vars, NEW r \in Run, runs'[r] # runs[r]
    PROVE  RunStep(r)
<1>1. ASSUME runs' = runs PROVE FALSE
  BY <1>1
<1>2. ASSUME NEW s, s # r, NEW from, NEW to, NEW values, Transition(s, from, to, values)
      PROVE  FALSE
  BY <1>2 DEF Transition, TypeInv, TypeOK
<1>3. ASSUME NEW s \in Run, s # r, CreateRun(s) \/ RecordScheduleFailure(s) PROVE FALSE
  BY <1>3 DEF CreateRun, RecordScheduleFailure, TypeInv, TypeOK
<1>4. ASSUME NEW s \in Run, s # r,
             \E phase \in Phase : FailRun(s, phase) \/ \E e \in Execution : Dispatch(s, e, phase)
      PROVE  FALSE
  BY <1>2, <1>4 DEF FailRun, Dispatch
<1>5. ASSUME NEW e \in Execution, NEW up \in Upload, TokenRun(e) # r,
             \/ CommitCheck(e, up) \/ PrecheckFailed(e, up) \/ PrecheckMoved(e, up)
             \/ CommitResult(e, up)
      PROVE  FALSE
  BY <1>2, <1>5 DEF CommitCheck, PrecheckFailed, PrecheckMoved, CommitResult
<1>6. ASSUME NEW u \in User, requests[u].run # r, CommitApprove(u) \/ CommitReject(u)
      PROVE  FALSE
  BY <1>2, <1>6 DEF CommitApprove, CommitReject
<1>7. ASSUME \/ \E e \in Execution : \/ ExpireToken(e) \/ RefuseCall(e) \/ RefuseCommit(e)
                                     \/ LoadCheck(e) \/ LoadPrecheck(e) \/ LoadResult(e)
                                     \/ \E up \in Upload : PrecheckAgreed(e, up)
             \/ \E u \in User : \/ RequestMissed(u)
                                \/ \E s \in Run : LoadApprove(u, s) \/ LoadReject(u, s)
             \/ UNCHANGED vars
      PROVE  FALSE
  BY <1>1, <1>7 DEF ExpireToken, RefuseCall, RefuseCommit, LoadCheck, LoadPrecheck, LoadResult,
     PrecheckAgreed, RequestMissed, LoadApprove, LoadReject, vars
<1> QED BY <1>3, <1>4, <1>5, <1>6, <1>7 DEF Next, RunStep

LEMMA OffersGrow == [Next]_vars => offered \subseteq offered' /\ deliveries \subseteq deliveries'
<1> SUFFICES ASSUME [Next]_vars
             PROVE  offered \subseteq offered' /\ deliveries \subseteq deliveries'
  OBVIOUS
<1>1. ASSUME NEW r, NEW doc, PutUpForApproval(r, doc)
      PROVE  offered \subseteq offered' /\ deliveries \subseteq deliveries'
  BY <1>1 DEF PutUpForApproval, Enqueue
<1>2. ASSUME NEW e \in Execution, NEW up \in Upload, CommitCheck(e, up) \/ PrecheckMoved(e, up)
      PROVE  offered \subseteq offered' /\ deliveries \subseteq deliveries'
  BY <1>1, <1>2 DEF CommitCheck, PrecheckMoved
<1>3. ASSUME ~ \E e \in Execution, up \in Upload : CommitCheck(e, up) \/ PrecheckMoved(e, up)
      PROVE  offered' = offered /\ deliveries' = deliveries
  BY <1>3 DEF Next, vars, CreateRun, RecordScheduleFailure, FailRun, Dispatch, ExpireToken,
     RefuseCall, RefuseCommit, LoadCheck, LoadPrecheck, LoadResult, PrecheckFailed,
     PrecheckAgreed, CommitResult, LoadApprove, LoadReject, CommitApprove, CommitReject,
     RequestMissed
<1> QED BY <1>2, <1>3

\* A waiting run has a plan, announced, and offered unless it is blocked.
WaitingInv ==
    \A r \in Run : runs[r].state = "needs_approval" =>
        /\ runs[r].checkFp # NoFp
        /\ ~ runs[r].blocked => <<r, runs[r].checkFp>> \in offered
        /\ \A w \in Webhook : <<w, r, runs[r].checkFp>> \in deliveries

\* A request to approve carries a plan that was offered for its run.
RequestInv ==
    \A u \in User : requests[u].op = "approve" =>
        /\ requests[u].fp # NoFp
        /\ <<requests[u].run, requests[u].fp>> \in offered
        /\ u \in Approver[StackOf[requests[u].run]]

OfferInv == WaitingInv /\ RequestInv /\ ApprovalWasOffered

LEMMA WaitingStep ==
    ASSUME TypeInv, WaitingInv, [Next]_vars, NEW r \in Run, runs'[r].state = "needs_approval"
    PROVE  /\ runs'[r].checkFp # NoFp
           /\ ~ runs'[r].blocked => <<r, runs'[r].checkFp>> \in offered'
           /\ \A w \in Webhook : <<w, r, runs'[r].checkFp>> \in deliveries'
<1>1. CASE runs'[r] = runs[r]
  BY <1>1, OffersGrow DEF WaitingInv
<1>2. CASE runs'[r] # runs[r]
  <2>1. RunStep(r)
    BY <1>2, RunStepIsOwn
  <2>a. ASSUME NEW from, NEW to, NEW values \in RunRow, Transition(r, from, to, values)
        PROVE  to = "needs_approval"
    BY <2>a DEF Transition, TypeInv, TypeOK, RunRow
  <2>2. ASSUME NEW e \in Execution, NEW up \in Upload, TokenRun(e) = r,
               CommitCheck(e, up) \/ PrecheckMoved(e, up)
        PROVE  /\ PutUpForApproval(r, up.doc)
               /\ runs'[r].checkFp = up.doc.fp /\ runs'[r].blocked = up.doc.blocked
    <3>1. CASE CommitCheck(e, up)
      <4>1. [runs[r] EXCEPT !.checkFp = up.doc.fp, !.blocked = up.doc.blocked] \in RunRow
        BY SetPlan, Linkage
      <4>2. CheckVerdict(up) = "needs_approval" /\ up.raw
        BY <2>2, <2>a, <3>1, <4>1, Linkage DEF CommitCheck, CheckVerdict
      <4>3. Transition(r, "check_running", "needs_approval",
                       [runs[r] EXCEPT !.checkFp = up.doc.fp, !.blocked = up.doc.blocked])
        BY <2>2, <3>1, <4>2 DEF CommitCheck
      <4>4. PutUpForApproval(r, up.doc)
        BY <2>2, <3>1, <4>2 DEF CommitCheck
      <4> QED BY <4>3, <4>4 DEF Transition, TypeInv, TypeOK, RunRow
    <3>2. CASE PrecheckMoved(e, up)
      BY <2>2, <3>2 DEF PrecheckMoved, Transition, TypeInv, TypeOK, RunRow
    <3> QED BY <2>2, <3>1, <3>2
  <2>3. ASSUME ~ \E e \in Execution, up \in Upload :
                    TokenRun(e) = r /\ (CommitCheck(e, up) \/ PrecheckMoved(e, up))
        PROVE  FALSE
    <3>1. ASSUME CreateRun(r) \/ RecordScheduleFailure(r) PROVE FALSE
      BY <3>1 DEF CreateRun, RecordScheduleFailure, TypeInv, TypeOK, RunRow
    <3>2. ASSUME NEW phase \in Phase, FailRun(r, phase) PROVE FALSE
      BY <2>a, <3>2, Linkage DEF FailRun, FailedState
    <3>3. ASSUME NEW phase \in Phase, NEW e \in Execution, Dispatch(r, e, phase) PROVE FALSE
      BY <2>a, <3>3, Linkage DEF Dispatch, RunningState
    <3>4. ASSUME NEW e \in Execution, NEW up \in Upload, TokenRun(e) = r,
                 PrecheckFailed(e, up) \/ CommitResult(e, up)
          PROVE  FALSE
      BY <2>a, <3>4, Linkage DEF PrecheckFailed, CommitResult
    <3>5. ASSUME NEW u \in User, requests[u].run = r, CommitApprove(u) \/ CommitReject(u)
          PROVE  FALSE
      <4>1. requests[u].fp \in Fingerprint \cup {NoFp}
        BY DEF TypeInv, TypeOK, Request
      <4>2. [runs[r] EXCEPT !.approvedFp = requests[u].fp, !.approvedBy = u] \in RunRow
        BY <4>1, Linkage DEF RunRow
      <4> QED BY <2>a, <3>5, <4>2, Linkage DEF CommitApprove, CommitReject
    <3> QED BY <2>1, <2>3, <3>1, <3>2, <3>3, <3>4, <3>5 DEF RunStep
  <2>4. ASSUME NEW doc, PutUpForApproval(r, doc)
        PROVE  /\ ~ doc.blocked => <<r, doc.fp>> \in offered'
               /\ \A w \in Webhook : <<w, r, doc.fp>> \in deliveries'
    BY <2>4 DEF PutUpForApproval, Enqueue
  <2> QED BY <2>2, <2>3, <2>4, UploadType
<1> QED BY <1>1, <1>2

LEMMA RequestStep ==
    ASSUME TypeInv, WaitingInv, RequestInv, [Next]_vars, NEW u \in User,
           requests'[u].op = "approve"
    PROVE  /\ requests'[u].fp # NoFp
           /\ <<requests'[u].run, requests'[u].fp>> \in offered'
           /\ u \in Approver[StackOf[requests'[u].run]]
<1>1. CASE requests'[u] = requests[u]
  BY <1>1, OffersGrow DEF RequestInv
<1>2. ASSUME NEW r \in Run, LoadApprove(u, r)
      PROVE  /\ requests'[u].fp # NoFp
             /\ <<requests'[u].run, requests'[u].fp>> \in offered'
             /\ u \in Approver[StackOf[requests'[u].run]]
  BY <1>2 DEF LoadApprove, WaitingInv, TypeInv, TypeOK
<1>3. ASSUME requests'[u] # requests[u] PROVE \E r \in Run : LoadApprove(u, r)
  <2>1. ASSUME requests' = requests PROVE FALSE
    BY <1>3, <2>1
  <2>2. ASSUME NEW v \in User, NEW r \in Run, LoadReject(v, r) PROVE FALSE
    BY <1>3, <2>2 DEF LoadReject, TypeInv, TypeOK
  <2>3. ASSUME NEW v \in User, NEW r \in Run, v # u, LoadApprove(v, r) PROVE FALSE
    BY <1>3, <2>3 DEF LoadApprove, TypeInv, TypeOK
  <2>4. ASSUME NEW v \in User, CommitApprove(v) \/ CommitReject(v) \/ RequestMissed(v)
        PROVE  FALSE
    BY <1>3, <2>4 DEF CommitApprove, CommitReject, RequestMissed, NoRequest, TypeInv, TypeOK
  <2>5. ASSUME ~ \E v \in User, r \in Run : LoadApprove(v, r) \/ LoadReject(v, r),
               ~ \E v \in User : CommitApprove(v) \/ CommitReject(v) \/ RequestMissed(v)
        PROVE  requests' = requests
    BY <2>5 DEF Next, vars, CreateRun, RecordScheduleFailure, FailRun, Dispatch, ExpireToken,
       RefuseCall, RefuseCommit, LoadCheck, LoadPrecheck, LoadResult, CommitCheck,
       PrecheckFailed, PrecheckMoved, PrecheckAgreed, CommitResult
  <2> QED BY <2>1, <2>2, <2>3, <2>4, <2>5
<1> QED BY <1>1, <1>2, <1>3

LEMMA ApprovalStep ==
    ASSUME TypeInv, RequestInv, ApprovalWasOffered, [Next]_vars, NEW r \in Run
    PROVE  /\ runs'[r].state \in {"apply_queued", "apply_running", "succeeded", "apply_failed"}
                 => runs'[r].approvedFp # NoFp
           /\ runs'[r].approvedFp # NoFp =>
                 /\ <<r, runs'[r].approvedFp>> \in offered'
                 /\ runs'[r].approvedBy \in Approver[StackOf[r]]
<1> DEFINE Applied(row) == row.state \in {"apply_queued", "apply_running", "succeeded", "apply_failed"}
           Goal == /\ Applied(runs'[r]) => runs'[r].approvedFp # NoFp
                   /\ runs'[r].approvedFp # NoFp =>
                         /\ <<r, runs'[r].approvedFp>> \in offered'
                         /\ runs'[r].approvedBy \in Approver[StackOf[r]]
<1>1. CASE runs'[r] = runs[r]
  BY <1>1, OffersGrow DEF ApprovalWasOffered
<1>2. ASSUME runs'[r].approvedFp = runs[r].approvedFp, runs'[r].approvedBy = runs[r].approvedBy,
             Applied(runs'[r]) => Applied(runs[r])
      PROVE  Goal
  BY <1>2, OffersGrow DEF ApprovalWasOffered
<1>3. ASSUME NEW from, NEW to, NEW values \in RunRow, Transition(r, from, to, values)
      PROVE  /\ runs[r].state = from /\ runs'[r].state = to
             /\ runs'[r].approvedFp = values.approvedFp
             /\ runs'[r].approvedBy = values.approvedBy
  BY <1>3 DEF Transition, TypeInv, TypeOK, RunRow
<1>4. CASE CreateRun(r) \/ RecordScheduleFailure(r)
  <2>1. /\ runs'[r].approvedFp = runs[r].approvedFp /\ runs'[r].approvedBy = runs[r].approvedBy
        /\ runs'[r].state \in {"check_queued", "check_failed"}
    BY <1>4 DEF CreateRun, RecordScheduleFailure, TypeInv, TypeOK, RunRow
  <2> QED BY <1>2, <2>1
<1>5. ASSUME NEW phase \in Phase, FailRun(r, phase) PROVE Goal
  <2>1. /\ runs[r].state = RunningState(phase) /\ runs'[r].state = FailedState(phase)
        /\ runs'[r].approvedFp = runs[r].approvedFp /\ runs'[r].approvedBy = runs[r].approvedBy
    BY <1>3, <1>5, Linkage DEF FailRun
  <2> QED BY <1>2, <2>1 DEF RunningState, FailedState
<1>6. ASSUME NEW phase \in Phase, NEW e \in Execution, Dispatch(r, e, phase) PROVE Goal
  <2>1. /\ runs[r].state = QueuedState(phase) /\ runs'[r].state = RunningState(phase)
        /\ runs'[r].approvedFp = runs[r].approvedFp /\ runs'[r].approvedBy = runs[r].approvedBy
    BY <1>3, <1>6, Linkage DEF Dispatch
  <2> QED BY <1>2, <2>1 DEF RunningState, QueuedState
<1>7. ASSUME NEW e \in Execution, NEW up \in Upload, TokenRun(e) = r, CommitCheck(e, up) PROVE Goal
  <2>1. PICK values \in RunRow :
            /\ Transition(r, "check_running", CheckVerdict(up), values)
            /\ values.approvedFp = runs[r].approvedFp /\ values.approvedBy = runs[r].approvedBy
    <3> DEFINE values == IF up.raw THEN [runs[r] EXCEPT !.checkFp = up.doc.fp,
                                                        !.blocked = up.doc.blocked]
                                   ELSE runs[r]
    <3>1. values \in RunRow
      BY SetPlan, Linkage
    <3>2. values.approvedFp = runs[r].approvedFp /\ values.approvedBy = runs[r].approvedBy
      BY Linkage DEF RunRow
    <3>3. Transition(r, "check_running", CheckVerdict(up), values)
      BY <1>7 DEF CommitCheck
    <3> HIDE DEF values
    <3> QED BY <3>1, <3>2, <3>3
  <2>2. CheckVerdict(up) \in {"check_failed", "unchanged", "needs_approval"}
    BY DEF CheckVerdict
  <2> QED BY <1>2, <1>3, <2>1, <2>2
<1>8. ASSUME NEW e \in Execution, NEW up \in Upload, TokenRun(e) = r,
             PrecheckFailed(e, up) \/ CommitResult(e, up)
      PROVE  Goal
  <2>1. \E to : Transition(r, "apply_running", to, runs[r])
    BY <1>8 DEF PrecheckFailed, CommitResult
  <2> QED BY <1>2, <1>3, <2>1, Linkage
<1>9. ASSUME NEW e \in Execution, NEW up \in Upload, TokenRun(e) = r, PrecheckMoved(e, up)
      PROVE  Goal
  <2>1. /\ runs'[r].state = "needs_approval" /\ runs'[r].approvedFp = NoFp
    BY <1>9 DEF PrecheckMoved, Transition, TypeInv, TypeOK, RunRow
  <2> QED BY <2>1
<1>10. ASSUME NEW u \in User, requests[u].run = r, CommitApprove(u) PROVE Goal
  <2>1. requests[u].op = "approve" /\ offered' = offered
    BY <1>10 DEF CommitApprove
  <2>2. [runs[r] EXCEPT !.approvedFp = requests[u].fp, !.approvedBy = u] \in RunRow
    <3>1. requests[u].fp \in Fingerprint \cup {NoFp}
      BY DEF TypeInv, TypeOK, Request
    <3> QED BY <3>1, Linkage DEF RunRow
  <2>3. runs'[r].approvedFp = requests[u].fp /\ runs'[r].approvedBy = u
    <3> DEFINE values == [runs[r] EXCEPT !.approvedFp = requests[u].fp, !.approvedBy = u]
    <3>1. values.approvedFp = requests[u].fp /\ values.approvedBy = u
      BY Linkage DEF RunRow
    <3>2. values \in RunRow
      BY <2>2
    <3>3. Transition(r, "needs_approval", "apply_queued", values)
      BY <1>10 DEF CommitApprove
    <3> HIDE DEF values
    <3> QED BY <1>3, <3>1, <3>2, <3>3
  <2> QED BY <1>10, <2>1, <2>3 DEF RequestInv
<1>11. ASSUME NEW u \in User, requests[u].run = r, CommitReject(u) PROVE Goal
  BY <1>2, <1>3, <1>11, Linkage DEF CommitReject
<1>12. CASE runs'[r] # runs[r]
  <2>1. RunStep(r)
    BY <1>12, RunStepIsOwn
  <2> QED BY <2>1, <1>4, <1>5, <1>6, <1>7, <1>8, <1>9, <1>10, <1>11 DEF RunStep
<1> QED BY <1>1, <1>12

LEMMA OfferInvariant == Spec => [](TypeInv /\ OfferInv)
<1>1. Init => OfferInv
  BY DEF Init, OfferInv, WaitingInv, RequestInv, ApprovalWasOffered, NewRun, NoRequest
<1>2. TypeInv /\ OfferInv /\ [Next]_vars => OfferInv'
  <2> SUFFICES ASSUME TypeInv, OfferInv, [Next]_vars PROVE OfferInv'
    OBVIOUS
  <2>1. WaitingInv'
    BY WaitingStep DEF OfferInv, WaitingInv
  <2>2. RequestInv'
    BY RequestStep DEF OfferInv, RequestInv
  <2>3. ApprovalWasOffered'
    BY ApprovalStep DEF OfferInv, ApprovalWasOffered
  <2> QED BY <2>1, <2>2, <2>3 DEF OfferInv
<1> QED BY <1>1, <1>2, TypeInit, TypeStep, PTL DEF Spec

\* Whatever is applied was approved by someone on the allow list, for a change
\* set that was up for approval with every host reachable.
THEOREM ApprovalsWereOffered == Spec => []ApprovalWasOffered
<1>1. OfferInv => ApprovalWasOffered
  BY DEF OfferInv
<1> QED BY <1>1, OfferInvariant, PTL

\* A run that waits for approval has a delivery row for its current plan.
THEOREM WaitingRunsAreAnnounced == Spec => []WaitingIsAnnounced
<1>1. OfferInv => WaitingIsAnnounced
  BY DEF OfferInv, WaitingInv, WaitingIsAnnounced
<1> QED BY <1>1, OfferInvariant, PTL

-----------------------------------------------------------------------------
(* The contract.  Lemmas first say what a step does to the tables as the    *)
(* contract reads them; each action is then an action of the contract or a  *)
(* stutter.                                                                *)

USE ConstantsAssumption

\* The tables as the contract reads them.
StageNow == [r \in Run |-> StageOf(runs[r].state)]
ApprovalNow == [r \in Run |-> [plan |-> runs[r].approvedFp, by |-> runs[r].approvedBy]]
AppliesNow ==
    {<<e, TokenRun(e), calls[e].fp>> : e \in {d \in Execution : HasProceeded(d)}}

LEMMA Reading ==
    /\ Contract!vars = <<StageNow, offered, ApprovalNow, AppliesNow>>
    /\ Contract!vars' = <<StageNow', offered', ApprovalNow', AppliesNow'>>
BY DEF Contract!vars, StageNow, ApprovalNow, AppliesNow

\* What moves a run: its stage, and its approval if the handler writes it.
LEMMA TransitionReads ==
    ASSUME TypeOK, NEW r \in Run, NEW from, NEW to, NEW values \in RunRow,
           Transition(r, from, to, values)
    PROVE  /\ StageNow' = [StageNow EXCEPT ![r] = StageOf(to)]
           /\ StageNow[r] = StageOf(from)
           /\ ApprovalNow' = [ApprovalNow EXCEPT ![r] = [plan |-> values.approvedFp,
                                                         by   |-> values.approvedBy]]
<1>1. /\ runs[r].state = from
      /\ \A s \in Run : /\ runs'[s].state = IF s = r THEN to ELSE runs[s].state
                        /\ s # r => runs'[s] = runs[s]
      /\ runs'[r].approvedFp = values.approvedFp /\ runs'[r].approvedBy = values.approvedBy
  BY DEF Transition, TypeOK, RunRow
<1>2. StageNow' = [StageNow EXCEPT ![r] = StageOf(to)]
  BY <1>1 DEF StageNow
<1>3. ApprovalNow' = [ApprovalNow EXCEPT ![r] = [plan |-> values.approvedFp,
                                                 by   |-> values.approvedBy]]
  BY <1>1 DEF ApprovalNow
<1> QED BY <1>1, <1>2, <1>3 DEF StageNow

LEMMA KeptApproval ==
    ASSUME NEW r \in Run, NEW fp, NEW by,
           fp = runs[r].approvedFp, by = runs[r].approvedBy
    PROVE  [ApprovalNow EXCEPT ![r] = [plan |-> fp, by |-> by]] = ApprovalNow
BY DEF ApprovalNow

\* Only the answer of a precheck that agreed adds an apply, and none is lost.
LEMMA AppliesStep ==
    ASSUME ServiceInv, [Next]_vars, NEW e \in Execution,
           ~ \E up \in Upload : PrecheckAgreed(e, up)
    PROVE  /\ HasProceeded(e)' <=> HasProceeded(e)
           /\ HasProceeded(e) => TokenRun(e)' = TokenRun(e) /\ calls'[e].fp = calls[e].fp
<1> USE DEF ServiceInv
<1>1. HasProceeded(e) => TokenRun(e)' = TokenRun(e)
  BY IssuedTokenKeepsRun DEF HasProceeded, TypeInv, Linked
<1>2. CASE calls'[e] = calls[e]
  BY <1>1, <1>2 DEF HasProceeded
<1>3. CASE calls'[e] # calls[e]
  <2>1. CallStep(e)
    BY <1>3, CallStepIsOwn
  <2>2. ASSUME NEW stage, Answer(e, stage), stage # "prechecking",
               calls[e].stage # "prechecking"
        PROVE  (HasProceeded(e)' <=> HasProceeded(e)) /\ calls'[e].fp = calls[e].fp
    BY <2>2, AnswerEffect DEF HasProceeded, TypeInv
  <2>3. ASSUME NEW stage, AnswerStop(e, stage), calls[e].stage = "prechecking"
        PROVE  ~ HasProceeded(e)' /\ ~ HasProceeded(e)
    BY <2>3, AnswerStopEffect DEF HasProceeded, TypeInv
  <2>4. ASSUME NEW r \in Run, NEW phase \in Phase, Dispatch(r, e, phase)
        PROVE  (HasProceeded(e)' <=> HasProceeded(e)) /\ calls'[e].fp = calls[e].fp
    BY <2>2, <2>4 DEF Dispatch, TypeInv, Linked
  <2>5. CASE RefuseCall(e) \/ LoadCheck(e) \/ LoadResult(e)
    BY <1>1, <2>2, <2>5 DEF RefuseCall, LoadCheck, LoadResult
  <2>6. CASE RefuseCommit(e)
    BY <1>1, <2>2, <2>3, <2>6 DEF RefuseCommit
  <2>7. CASE LoadPrecheck(e)
    <3>1. calls[e].fp = NoFp /\ calls'[e].stage = "prechecking"
      BY <2>7 DEF LoadPrecheck, ConvInv, TypeInv, TypeOK
    <3> QED BY <3>1 DEF HasProceeded
  <2>8. ASSUME NEW up \in Upload, CommitCheck(e, up) \/ CommitResult(e, up)
        PROVE  (HasProceeded(e)' <=> HasProceeded(e)) /\ calls'[e].fp = calls[e].fp
    BY <2>2, <2>8 DEF CommitCheck, CommitResult
  <2>9. ASSUME NEW up \in Upload, PrecheckFailed(e, up) \/ PrecheckMoved(e, up)
        PROVE  ~ HasProceeded(e)' /\ ~ HasProceeded(e)
    BY <2>3, <2>9 DEF PrecheckFailed, PrecheckMoved
  <2> QED BY <1>1, <2>1, <2>4, <2>5, <2>6, <2>7, <2>8, <2>9 DEF CallStep
<1> QED BY <1>2, <1>3

LEMMA AppliesKept ==
    ASSUME ServiceInv, [Next]_vars,
           ~ \E e \in Execution, up \in Upload : PrecheckAgreed(e, up)
    PROVE  AppliesNow' = AppliesNow
<1>1. \A e \in Execution :
          /\ HasProceeded(e)' <=> HasProceeded(e)
          /\ HasProceeded(e) => TokenRun(e)' = TokenRun(e) /\ calls'[e].fp = calls[e].fp
  BY AppliesStep
<1> QED BY <1>1 DEF AppliesNow

\* A run whose upload or failure may still move it back has no apply yet.
LEMMA PrecheckedRunIsUntouched ==
    ASSUME ServiceInv, NEW e \in Execution, calls[e].stage = "prechecking",
           runs[TokenRun(e)].state = "apply_running"
    PROVE  \A d \in Execution : HasProceeded(d) => TokenRun(d) # TokenRun(e)
<1>1. Unrevoked(e)
  BY DEF ServiceInv, ConvInv, InConversation, TerminalState
<1>2. ASSUME NEW d \in Execution, HasProceeded(d), TokenRun(d) = TokenRun(e) PROVE FALSE
  <2>1. Unrevoked(d)
    BY <1>2 DEF ServiceInv, ConvInv, TerminalState
  <2>2. d = e
    BY <1>1, <1>2, <2>1 DEF ServiceInv, KeyInv
  <2> QED BY <1>2, <2>2 DEF HasProceeded
<1> QED BY <1>2

\* What one upload may put on offer.
LEMMA OfferReads ==
    ASSUME NEW r \in Run, NEW up \in Upload, PutUpForApproval(r, up.doc)
    PROVE  Contract!MayOffer(r)
BY UploadType DEF PutUpForApproval, Contract!MayOffer

LEMMA StageReads ==
    /\ StageOf("absent") = "absent" /\ StageOf("check_queued") = "checking"
    /\ StageOf("check_running") = "checking" /\ StageOf("needs_approval") = "waiting"
    /\ StageOf("apply_queued") = "approved" /\ StageOf("apply_running") = "approved"
    /\ \A state \in TerminalState : StageOf(state) = "closed"
BY DEF StageOf, TerminalState

\* The uploads that move a run are the only steps that put a plan on offer.
LEMMA OfferedKept ==
    ASSUME [Next]_vars,
           ~ \E e \in Execution, up \in Upload : CommitCheck(e, up) \/ PrecheckMoved(e, up)
    PROVE  offered' = offered
BY DEF Next, vars, CreateRun, RecordScheduleFailure, FailRun, Dispatch, ExpireToken,
   RefuseCall, RefuseCommit, LoadCheck, LoadPrecheck, LoadResult, PrecheckFailed,
   PrecheckAgreed, CommitResult, LoadApprove, LoadReject, CommitApprove, CommitReject,
   RequestMissed

-----------------------------------------------------------------------------
(* The actions that move a run.                                            *)

LEMMA OpeningReads ==
    ASSUME TypeInv, NEW r \in Run, CreateRun(r) \/ RecordScheduleFailure(r),
           AppliesNow' = AppliesNow
    PROVE  Contract!Open(r)
<1>1. /\ StageNow' = [StageNow EXCEPT ![r] = "checking"]
         \/ StageNow' = [StageNow EXCEPT ![r] = "closed"]
      /\ ApprovalNow' = ApprovalNow /\ offered' = offered
  <2>1. CASE CreateRun(r)
    <3>1. runs' = [runs EXCEPT ![r].state = "check_queued"] /\ offered' = offered
      BY <2>1 DEF CreateRun
    <3>a. \A s \in Run : runs'[s].state = IF s = r THEN "check_queued" ELSE runs[s].state
      BY <3>1 DEF TypeInv, TypeOK, RunRow
    <3>b. StageOf("check_queued") = "checking"
      BY DEF StageOf
    <3>2. StageNow' = [StageNow EXCEPT ![r] = "checking"]
      BY <3>a, <3>b DEF StageNow
    <3>3. ApprovalNow' = ApprovalNow
      BY <3>1 DEF ApprovalNow, TypeInv, TypeOK, RunRow
    <3> QED BY <3>1, <3>2, <3>3
  <2>2. CASE RecordScheduleFailure(r)
    <3>1. runs' = [runs EXCEPT ![r].state = "check_failed"] /\ offered' = offered
      BY <2>2 DEF RecordScheduleFailure
    <3>a. \A s \in Run : runs'[s].state = IF s = r THEN "check_failed" ELSE runs[s].state
      BY <3>1 DEF TypeInv, TypeOK, RunRow
    <3>b. StageOf("check_failed") = "closed"
      BY DEF StageOf
    <3>2. StageNow' = [StageNow EXCEPT ![r] = "closed"]
      BY <3>a, <3>b DEF StageNow
    <3>3. ApprovalNow' = ApprovalNow
      BY <3>1 DEF ApprovalNow, TypeInv, TypeOK, RunRow
    <3> QED BY <3>1, <3>2, <3>3
  <2> QED BY <2>1, <2>2
<1>2. CanInsert(r)
  BY DEF CreateRun, RecordScheduleFailure
<1>3. StageNow[r] = "absent"
  BY <1>2, StageReads DEF CanInsert, StageNow
<1>4. \A s \in Run : StackOf[s] = StackOf[r] => StageNow[s] \in {"absent", "closed"}
  <2> SUFFICES ASSUME NEW s \in Run, StackOf[s] = StackOf[r]
               PROVE  StageNow[s] \in {"absent", "closed"}
    OBVIOUS
  <2>1. runs[s].state = "absent" \/ runs[s].state \in TerminalState
    BY <1>2 DEF CanInsert, TypeInv, TypeOK, RunRow, RunState
  <2> QED BY <2>1, StageReads DEF StageNow
<1> QED BY <1>1, <1>3, <1>4 DEF Contract!Open, Contract!StackIsFree, Contract!Move,
     StageNow, ApprovalNow, AppliesNow

LEMMA ClosingReads ==
    ASSUME TypeOK, NEW r \in Run, NEW from, NEW to \in TerminalState,
           Transition(r, from, to, runs[r]),
           offered' = offered, AppliesNow' = AppliesNow
    PROVE  Contract!Close(r)
<1>1. /\ StageNow' = [StageNow EXCEPT ![r] = "closed"] /\ StageNow[r] = StageOf(from)
      /\ ApprovalNow' = ApprovalNow
  BY TransitionReads, KeptApproval, StageReads DEF TypeOK
<1>2. from \in ActiveState
  BY DEF Transition, AllowedTransitions, ActiveState
<1>3. StageOf(from) \in {"checking", "waiting", "approved"}
  BY <1>2, StageReads DEF ActiveState
<1> QED BY <1>1, <1>3 DEF Contract!Close, Contract!Move, StageNow, ApprovalNow, AppliesNow

LEMMA DispatchReads ==
    ASSUME TypeInv, NEW r \in Run, NEW e \in Execution, NEW phase \in Phase,
           Dispatch(r, e, phase)
    PROVE  StageNow' = StageNow /\ ApprovalNow' = ApprovalNow
<1>1. /\ StageNow' = [StageNow EXCEPT ![r] = StageOf(RunningState(phase))]
      /\ StageNow[r] = StageOf(QueuedState(phase)) /\ ApprovalNow' = ApprovalNow
  BY TransitionReads, KeptApproval DEF Dispatch, TypeInv, TypeOK
<1>2. StageOf(RunningState(phase)) = StageOf(QueuedState(phase))
  BY StageReads DEF RunningState, QueuedState, Phase
<1> QED BY <1>1, <1>2 DEF StageNow

LEMMA CheckReads ==
    ASSUME TypeInv, NEW e \in Execution, NEW up \in Upload, CommitCheck(e, up),
           AppliesNow' = AppliesNow
    PROVE  Contract!Offer(TokenRun(e)) \/ Contract!Close(TokenRun(e))
<1> DEFINE r == TokenRun(e)
           to == CheckVerdict(up)
           values == IF up.raw THEN [runs[r] EXCEPT !.checkFp = up.doc.fp,
                                                    !.blocked = up.doc.blocked]
                               ELSE runs[r]
<1>1. r \in Run
  BY Linkage DEF CommitCheck
<1>2. values \in RunRow /\ values.approvedFp = runs[r].approvedFp
                        /\ values.approvedBy = runs[r].approvedBy
  BY <1>1, SetPlan, Linkage DEF RunRow
<1>3. Transition(r, "check_running", to, values)
  BY DEF CommitCheck
<1> HIDE DEF to, values
<1>4. /\ StageNow' = [StageNow EXCEPT ![r] = StageOf(to)] /\ StageNow[r] = "checking"
      /\ ApprovalNow' = ApprovalNow
  BY <1>1, <1>2, <1>3, TransitionReads, KeptApproval, StageReads DEF TypeInv
<1>5. CASE to = "needs_approval"
  <2>1. Contract!MayOffer(r)
    BY <1>1, <1>5, OfferReads DEF CommitCheck, to
  <2> QED BY <1>4, <1>5, <2>1, StageReads DEF Contract!Offer, Contract!Move, StageNow,
       ApprovalNow, AppliesNow
<1>6. CASE to # "needs_approval"
  <2>1. offered' = offered
    BY <1>6 DEF CommitCheck, to
  <2>2. StageOf(to) = "closed"
    BY <1>6, StageReads DEF to, CheckVerdict, TerminalState
  <2> QED BY <1>4, <2>1, <2>2 DEF Contract!Close, Contract!Move, StageNow, ApprovalNow,
       AppliesNow
<1> QED BY <1>5, <1>6

LEMMA MovedReads ==
    ASSUME ServiceInv, NEW e \in Execution, NEW up \in Upload, PrecheckMoved(e, up),
           AppliesNow' = AppliesNow, NEW r \in Run, r = TokenRun(e)
    PROVE  Contract!Withdraw(r)
<1> DEFINE values == [runs[r] EXCEPT !.checkFp = up.doc.fp, !.blocked = up.doc.blocked,
                              !.approvedFp = NoFp, !.approvedBy = NoUser]
<1>2. values \in RunRow /\ values.approvedFp = NoFp /\ values.approvedBy = NoUser
  BY UploadType, Linkage DEF RunRow, ServiceInv
<1>3. Transition(r, "apply_running", "needs_approval", values)
  BY DEF PrecheckMoved
<1>4. Contract!MayOffer(r)
  BY OfferReads DEF PrecheckMoved
<1>5. \A a \in AppliesNow : a[2] # r
  BY PrecheckedRunIsUntouched DEF PrecheckMoved, Transition, AppliesNow
<1> HIDE DEF values
<1>6. /\ StageNow' = [StageNow EXCEPT ![r] = "waiting"] /\ StageNow[r] = "approved"
      /\ ApprovalNow' = [ApprovalNow EXCEPT ![r] = [plan |-> NoFp, by |-> NoUser]]
  BY <1>2, <1>3, TransitionReads, StageReads DEF TypeInv, ServiceInv
<1> QED BY <1>4, <1>5, <1>6 DEF Contract!Withdraw, Contract!Untouched, Contract!Move,
     Contract!NoApproval, StageNow, ApprovalNow, AppliesNow

LEMMA ApproveReads ==
    ASSUME TypeInv, OfferInv, NEW u \in User, CommitApprove(u), AppliesNow' = AppliesNow,
           NEW r \in Run, r = requests[u].run, NEW p, p = requests[u].fp
    PROVE  p \in Fingerprint /\ Contract!Approve(r, u, p)
<1> DEFINE values == [runs[r] EXCEPT !.approvedFp = p, !.approvedBy = u]
<1>1. p \in Fingerprint
  BY DEF CommitApprove, OfferInv, RequestInv, TypeInv, TypeOK, Request
<1>2. values \in RunRow /\ values.approvedFp = p /\ values.approvedBy = u
  BY <1>1, Linkage DEF RunRow
<1>3. Transition(r, "needs_approval", "apply_queued", values) /\ offered' = offered
  BY DEF CommitApprove
<1>4. <<r, p>> \in offered /\ u \in Approver[StackOf[r]]
  BY DEF CommitApprove, OfferInv, RequestInv
<1> HIDE DEF values
<1>5. /\ StageNow' = [StageNow EXCEPT ![r] = "approved"] /\ StageNow[r] = "waiting"
      /\ ApprovalNow' = [ApprovalNow EXCEPT ![r] = [plan |-> p, by |-> u]]
  BY <1>1, <1>2, <1>3, TransitionReads, StageReads DEF TypeInv
<1>6. Contract!Approve(r, u, p)
  BY <1>3, <1>4, <1>5 DEF Contract!Approve, Contract!Move, StageNow, ApprovalNow, AppliesNow
<1> QED BY <1>1, <1>6

\* The second read of a precheck that agrees finds its run approved for the
\* plan it compared with, and nothing of the run applied.
LEMMA AgreedReads ==
    ASSUME ServiceInv, [Next]_vars, NEW e \in Execution, NEW up \in Upload,
           PrecheckAgreed(e, up)
    PROVE  Contract!Proceed(TokenRun(e), e)
<1> DEFINE r == TokenRun(e)
<1> USE DEF ServiceInv
<1>1. /\ calls[e].stage = "prechecking" /\ runs[r].state = "apply_running"
      /\ up.doc.fp = calls[e].fp /\ r \in Run
      /\ runs' = runs /\ tokens' = tokens /\ offered' = offered
  BY Linkage DEF PrecheckAgreed
<1>2. /\ calls'[e] = [stage |-> "proceeding", fp |-> calls[e].fp]
      /\ \A d \in Execution : d # e => calls'[d] = calls[d]
      /\ calls[e].fp # NoFp
  BY UploadType, <1>1 DEF PrecheckAgreed, Answer, TypeInv, TypeOK, Call
<1>3. runs[r].approvedFp = calls[e].fp
  BY <1>1 DEF ConvInv, InConversation, TerminalState
<1>4. \A d \in Execution : /\ HasProceeded(d)' <=> HasProceeded(d) \/ d = e
                           /\ TokenRun(d)' = TokenRun(d)
                           /\ calls'[d].fp = calls[d].fp
  BY <1>1, <1>2 DEF HasProceeded, TokenRun
<1>5. AppliesNow' = AppliesNow \cup {<<e, r, calls[e].fp>>}
  BY <1>4 DEF AppliesNow
<1>6. \A a \in AppliesNow : a[2] # r
  BY <1>1, PrecheckedRunIsUntouched DEF AppliesNow
<1>7. /\ StageNow[r] = "approved" /\ ApprovalNow[r].plan = calls[e].fp
      /\ StageNow' = StageNow /\ ApprovalNow' = ApprovalNow
  BY <1>1, <1>3, StageReads DEF StageNow, ApprovalNow
<1> QED BY <1>1, <1>5, <1>6, <1>7 DEF Contract!Proceed, Contract!Untouched, StageNow,
     ApprovalNow, AppliesNow

-----------------------------------------------------------------------------
LEMMA ContractStep ==
    ServiceInv /\ OfferInv /\ [Next]_vars => [Contract!Next]_(Contract!vars)
<1> SUFFICES ASSUME ServiceInv, OfferInv, [Next]_vars
             PROVE  Contract!Next \/ Contract!vars' = Contract!vars
  OBVIOUS
<1>t. TypeInv /\ TypeOK
  BY DEF ServiceInv, TypeInv
<1>1. ASSUME NEW e \in Execution, NEW up \in Upload, PrecheckAgreed(e, up)
      PROVE  Contract!Next
  BY <1>1, <1>t, AgreedReads, Linkage DEF Contract!Next, PrecheckAgreed
<1>2. CASE ~ \E e \in Execution, up \in Upload : PrecheckAgreed(e, up)
  <2>1. AppliesNow' = AppliesNow
    BY <1>2, AppliesKept
  <2>2. ASSUME NEW r \in Run, CreateRun(r) \/ RecordScheduleFailure(r) PROVE Contract!Next
    BY <1>t, <2>1, <2>2, OpeningReads DEF Contract!Next
  <2>3. ASSUME NEW r \in Run, NEW phase \in Phase, FailRun(r, phase) PROVE Contract!Next
    <3>1. FailedState(phase) \in TerminalState
      BY DEF FailedState, TerminalState
    <3>2. Contract!Close(r)
      BY <1>t, <2>1, <2>3, <3>1, ClosingReads DEF FailRun
    <3> QED BY <3>2 DEF Contract!Next
  <2>4. ASSUME NEW e \in Execution, NEW up \in Upload, CommitCheck(e, up)
        PROVE  Contract!Next
    BY <1>t, <2>1, <2>4, CheckReads, Linkage DEF Contract!Next, CommitCheck
  <2>5. ASSUME NEW e \in Execution, NEW up \in Upload, PrecheckMoved(e, up)
        PROVE  Contract!Next
    <3>1. PICK r \in Run : r = TokenRun(e)
      BY <1>t, <2>5, Linkage DEF PrecheckMoved
    <3>2. Contract!Withdraw(r)
      BY <2>1, <2>5, <3>1, MovedReads
    <3> QED BY <3>2 DEF Contract!Next
  <2>6. ASSUME NEW e \in Execution, NEW up \in Upload,
               PrecheckFailed(e, up) \/ CommitResult(e, up)
        PROVE  Contract!Next
    <3>1. TokenRun(e) \in Run
      BY <1>t, <2>6, Linkage DEF PrecheckFailed, CommitResult
    <3>2. \E to \in TerminalState :
              Transition(TokenRun(e), "apply_running", to, runs[TokenRun(e)])
      BY <2>6 DEF PrecheckFailed, CommitResult, TerminalState
    <3>3. offered' = offered
      BY <2>6 DEF PrecheckFailed, CommitResult
    <3>4. Contract!Close(TokenRun(e))
      BY <1>t, <2>1, <3>1, <3>2, <3>3, ClosingReads
    <3> QED BY <3>1, <3>4 DEF Contract!Next
  <2>7. ASSUME NEW u \in User, CommitApprove(u) PROVE Contract!Next
    <3>1. PICK r \in Run : r = requests[u].run
      BY <1>t, <2>7, Linkage DEF CommitApprove
    <3>2. PICK p : p = requests[u].fp
      OBVIOUS
    <3>3. p \in Fingerprint /\ Contract!Approve(r, u, p)
      BY <1>t, <2>1, <2>7, <3>1, <3>2, ApproveReads
    <3> QED BY <3>3 DEF Contract!Next
  <2>8. ASSUME NEW u \in User, CommitReject(u) PROVE Contract!Next
    <3>1. requests[u].run \in Run
      BY <1>t, <2>8, Linkage DEF CommitReject
    <3>2. Contract!Close(requests[u].run)
      BY <1>t, <2>1, <2>8, <3>1, ClosingReads DEF CommitReject, TerminalState
    <3> QED BY <3>1, <3>2 DEF Contract!Next
  <2>9. ASSUME NEW r \in Run, NEW e \in Execution, NEW phase \in Phase, Dispatch(r, e, phase)
        PROVE  Contract!vars' = Contract!vars
    <3>1. offered' = offered
      BY <2>9 DEF Dispatch
    <3> QED BY <1>t, <2>1, <2>9, <3>1, DispatchReads, Reading
  <2>10. ASSUME runs' = runs, offered' = offered PROVE Contract!vars' = Contract!vars
    <3>1. StageNow' = StageNow /\ ApprovalNow' = ApprovalNow
      BY <2>10 DEF StageNow, ApprovalNow
    <3> QED BY <2>1, <2>10, <3>1, Reading
  <2>11. ASSUME \/ \E e \in Execution : \/ ExpireToken(e) \/ RefuseCall(e) \/ RefuseCommit(e)
                                        \/ LoadCheck(e) \/ LoadPrecheck(e) \/ LoadResult(e)
                \/ \E u \in User : \/ RequestMissed(u)
                                   \/ \E r \in Run : LoadApprove(u, r) \/ LoadReject(u, r)
                \/ UNCHANGED vars
         PROVE  Contract!vars' = Contract!vars
    BY <2>10, <2>11 DEF ExpireToken, RefuseCall, RefuseCommit, LoadCheck, LoadPrecheck,
       LoadResult, RequestMissed, LoadApprove, LoadReject, vars
  <2> QED BY <1>2, <2>2, <2>3, <2>4, <2>5, <2>6, <2>7, <2>8, <2>9, <2>11 DEF Next
<1> QED BY <1>1, <1>2

LEMMA ContractInit == Init => Contract!Init
BY DEF Init, Contract!Init, Contract!NoApproval, NewRun, NoToken, StageOf, HasProceeded

\* A plan is applied at most once, by a runner told so while its run stood
\* approved for exactly that plan by a user on the allow list; an approval is
\* withdrawn only while nothing has been applied under it.
THEOREM ServiceKeepsContract == Spec => ContractHolds
<1>1. Spec => []([Contract!Next]_(Contract!vars))
  BY ContractStep, ServiceInvariant, OfferInvariant, PTL DEF Spec
<1> QED BY <1>1, ContractInit, PTL DEF Spec, ContractHolds, Contract!Spec
============================================================================
