------------------------------ MODULE Approval ------------------------------
(***************************************************************************)
(* What Stablehand promises about a run, and nothing about how: a plan is   *)
(* applied only after somebody on the allow list approved that plan, for a  *)
(* run that was waiting, and at most once; a run that turned out to plan    *)
(* something else loses its approval before anything is applied; a stack    *)
(* has one open run.  There are no tokens, workers, requests or retries.    *)
(* RunService implements this specification (RunService!ContractHolds).     *)
(***************************************************************************)
CONSTANTS
    Run, Stack, StackOf,
    User, Approver,         \* per stack, the users on its allow list
    Plan, NoPlan, NoUser,
    Agent                   \* whoever applies

VARIABLES
    stage,          \* per run: absent, checking, waiting, approved, closed
    offers,         \* <<run, plan>> put up for approval so far
    approval,       \* per run, the plan approved and by whom
    applies         \* <<agent, run, plan>> told to apply

vars == <<stage, offers, approval, applies>>

NoApproval == [plan |-> NoPlan, by |-> NoUser]

Init ==
    /\ stage = [r \in Run |-> "absent"]
    /\ offers = {}
    /\ approval = [r \in Run |-> NoApproval]
    /\ applies = {}

\* The run goes to stage `to` and every other run stays where it is.
Move(r, to) == stage' = [stage EXCEPT ![r] = to]

StackIsFree(r) ==
    \A s \in Run : StackOf[s] = StackOf[r] => stage[s] \in {"absent", "closed"}

Untouched(r) == \A a \in applies : a[2] # r

MayOffer(r) == offers' = offers \/ \E p \in Plan : offers' = offers \cup {<<r, p>>}

\* A run that could not even be planned is closed at once.
Open(r) ==
    /\ stage[r] = "absent" /\ StackIsFree(r)
    /\ Move(r, "checking") \/ Move(r, "closed")
    /\ UNCHANGED <<offers, approval, applies>>

\* A plan with an unreachable host waits too, but is not on offer.
Offer(r) ==
    /\ stage[r] = "checking" /\ Move(r, "waiting")
    /\ MayOffer(r)
    /\ UNCHANGED <<approval, applies>>

Approve(r, u, p) ==
    /\ stage[r] = "waiting" /\ Move(r, "approved")
    /\ u \in Approver[StackOf[r]] /\ <<r, p>> \in offers
    /\ approval' = [approval EXCEPT ![r] = [plan |-> p, by |-> u]]
    /\ UNCHANGED <<offers, applies>>

Proceed(r, a) ==
    /\ stage[r] = "approved" /\ Untouched(r)
    /\ applies' = applies \cup {<<a, r, approval[r].plan>>}
    /\ UNCHANGED <<stage, offers, approval>>

\* The plan is no longer the approved one: nothing of it has been applied.
Withdraw(r) ==
    /\ stage[r] = "approved" /\ Untouched(r) /\ Move(r, "waiting")
    /\ MayOffer(r)
    /\ approval' = [approval EXCEPT ![r] = NoApproval]
    /\ UNCHANGED applies

Close(r) ==
    /\ stage[r] \in {"checking", "waiting", "approved"} /\ Move(r, "closed")
    /\ UNCHANGED <<offers, approval, applies>>

Next ==
    \E r \in Run : \/ Open(r) \/ Offer(r) \/ Withdraw(r) \/ Close(r)
                   \/ \E u \in User, p \in Plan : Approve(r, u, p)
                   \/ \E a \in Agent : Proceed(r, a)

Spec == Init /\ [][Next]_vars
=============================================================================
