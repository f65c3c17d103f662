---------------------------- MODULE MCStablehand ----------------------------
(* Small instances of Stablehand.                                          *)
EXTENDS Stablehand, TLC

CONSTANTS r1, r2, s1, u1, f1, f2

OneStack == [r \in Run |-> s1]
EveryoneMayApprove == [s \in Stack |-> User]

Plan(f) == [fp |-> f, change |-> TRUE, blocked |-> FALSE, failed |-> FALSE]

\* Two change sets, so that an apply can find that its plan has moved.
TwoPlans == {Plan(f1), Plan(f2)}

OnePlan == {Plan(f1)}
=============================================================================
