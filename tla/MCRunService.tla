---------------------------- MODULE MCRunService ----------------------------
(* Small instances of RunService.                                          *)
EXTENDS RunService, TLC

CONSTANTS r1, r2, s1, u1, u2, u3, f1, f2

OneStack == [r \in Run |-> s1]
EveryoneMayApprove == [s \in Stack |-> User]
\* Two users are on the allow list, u3 is not.
U3MayNotApprove == [s \in Stack |-> User \ {u3}]

Plan(f, blocked, failed) ==
    [fp |-> f, change |-> TRUE, blocked |-> blocked, failed |-> failed]
NothingToDo(f) ==
    [fp |-> f, change |-> FALSE, blocked |-> FALSE, failed |-> FALSE]

\* Two change sets, the second also seen with an unreachable host or with a
\* failed host; and the first with nothing left to change.
Documents == {Plan(f1, FALSE, FALSE), Plan(f2, FALSE, FALSE), Plan(f2, TRUE, FALSE),
              Plan(f2, FALSE, TRUE), NothingToDo(f1)}

Symmetry == Permutations(Execution)
=============================================================================
