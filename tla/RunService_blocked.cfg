CONSTANTS
    r1 = r1
    r2 = r2
    s1 = s1
    u1 = u1
    u2 = u2
    u3 = u3
    f1 = f1
    f2 = f2
    Run = {r1}
    Stack = {s1}
    User = {u1, u2}
    Execution = {e1, e2, e3}
    Webhook = {w1}
    Fingerprint = {f1, f2}
    NoFp = NoFp
    NoUser = NoUser
    NoRun = NoRun
    StackOf <- OneStack
    Approver <- EveryoneMayApprove
    Document <- Documents
SPECIFICATION Spec
SYMMETRY Symmetry
CHECK_DEADLOCK FALSE
INVARIANT BlockedIsNeverApproved
