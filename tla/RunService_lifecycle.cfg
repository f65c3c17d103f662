CONSTANTS
    r1 = r1
    r2 = r2
    s1 = s1
    u1 = u1
    u2 = u2
    u3 = u3
    f1 = f1
    f2 = f2
    Run = {r1, r2}
    Stack = {s1}
    User = {u1, u2, u3}
    Execution = {e1, e2, e3, e4}
    Webhook = {w1}
    Fingerprint = {f1, f2}
    NoFp = NoFp
    NoUser = NoUser
    NoRun = NoRun
    StackOf <- OneStack
    Approver <- U3MayNotApprove
    Document <- Documents
SPECIFICATION Spec
SYMMETRY Symmetry
CHECK_DEADLOCK FALSE
INVARIANTS
    TypeOK
    OneTokenWhileRunning
    ProceedsUnderApproval
    OneApplyPerRun
    ApprovalWasOffered
    WaitingIsAnnounced
PROPERTIES
    RevokedTokenChangesNothing
    ContractHolds
