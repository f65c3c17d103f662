CONSTANTS
    r1 = r1
    r2 = r2
    s1 = s1
    u1 = u1
    f1 = f1
    f2 = f2
    Run = {r1}
    Stack = {s1}
    User = {u1}
    Execution = {e1, e2}
    Webhook = {w1}
    Fingerprint = {f1, f2}
    NoFp = NoFp
    NoUser = NoUser
    NoRun = NoRun
    NoExecution = NoExecution
    StackOf <- OneStack
    Approver <- EveryoneMayApprove
    Document <- OnePlan
    Backend = "kubernetes"
    MaxFaults = 2
SPECIFICATION FairSystem
INVARIANTS
    SystemTypeOK
    TokenHolderIsActive
PROPERTIES
    CheckIsGivenUpLate
    RunningEnds
