CONSTANTS
    Execution = {e1, e2}
    Local = {e1}
    Worker = {w1, w2}
    NoExecution = NoExecution
    MaxFaults = 2
    MaxLosses = 1
SPECIFICATION FairSpec
INVARIANTS
    CredentialsTypeOK
    LeftoversAreExcused
PROPERTIES
    CredentialsGo
CHECK_DEADLOCK FALSE
