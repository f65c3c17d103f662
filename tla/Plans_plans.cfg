CONSTANTS
    web1 = web1
    web10 = web10
    header = header
    git = git
    removed = removed
    line = line
    Names <- TwoHosts
    Within <- Substrings
    Op = {o1, o2}
    Arg = {a1, a2}
    Part = {header, git, removed}
    Git = {git}
    Plus = {header}
    Anonymous = {git, removed}
    Text <- Texts
    Log = {line}
    LogNames <- LineNames
    First <- Beginnings
    MaxDrifts = 2
SPECIFICATION Spec

    
PROPERTIES
    OnlyTheReviewedIsApplied
    OnlyDriftReturns
    UnchangedIsClean
    SuccessHidesOnlyUnreachable
SYMMETRY Symmetry
CHECK_DEADLOCK FALSE
