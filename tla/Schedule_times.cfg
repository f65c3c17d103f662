CONSTANTS
    even = even
    odd = odd
    never = never
    Stack = {s1, s2}
    NoStack = NoStack
    Cron = {even, odd, never}
    NoCron = NoCron
    NextTime <- EvenOrOdd
    NoTime = NoTime
    NoRow = NoRow
    Admin = {u1}
    MaxTime = 3
    Horizon = 5
    MaxEdits = 3
    MaxFaults = 1
SPECIFICATION FairSpec
INVARIANTS
    ScheduleTypeOK
    OncePerTime
PROPERTIES
    DueStacksAreTreated
