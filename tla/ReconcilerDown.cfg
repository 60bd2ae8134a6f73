\* A Job, and one crash.
SPECIFICATION FairSpec
CONSTANTS
    p1 = p1
    p2 = p2
    a = a
    b = b
    c = c
    None = None
    Process = {p1}
    Content = {a, b, c}
    Finding <- Job
    IsEvent = FALSE
    Flapping = FALSE
    MaxFaults = 1
PROPERTY DeletionResolves
CHECK_DEADLOCK FALSE
