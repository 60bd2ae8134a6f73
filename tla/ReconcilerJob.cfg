\* One process and a Job; up to two crashes, failed calls or lost answers.
SPECIFICATION FairSpec
CONSTANTS
    p1 = p1
    p2 = p2
    a = a
    b = b
    c = c
    None = None
    Process = {p1}
    Content = {a, b, c}
    Finding <- Job
    IsEvent = FALSE
    Flapping = FALSE
    MaxFaults = 2
INVARIANT NothingIsMissed
PROPERTIES AgreesUnlessDown LiveObjectsAgree
CHECK_DEADLOCK FALSE
