\* A workload that may return to an earlier content; no faults.
SPECIFICATION Spec
CONSTANTS
    p1 = p1
    p2 = p2
    a = a
    b = b
    c = c
    None = None
    Process = {p1}
    Content = {a, b, c}
    Finding <- Workload
    IsEvent = FALSE
    Flapping = TRUE
    MaxFaults = 0
PROPERTY RecoveryResolves
CHECK_DEADLOCK FALSE
