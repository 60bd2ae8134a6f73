\* A workload that ages; no faults.
SPECIFICATION Spec
CONSTANTS
    p1 = p1
    p2 = p2
    a = a
    b = b
    c = c
    None = None
    Process = {p1}
    Content = {a, b, c}
    Finding <- Workload
    IsEvent = FALSE
    Flapping = FALSE
    MaxFaults = 0
PROPERTY OutcomeIsStored
CHECK_DEADLOCK FALSE
