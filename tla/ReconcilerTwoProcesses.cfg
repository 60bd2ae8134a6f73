\* Two overlapping processes and an Event that may come back to an earlier
\* content.
SPECIFICATION Spec
CONSTANTS
    p1 = p1
    p2 = p2
    a = a
    b = b
    c = c
    None = None
    Process = {p1, p2}
    Content = {a, b}
    Finding <- WarningEvent
    IsEvent = TRUE
    Flapping = TRUE
    MaxFaults = 1
INVARIANTS TypeOK CommitsAreCounted EvaluationsHaveSnapshots
PROPERTIES CommitsBuildOnLatest ImplementsIncident
SYMMETRY Symmetry
CHECK_DEADLOCK FALSE
