\* One process and an Event; up to three crashes, failed calls or lost answers.
SPECIFICATION FairSpec
CONSTANTS
    p1 = p1
    p2 = p2
    a = a
    b = b
    c = c
    None = None
    Process = {p1}
    Content = {a, b, c}
    Finding <- Warnings
    IsEvent = TRUE
    Flapping = FALSE
    MaxFaults = 3
INVARIANTS OpenedComesFirst NothingIsMissed
PROPERTIES OutcomeIsStored EventuallyAgrees
CHECK_DEADLOCK FALSE
