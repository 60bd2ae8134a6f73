\* Two processes with one goroutine each; a send may outlast its lease.
SPECIFICATION Spec
CONSTANTS
    w1 = w1  w2 = w2  p1 = p1  p2 = p2
    None = None
    Delivery = {"d1"}
    Process = {p1, p2}
    Worker = {w1, w2}
    ProcessOf <- TwoProcesses
    MaxAttempts = 3
    LeaseDuration = 2
    MaxHold = 3
    MaxBackoff = 2
    Backoff <- MCBackoff
    RetryAfter <- MCRetryAfter
    MaxAge = 1
    MaxClaims = 5
    MaxFaults = 1
INVARIANT LeaseExclusive
PROPERTIES ImplementsNotification OnlyHolderReleases
