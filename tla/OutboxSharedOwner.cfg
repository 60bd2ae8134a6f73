\* One process with two goroutines; a send may outlast its lease.
SPECIFICATION Spec
CONSTANTS
    w1 = w1  w2 = w2  p1 = p1  p2 = p2
    None = None
    Delivery = {"d1", "d2"}
    Process = {p1}
    Worker = {w1, w2}
    ProcessOf <- OneProcess
    MaxAttempts = 2
    LeaseDuration = 2
    MaxHold = 3
    MaxBackoff = 2
    Backoff <- MCBackoff
    RetryAfter <- MCRetryAfter
    MaxAge = 1
    MaxClaims = 5
    MaxFaults = 0
INVARIANT LeaseExclusive
