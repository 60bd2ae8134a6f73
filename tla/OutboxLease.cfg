\* One process with two dispatcher goroutines; a claim is always finalized
\* within its lease; crashes and store errors happen.
SPECIFICATION FairSpec
CONSTANTS
    w1 = w1  w2 = w2  p1 = p1  p2 = p2
    None = None
    Delivery = {"d1", "d2"}
    Process = {p1}
    Worker = {w1, w2}
    ProcessOf <- OneProcess
    MaxAttempts = 2
    LeaseDuration = 2
    MaxHold = 1
    MaxBackoff = 2
    Backoff <- MCBackoff
    RetryAfter <- MCRetryAfter
    MaxAge = 1
    MaxClaims = 5
    MaxFaults = 2
INVARIANTS TypeOK FinalizerOwnsRow AttemptsBounded
PROPERTY SettlesEveryDelivery
