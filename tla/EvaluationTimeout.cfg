SPECIFICATION Spec
CONSTANTS
    None = None
    NoBody = NoBody
    IgnoredLabels <- MCIgnoredLabels
    SensitiveKeys <- MCSensitiveKeys
    IgnoredNamespaces <- MCIgnoredNamespaces
    MaxItems = 4
    Dictionary <- MCDictionary
    CrashLoopRestartThreshold = 2
    CrashLoopCriticalThreshold = 3
    MinimumAge = 2
    EventQuietPeriod = 2
    MaxAttempts = 3
    MaxBackoff = 1
    Backoff <- MCBackoff
    MaxRetryAfter = 1
    TotalTimeout = 4
    RetryAfter <- MCRetryAfter
    Body <- MCBody
    Objects <- MCObjects
    Providers <- MCProviders
    ReconcileTimeout = 6
    StoreTime = 0
INVARIANT
    EveryDecisionIsCommitted
