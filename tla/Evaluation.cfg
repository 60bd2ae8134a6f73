SPECIFICATION FairSpec
CONSTANTS
    None = None
    NoBody = NoBody
    IgnoredLabels <- MCIgnoredLabels
    SensitiveKeys <- MCSensitiveKeys
    IgnoredNamespaces <- MCIgnoredNamespaces
    MaxItems = 4
    Dictionary <- MCDictionary
    CrashLoopRestartThreshold = 2
    CrashLoopCriticalThreshold = 3
    MinimumAge = 2
    EventQuietPeriod = 2
    MaxAttempts = 3
    MaxBackoff = 2
    Backoff <- MCBackoff
    MaxRetryAfter = 2
    TotalTimeout = 4
    RetryAfter <- MCRetryAfter
    Body <- MCBody
    Objects <- MCObjects
    Providers <- MCProviders
    ReconcileTimeout = 11
    StoreTime = 1
INVARIANTS
    TypeOK
    DecisionTimeBound
    EveryDecisionIsCommitted
    FallbackIsLast
    IgnoredIsSilent
    DownIsPaged
    RulesFollowHash
    ListingOrderIrrelevant
    EvidenceIsGenuine
    RiskierEvidenceNeverLowers
    SchemaAdmitsTheValid
PROPERTIES
    EvaluationEnds
