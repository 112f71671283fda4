SPECIFICATION MCSpec
CONSTANTS
    Incidents = {i1}
    Escalations <- MCEscalations
    Schedules <- MCSchedules
    Starts = {0, 24}
    MaxRun = 4
    TicksPerDay = 2
    Executions = {e1, e2}
    Policies <- MCPolicies
    MaxClock = 3
    Domains = {d1, d2}
    Kinds = {"breach", "slo"}
    BreachKind = "breach"
    Unfiltered = {"slo"}
    PollLimit = 1
    Gap = 2
    MaxDuration = 3
    MaxEvents = 2
    PublishUntil = 2
    MaxNow = 4
    MaxMishaps = 1
    MaxVerdicts = 2
    MaxRetroSnapshots = 3
    PageSize = 2
    ListLimit = 2
    MaxSlips = 1
    Bounds = {1, 2, 3}
    EvalConcurrency = 2
    MaxEdits = 1
    MaxUnreadable = 0
INVARIANTS
    WorkersTypeOK
    NothingEarlyOrTwice
    RotationHandsOver
    CooldownSpacing
    EventsReportedOnce
    SignalsTruthful
    GovernedAreOpen
    OneVerdictPerBreach
PROPERTIES
    AckSilences
    EveryStepFires
    HeldIsReported
    EvidenceIsUsed
    EverySnapshotRetrospected
    EveryEntryReached
CHECK_DEADLOCK FALSE
