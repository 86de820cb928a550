SPECIFICATION FairServices
CONSTANTS
    Window = 2
    Normal = 2
    Hard = 3
    Limits <- MCLimits
    Backoffs = {2}
    MaxCost = 2
    MaxTime = 3
    MaxTokens = 4
    Retries = 1
    MaxFaults = 2
    MaxEntries = 2
    MaxCrashes = 1
    ChecksToOpen = 2
    MaxLots = 2
    MaxOrder = 1
    MaxChanges = 2
    Alerts = {"a", "b"}
    QueueSize = 1
    MaxOffers = 4
    Views <- MCViews
    Outcomes <- MCChannels
    MaxAttempts = 1
    MaxPhone = 2
    MaxAlarms = 2
    MaxPresses = 1
    MaxKills = 1
    Beats <- MCBeats
    BackupOutcomes <- MCBackupChannels
    BackupAttempts = 2
    BackupPhone = 1
    MaxBeats = 2
    MaxMutes = 1
    MaxTier = 2
    Edges <- MCEdges
    Rearm = 1
    MaxRounds = 2
    MaxActions = 4
    MaxDeaths = 0
    Readers = {"wti", "eth"}
    Lanes = 1
    MaxCommands = 2
    MaxSockets = 2
    LotCap = 2
    HedgeRetries = 1
    Faults <- MCFaults
    MaxMishaps = 1
    MaxIntents = 2
INVARIANTS
    TypesOK
    WindowWithinLimits
    ReserveIsKept
    SleepIsExact
    RepeatsAreCounted
    FlushedBeforeStop
    FaultRingsOnce
    ArchiveNeverRefuses
    ChainIsVerifiable
    ReentryNeedsDip
    TradingMatchesVenues
    DrainReceiptIsFlat
PROPERTIES
    AnswersAreTrue
    AcknowledgedIsQuiet
    LockIsToldOnce
    DeadWatchdogIsReported
    BoundedTrialIsEntered
    DrainIsAnswered
    LaneRequestsAreForgotten
    EntryNeedsProof
    EntryAfterGapIsProven
    GateEntriesReturn
    GateExposureDrains
    EntryAfterStartChecks
    AlarmEndsWhenProven
    AccountEntriesReturn
    AccountEmergencyEnds
CHECK_DEADLOCK FALSE
