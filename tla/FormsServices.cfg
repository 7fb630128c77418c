SPECIFICATION WithMessagesSpec
CONSTANTS
    ZonesOf <- MCZonesOf
    MaxForms = 2
    MaxTyped = 2
    MaxZoneCalls = 2
    RecordIds = {"r"}
    Matching = {}
    Lookups = {"hetzner"}
    maxAttempts = 2
    MaxCalls = 4
    Schedules = {"hourly"}
    MaxConfigOpens = 3
    MaxEdits = 2
    MaxTaskForms = 2
    MaxTaskCalls = 3
    MaxChanges = 1
    Candidates = {"a", "b", "c"}
    Resolvers = 5
    Crons = {"hourly", "daily"}
    MaxUpdates = 2
    MaxRuns = 2
    MaxStops = 1
    Cooldowns = {0, 2}
    MaxReports = 3
    MaxMinutes = 2
INVARIANTS
    PartsTypeOK
    SavedDomainOfZone
    SpinnersEnd
    UnloadedFormRefused
    HeadersKept
    ConsensusPick
    ServicesFollowConfig
    DeliveredWhole
    ReportsPaced
    MessagesIntact
CHECK_DEADLOCK FALSE
