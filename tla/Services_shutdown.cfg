\* Graceful shutdown alone.
SPECIFICATION ServicesSpec
CONSTANTS
    Calls = {p, q}
    None = None
    Followed = {"shutdown"}
    MaxTokens = 3
    MaxBookings = 2
    Times = {{9}, {9, 10}}
    MaxSessions = 2
    MaxDrafts = 1
    MaxCast = 2
    Quorums = {1, 2}
    MaxItems = 2
    MaxComplaints = 1
    MaxBatches = 1
    MaxItemsEach = 2
    Signals = {"SIGTERM", "SIGINT"}
    MaxEmails = 2
    MaxAttempts = 3
    MaxDelivered = 3
    MaxReminders = 2
    Limit = 2
    Window = 2
    DailyQuota = 2
    LastMoment = 3
    MaxMembers = 2
    MaxJoins = 3
    MaxNotices = 2
    MaxEdits = 3
    MaxRecent = 1
    CodesEach = 2
    MaxPlans = 2
    MaxReleases = 2
    MaxVersions = 2
    MaxReplies = 3
    MaxWrites = 2
    MaxArrivals = 3
    MaxSwitches = 2
CHECK_DEADLOCK FALSE
INVARIANT CleanupAwaitsRequests
