\* Each service in turn, with two calls under way.
SPECIFICATION ServicesSpec
CONSTANTS
    Calls = {p, q}
    None = None
    Followed = {"sessions", "bookings", "kyc", "proposals", "moderation", "batch", "shutdown", "email", "optouts", "limits", "cohort", "notices", "accounts", "courses", "forum", "offline"}
    MaxTokens = 3
    MaxBookings = 2
    Times = {{9}, {9, 10}}
    MaxSessions = 2
    MaxDrafts = 1
    MaxCast = 2
    Quorums = {1, 2}
    MaxItems = 2
    MaxComplaints = 1
    MaxBatches = 1
    MaxItemsEach = 2
    Signals = {"SIGTERM", "SIGINT"}
    MaxEmails = 2
    MaxAttempts = 3
    MaxDelivered = 2
    MaxReminders = 2
    Limit = 2
    Window = 2
    DailyQuota = 2
    LastMoment = 2
    MaxMembers = 2
    MaxJoins = 3
    MaxNotices = 2
    MaxEdits = 3
    MaxRecent = 1
    CodesEach = 2
    MaxPlans = 2
    MaxReleases = 2
    MaxVersions = 2
    MaxReplies = 3
    MaxWrites = 2
    MaxArrivals = 3
    MaxSwitches = 2
CONSTRAINT Explored
CHECK_DEADLOCK FALSE
INVARIANTS
    ServicesTypeOK
    SafeUnderRaces
    ExactWithoutRaces
PROPERTY
    ClosedStaysClosed
