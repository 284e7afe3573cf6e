\* The restrictions contract alone.
SPECIFICATION ContractsSpec
CONSTANTS
    a1 = a1
    a2 = a2
    None = None
    Accounts = {a1, a2}
    Admin = a1
    MaxLedger = 2
    Subjects = {"restrictions"}
    Creds = {c1}
    MaxNfts = 2
    MaxHistory = 1
    Grace = 1
    MaxCertificates = 2
    BadgeTypes = {t1, t2}
    MaxBadges = 3
    MaxGrants = 2
    MaxMilestones = 1
    MaxSets = 2
    MaxReports = 1
    Amounts = {1, 2}
    MaxDonated = 2
    MaxApplications = 2
    Splits <- MCSplits
    Royalty = {7, 10}
    MaxRecipients = 3
    MaxPayments = 2
    Configs <- MCConfigs
    FirstConfig <- MCFirstConfig
    Deposits = {2}
    Orders <- MCOrders
    Price = 2000
    MaxAdded = 4
    MaxBuybacks = 2
    Claims = {3}
    MaxDisputes = 2
    MaxEscrows = 1
    MaxSigners = 3
    MaxTimeout = 2
    MaxProposals = 2
    MaxThreshold = 2
    MaxDelay = 2
    Hashes = {h1}
    MaxTimelock = 2
    MaxPause = 1
    MaxPlans = 2
    MaxCalls = 1
    Limits = {1, 2}
    MaxLog = 2
    Skills = {k1}
    Levels = {"Unverified", "Expert"}
    PauseLedgers = 2
    Courses = {k1}
    Percentages = {0, 40, 100}
    Changes <- MCChanges
    Penalties = {2}
    Decays <- MCDecays
    FirstDecay <- MCFirstDecay
    LevelTwo = 4
    MaxUpdates = 2
CHECK_DEADLOCK FALSE
INVARIANT RequestedTransfersWait
