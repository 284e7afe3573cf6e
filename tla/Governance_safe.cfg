\* Two holders, two proposals over three ledgers, nobody calls before initialize.
SPECIFICATION Spec
CONSTANTS
    v1 = v1
    v2 = v2
    None = None
    Accounts = {v1, v2}
    InitialBalance <- MCInitialBalance
    EarlyCalls = FALSE
    Amounts = {4}
    MaxMoves = 1
    MaxLedger = 3
    MaxId = 2
    MaxAdvanced = 1
    DefaultSupply = 5
    Supplies <- MCSupplies
    Percentages = {60}
    Delays = {1}
    Durations = {20}
    TimelockDelays = {1}
CHECK_DEADLOCK FALSE
INVARIANTS
    TypeOK
    IdsUnique
    ExecutionsWereDue
    DecisionsStand
PROPERTY
    ProposalsAreBallots
