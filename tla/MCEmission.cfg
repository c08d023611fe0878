SPECIFICATION IssueSpec
CONSTANTS
    Schedules <- MCSchedules
    Heights <- MCHeights
INVARIANTS
    SupplyWithinCap
    IssuedMatchesRewards
\* issued_through returns.
CHECK_DEADLOCK FALSE
