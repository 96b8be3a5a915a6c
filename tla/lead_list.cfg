SPECIFICATION Spec
CONSTANTS
    MaxLeads = 3
    MaxClock = 2
    Retention = 1
    Statuses = {"UNSENT", "SENT"}
    Limits = {1, 2}
INVARIANTS NeverListedTwice NothingSkipped
CHECK_DEADLOCK FALSE
