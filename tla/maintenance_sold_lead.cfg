SPECIFICATION Spec
CONSTANTS
    l1 = l1
    l2 = l2
    l3 = l3
    alice = alice
    bob = bob
    Leads = {l1, l2, l3}
    Email <- TwoEmails
    HourTicks = 3
    DayHours = 3
    NightHour = 1
    LeadRetention = 1
    OutboxRetention = 0
    PageSize = 2
    MaxLate = 1
    Settings <- OnlyFullRun
    MaxClock = 5
    MaxFaults = 0
PROPERTIES
    EveryOldLeadPurged
CHECK_DEADLOCK FALSE
