SPECIFICATION FairDeliverySpec
CONSTANTS
    MessageCount = 2
    Consumers = {c1}
    Crews = {{c1}}
    Admins = {a1}
    Leads = {l1}
    Retriers = {r1}
    NoLead = NoLead
    BatchSize = 2
    MaxAttempts = 2
    MaxCrashes = 1
    MaxStalls = 0
    MaxErrors = 1
    MaxReplays = 1
INVARIANTS NoLeadStranded
PROPERTIES ImplementsQueue EventuallyDecided
CHECK_DEADLOCK FALSE
