SPECIFICATION Spec
CONSTANTS
    l1 = l1
    l2 = l2
    w1 = w1
    w2 = w2
    e1 = e1
    e2 = e2
    None = None
    Leads <- TwoLeads
    Emails <- OneEmail
    EmailOf <- SameEmail
    Brokers <- TwoBrokers
    Configs <- CapsAndMembership
    Settings <- AllSettings
    Workers = {w1, w2}
    Assigners = {a1, a2}
    Retriers = {r1}
    MaxSelectionAttempts = 2
    MaxMessages = 2
INVARIANTS
    OneSalePerEmail
    DuplicateNamesTheSale
    EverySaleTookASlot
    SlotWithinCap
    CapNeverExceeded
    NoLeadForgotten
    WhoMayDeadlock
    SoldToRegisteredBroker
PROPERTIES
    ImplementsLeadSale
    SentStaysSold
SYMMETRY RequestSymmetry
