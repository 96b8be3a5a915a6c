SPECIFICATION Spec
CONSTANTS
    l1 = l1
    l2 = l2
    w1 = w1
    w2 = w2
    e1 = e1
    e2 = e2
    None = None
    Leads <- TwoLeads
    Emails <- OneEmail
    EmailOf <- SameEmail
    Brokers <- OneBroker
    Configs <- OnOrOff
    Settings <- OnlyEveryone
    Workers = {w1}
    Assigners = {a1}
    Retriers = {}
    MaxSelectionAttempts = 3
    MaxMessages = 1
PROPERTIES
    SentIsTerminal
