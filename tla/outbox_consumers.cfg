SPECIFICATION Spec
CONSTANTS
    MessageCount = 2
    Consumers = {c1, c2}
    Crews = {{c1}, {c1, c2}}
    Admins = {a1}
    BatchSize = 2
    MaxAttempts = 2
    MaxCrashes = 1
    MaxStalls = 1
    MaxErrors = 1
    MaxReplays = 1
INVARIANTS DoneMeansHandled SharedOnlyAfterStall ExtraAttemptsAreFaults
PROPERTIES TakenInOrder
CHECK_DEADLOCK FALSE
