SPECIFICATION Spec
CONSTANTS
    Consumers <- WorkerAndInline
    StaleAge = 4
    MaxHandled = 1
    MaxRestarts = 2
    MaxFaults = 1
INVARIANTS
    SilenceIsNoticed
    RunningIsReady
    NeverOvercounts

    
