SPECIFICATION Spec
CONSTANTS
    BrokerIds <- Members
    Setups <- AllSetups
INVARIANTS
    ShareDriftBounded
    CapPerCalendarDay
    PageErrsByZone
    PreviewAgreesWithRows
PROPERTIES
    DroppedOnlyWhenNobodyMayReceive
    OnlyEligibleReceive
    HighestDeficitWins
CHECK_DEADLOCK FALSE
