SPECIFICATION Spec
CONSTANTS
    b1 = b1
    r1 = r1
    a1 = a1
    a2 = a2
    None = None
    Brokers = {b1}
    Settings = {1, 2}
    Zones = {"Manila"}
    Routers = {r1}
    Admins = {a1, a2}
    MaxVersion = 5
INVARIANTS CoherentUnlessOverlapped SoldBrokerStays
SYMMETRY AdminSymmetry
CHECK_DEADLOCK FALSE
