\* All three links: lines lost, cut and late, OPENs refused, the program ended in a call and started again, and at last not.
SPECIFICATION FairSpec
CONSTANTS
    s1 = s1
    s2 = s2
    v1 = v1
    p1 = p1
    LINKS <- MCLinks
    Slot <- MCTwoSlots
    VehicleId <- MCOneVehicle
    Payload <- MCOnePayload
    None = None
    MAX_OPENS = 2
    MAX_PACKETS = 1
    MAX_FAULTS = 2
    MAX_STARTS = 2
CHECK_DEADLOCK FALSE
INVARIANTS TypeOK HeldSessionAgrees
PROPERTIES StartsEmpty EchoMeansOpened LeftMeansLeft ComesUp
