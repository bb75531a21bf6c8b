\* Two vehicles going opposite ways on boards of two slots: calls that fail, boards that fill up.
SPECIFICATION Spec
CONSTANTS
    vehicle_count = 2
    MAX_SESSIONS = 2
    Mocks <- MCSerial
    User <- MCNone
    Starts <- MCEntry
    Timed <- MCNoBoard
    Senders <- MCNone
    MAX_FAULTS = 1
    None = None
INVARIANTS TypeOK SlotsExclusive SessionsBacked IdsDiffer NoOrphanSession FailureCostsOneSlot
PROPERTIES SessionKept ImplementsSlotLease
