\* A handover that fails once and is tried again.
SPECIFICATION FairSpec
CONSTANTS
    vehicle_count = 1
    MAX_SESSIONS = 2
    Mocks <- MCSerial
    User <- MCNone
    Starts <- MCEntry
    Timed <- MCNoBoard
    Senders <- MCNone
    MAX_FAULTS = 1
    None = None
PROPERTY SwitchLeavesOld
