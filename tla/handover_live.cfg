\* One vehicle that sends packets and is attacked, on a board that is timed as well; calls that fail, pauses, and a window that is closed at any moment: the program then stops.
SPECIFICATION FairSpec
CONSTANTS
    vehicle_count = 1
    MAX_SESSIONS = 2
    Mocks <- MCSerialOrMock
    User <- MCEverything
    Starts <- MCAnywhere
    Timed <- MCBoardA
    Senders <- MCAll
    MAX_FAULTS = 1
    None = None
CHECK_DEADLOCK FALSE
INVARIANT CommandsFindTheirSession
PROPERTIES WaitEnds ThreadsEnd
