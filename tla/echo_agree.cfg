\* Lines lost or noisy, ids that wrap, restarts, faults between handshakes before the first restart.
SPECIFICATION Spec
CONSTANTS
    s1 = s1
    s2 = s2
    b1 = b1
    b2 = b2
    Slot <- MCSlots
    GENERATIONS = 2
    Body <- MCOneBody
    LATE = FALSE
    GLITCHES = {0}
    None = None
    MAX_OPENS <- MCThreeAndOne
    MAX_PACKETS = 1
    MAX_BOOTS = 1
    LINES = 2
INVARIANTS TypeOK SessionsAgree
