\* Answers of any age, clients stopped and started at any moment; the board stays up.
SPECIFICATION Spec
CONSTANTS
    s1 = s1
    s2 = s2
    b1 = b1
    b2 = b2
    Slot <- MCOneSlot
    GENERATIONS = 3
    Body <- MCBodies
    LATE = TRUE
    GLITCHES = {0}
    None = None
    MAX_OPENS <- MCTwoEach
    MAX_PACKETS = 2
    MAX_BOOTS = 0
    LINES = 3
INVARIANTS OnePayloadPerNonce StaleNeverEchoed
PROPERTY BoardNonceNeverRepeats
