\* One slot, two sessions installed in it, reset at any moment.
SPECIFICATION Spec
CONSTANTS
    NUM_SESSIONS = 1
    SLOT_SPAN = 2
    KEY_WORDS = 1
    WORD_BASE = 2
    MAX_LEN = 2
    Length <- MCLength
    m1 = m1
    m2 = m2
    Material <- MCMaterial
    Forged = Forged
    Undef = Undef
    None = None
    WithReset = TRUE
INVARIANTS NoTornOperands
PROPERTY NonceNeverRepeats
