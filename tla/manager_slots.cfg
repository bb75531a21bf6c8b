\* Two slots, two sessions, no reset, the clock and the requester's side fair.
SPECIFICATION FairSpec
CONSTANTS
    NUM_SESSIONS = 2
    SLOT_SPAN = 2
    KEY_WORDS = 1
    WORD_BASE = 2
    MAX_LEN = 2
    Length <- MCOneLength
    m1 = m1
    m2 = m2
    Material <- MCMaterial
    Forged = Forged
    Undef = Undef
    None = None
    WithReset = FALSE
INVARIANTS TypeOK CountersMatchHistory
PROPERTIES AcceptedCompletes OpenedOnceInOrder ImplementsSessionTable
