\* A hash whose completion is lost in any clock; everything still ends.
SPECIFICATION FairSpec
CONSTANTS
    Slot = {0}
    MAX_STAGE_CYCLES = 26
    CFG_CLOCKS = 2
    OP_CLOCKS = 2
    c1 = c1
    c2 = c2
    Ciphertext <- MCOneCiphertext
    FaultKind <- MCStall
    None = None
PROPERTIES HandshakeEnds RequestAnswered
