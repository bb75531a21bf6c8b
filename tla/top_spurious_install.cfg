\* A spurious response-valid pulse against the claim on failed handshakes.
SPECIFICATION Spec
CONSTANTS
    Slot = {0}
    MAX_STAGE_CYCLES = 26
    CFG_CLOCKS = 2
    OP_CLOCKS = 2
    c1 = c1
    c2 = c2
    Ciphertext <- MCOneCiphertext
    FaultKind <- MCSpurious
    None = None
INVARIANT FailedHandshakeInstallsNothing
