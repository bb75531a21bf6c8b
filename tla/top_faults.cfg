\* Corrupted commands and values, and failing hashes, in any clock.
SPECIFICATION Spec
CONSTANTS
    Slot = {0}
    MAX_STAGE_CYCLES = 26
    CFG_CLOCKS = 2
    OP_CLOCKS = 2
    c1 = c1
    c2 = c2
    Ciphertext <- MCCiphertext
    FaultKind <- MCCheckedFaults
    None = None
INVARIANTS TypeOK FailedHandshakeInstallsNothing SuccessInstallsItsMaterial InstallNeedsAgreement AnswerIsForRequest CleanHandshakeSucceeds
