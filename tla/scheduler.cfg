SPECIFICATION Spec
CONSTANTS
    WORD_BITS = 2
    r1 = r1
    r2 = r2
    long = long
    Request <- MCRequest
    TooLong <- MCTooLong
    None = None
INVARIANTS
    TypeOK
    NotStarved
PROPERTY
    ImplementsRoundRobin
