SPECIFICATION Spec
CONSTANTS
    r1 = r1
    r2 = r2
    NotAnInt = NotAnInt
    NoToken = NoToken
    Requests <- TwoRequests
    Tokens <- SomeTokens
    TTL = 2
    LEEWAY_S = 1
    MAX_LIFETIME_S = 2
    Horizon = 4
    Rotations = 1
SYMMETRY RequestSymmetry
INVARIANTS
    HeldKeysAreDated
PROPERTIES
    ReplacedKeysExpire
    AdmittedAlive
    FailsClosed
