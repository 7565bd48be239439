SPECIFICATION Spec
CONSTANTS
    r1 = r1
    r2 = r2
    f1 = f1
    alice = alice
    bob = bob
    carol = carol
    dave = dave
    NoOne = NoOne
    Unknown = Unknown
    Requests <- TwoRequests
    Callers <- Everybody
    Fingerprints <- OneFingerprint
    COOLDOWN_S = 2
    Horizon = 2
SYMMETRY RequestSymmetry
INVARIANTS
    AnswersTellOfTheWrite
PROPERTIES
    AdmittedApart
    ThrottledForOwnCalls
    OverwritesNeedTheToken
