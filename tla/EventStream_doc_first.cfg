SPECIFICATION Spec
CONSTANTS
    f1 = f1
    f2 = f2
    f3 = f3
    fastP95 = fastP95
    slowP95 = slowP95
    Null = Null
    Unknown = Unknown
    Values <- TwoValues
    Fingerprints <- TwoFingerprints
    STREAM_LIMIT = 2
PROPERTIES
    FirstPollSpeaks
