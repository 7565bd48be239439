SPECIFICATION FairSpec
CONSTANTS
    c1 = c1
    c2 = c2
    c3 = c3
    NoOne = NoOne
    Clients <- ThreeClients
    Malformed <- AnyMalformed
INVARIANTS
    Serialized
    DialsTheActiveBranch
    RestartKeepsTheBranch
PROPERTIES
    AnswerIsTheTruth
    FailureKeepsServing
    ActsAsRegister
    EveryRequestEnds
