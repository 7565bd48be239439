SPECIFICATION Spec
CONSTANTS
    c1 = c1
    c2 = c2
    c3 = c3
    NoOne = NoOne
    Clients <- TwoClients
    Malformed <- AllParse
INVARIANTS
    BranchSurvivesRestarts
