CONSTANTS
    CuNum = 2
    MaxVertices = 4
    Page = 4
    EdgeSlack = 3
    Interface <- MCInterface
    Programs <- MCPrograms
    Align = 2
    NumSteps = 3
    MaxRuns = 2
    MaxSteps = 7
SPECIFICATION FairSpec
CHECK_DEADLOCK FALSE
INVARIANTS
    TypeOK
    Coherent
    CModelAgrees
    ReachedExactly
PROPERTY
    MainEnds
