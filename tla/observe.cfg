\* Two players, two simulations; number 2 is also an epoch. A run takes two POLLs.
SPECIFICATION FairSpec
CONSTANTS
    c1 = c1
    c2 = c2
    None = None
    Missing = Missing
    Conns = {c1, c2}
    Sims = {1, 2}
    Epochs = {2, 3}
    RunLength = 2
    PollSteps = 1
    MAX_RETRIES = 2
    MaxRuns = 2
    MaxRefusals = 1
    MaxFailures = 1
INVARIANTS
    TypeOK
    InOrder
    AsAsked
    GapsAreRefusals
    NothingSkipped
PROPERTIES
    ObservationCompletes
    KeepsUp
