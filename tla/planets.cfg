\* Two species on one planet; nulls stored and yields that are not numbers included.
SPECIFICATION FairSpec
CONSTANTS
    c1 = c1
    c2 = c2
    ann = ann
    bob = bob
    near = near
    far = far
    edge = edge
    eden = eden
    elf = elf
    orc = orc
    None = None
    Absent = Absent
    Null = Null
    Planets = {eden}
    Opening <- MCOpening
    InitialShares <- MCShares
    Cost <- MCCost
    AtLimit <- MCAtLimit
    Yield <- MCYield
    Whole = 400
    Conns = {c1}
    Users = {ann}
    Funded = {ann}
    Species = {elf, orc}
    Places = {near, edge}
    NullPuts = {"ignored", "nulled"}
    MaxRefusals = 1
    MaxFailures = 1
    MaxOps = 2
    Garbage = {5}
    NaNYields = {300}
    ExtractAmounts <- MCExtracts
    DeployAmounts <- MCDeploys
\* A stored null keeps the server from ever starting again.
CHECK_DEADLOCK FALSE
INVARIANTS
    PopulationBounded
    SharesAreProportions
    CacheFaithful
PROPERTY
    ExtinctionIsEarned
    HandlerCompletes
