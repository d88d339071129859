\* One account, two connections that may share it, lost requests.
SPECIFICATION Spec
CONSTANTS
    c1 = c1
    c2 = c2
    ann = ann
    bob = bob
    near = near
    far = far
    edge = edge
    eden = eden
    elf = elf
    orc = orc
    None = None
    Absent = Absent
    Null = Null
    Planets = {eden}
    Opening <- MCOpening
    InitialShares <- MCShares
    Cost <- MCCost
    AtLimit <- MCAtLimit
    Yield <- MCYield
    Whole = 4
    Conns = {c1, c2}
    Users = {ann}
    Funded = {ann}
    Species = {elf}
    Places = {near, far}
    NullPuts = {"ignored"}
    MaxRefusals = 1
    MaxFailures = 2
    MaxOps = 2
    Garbage = {5}
    NaNYields = {}
    ExtractAmounts = {2}
    DeployAmounts <- MCFewDeploys
SYMMETRY MCSymmetry
INVARIANTS
    TypeOK
    Solvent
    WriteThrough
    NoMint
    OneCommandAtRisk
PROPERTY
    RefinesAccount
