\* What the comment on EXTRACT says, against what the PUT does.
SPECIFICATION Spec
CONSTANTS
    c1 = c1
    c2 = c2
    ann = ann
    bob = bob
    near = near
    far = far
    edge = edge
    eden = eden
    elf = elf
    orc = orc
    None = None
    Absent = Absent
    Null = Null
    Planets = {eden}
    Opening <- MCOpening
    InitialShares <- MCShares
    Cost <- MCCost
    AtLimit <- MCAtLimit
    Yield <- MCYield
    Whole = 4
    Conns = {c1}
    Users = {ann}
    Funded = {ann}
    Species = {elf, orc}
    Places = {near, far}
    NullPuts = {"ignored", "nulled"}
    MaxRefusals = 1
    MaxFailures = 1
    MaxOps = 1
    Garbage = {5}
    NaNYields = {4}
    ExtractAmounts = {1, 4}
    DeployAmounts = {2}
INVARIANT
    ExtractUpdatesProportion
