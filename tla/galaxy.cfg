\* Two planets, a species, two sessions of one player or of guests.
SPECIFICATION Spec
CONSTANTS
    c1 = c1
    c2 = c2
    Guest = Guest
    ann = ann
    Absent = Absent
    NoName = "none"
    WorldSeed = "WorldSeed2Species1"
    Base = 10
    Planets = {1, 11}
    Names = {"elf"}
    Natives <- MCNatives
    Named <- MCNamed
    SentPointers <- MCSentPointers
    Users = {Guest, ann}
    Conns = {c1, c2}
    Slots = {1}
    MaxEpoch = 2
    MaxCommands = 2
    MaxRefusals = 1
    MaxFailures = 1
SYMMETRY MCSymmetry
CHECK_DEADLOCK FALSE
INVARIANTS
    InventoryInSync
    PlanetOfItsEpoch
PROPERTIES
    ResearchTakesItsTime
    RecordsApart
