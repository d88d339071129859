\* Two planets, a species, two sessions of one player or of guests.
SPECIFICATION Spec
CONSTANTS
    c1 = c1
    c2 = c2
    Guest = Guest
    ann = ann
    Absent = Absent
    NoName = "none"
    WorldSeed = "WorldSeed2Species1"
    Base = 10
    Planets = {1}
    Names = {"elf"}
    Natives <- MCNatives
    Named <- MCNamed
    SentPointers <- MCSentPointers
    Users = {Guest}
    Conns = {c1}
    Slots = {1}
    MaxEpoch = 3
    MaxCommands = 3
    MaxRefusals = 0
    MaxFailures = 0

CHECK_DEADLOCK FALSE
INVARIANT
    SeedPointsToIndividuals
