\* Two uploads of any fields, saved, reloaded and restarted in any order.
SPECIFICATION TablesSpec
CONSTANTS
    Absent = Absent
    Empty = Empty
    Garbage = Garbage
    RecordModes = {"kept", "dropped"}
    MaxUploads = 2
    Null = Null
    Splices = {"fish", "bird"}
    Traits = {"legs", "wings", "fins"}
    DefaultNames = {"legs", "wings"}
    TraitNames <- MCTraitNames
    TraitsOf <- MCTraitsOf
    MaxRefusals = 2
    MaxFailures = 2
INVARIANTS
    SavedRulesComeBack
    UninitialisedNeedsRefusal
    OneTranslation
