----------------------------- MODULE GameRules -----------------------------
(* The rules of the game in memory, their record at the Almanac, and the admin *)
(* service that uploads, saves and reloads them. A rule is represented by the  *)
(* number of the upload it came with. What the curves compute is CurveEval.    *)
EXTENDS HttpClient

CONSTANTS Absent,       \* no such field in a configuration
          Empty,        \* a curve without keyframes, a table without entries
          Garbage,      \* a number that was never initialised
          RecordModes,  \* what a POST of some fields does to the others: "kept", "dropped"
          MaxUploads    \* bound of the model: uploads in a behaviour

\* Fields a configuration may have: the three numbers, the keyframes of the three
\* curves, the tables of splices and traits, and the names of the default traits.
Fields == {"numbers", "curves", "SpliceData", "TraitData", "DefaultTraits"}

Uploads == 0..MaxUploads
Values == Uploads \cup {Empty, Garbage}

ASSUME RulesAssumption ==
    /\ MaxUploads \in Nat
    /\ {Absent, Empty, Garbage} \cap Uploads = {}
    /\ Absent # Empty /\ Absent # Garbage /\ Empty # Garbage
    /\ RecordModes # {} /\ RecordModes \subseteq {"kept", "dropped"}

VARIABLES process,      \* "down" or "listening"
          rules,        \* the rules in memory; DefaultTraits holds copies, and is
                        \* represented by the TraitData they are copied from
          record,       \* /persistence/gamerules/POLYMINIS-V1
          uploads,      \* the uploads so far
          recordMode    \* how this Almanac treats the fields a POST leaves out

\* History: the rules as the last save that returned found them, if it was made,
\* Absent where another upload, or a start that read nothing, has come in between;
\* and which of the fields that are saved some upload brought without an entry.
VARIABLES saved, emptied

vars == <<httpVars, process, rules, record, uploads, recordMode, saved, emptied>>

Unloaded == [f \in Fields |-> IF f = "numbers" THEN Garbage ELSE Empty]

\* A wrong variant: fields that are not there are reset.
LoadedWhole(r, config) ==
    [f \in Fields |-> IF config[f] = Absent THEN Unloaded[f]
                      ELSE IF f = "DefaultTraits" /\ config["TraitData"] = Absent
                           THEN Empty
                      ELSE IF f = "DefaultTraits" THEN config["TraitData"]
                      ELSE config[f]]

\* LoadFromJsonObj: only the fields that are there are read, an array without
\* entries leaving none; the default traits are looked up in the traits as they
\* are then (a name that is not there makes a null entry in both, which counts as
\* none).
LoadFromJsonObj(r, config) ==
    LET traits == IF config["TraitData"] = Absent THEN r["TraitData"] ELSE config["TraitData"]
    IN  [f \in Fields |-> IF config[f] = Absent THEN r[f]
                          ELSE IF f = "DefaultTraits" /\ config[f] # Empty THEN traits
                          ELSE config[f]]

\* A wrong variant: the curves are forgotten.
SerializedNumbers(r) == [f \in Fields |-> IF f = "numbers" THEN r[f] ELSE Absent]

Serialized == {"numbers", "curves"}

\* SerializeRules: the tables are left out, an empty curve is not.
SerializeRules(r) == [f \in Fields |-> IF f \in Serialized THEN r[f] ELSE Absent]

\* The Almanac takes in a configuration.
Posted(config) ==
    [f \in Fields |-> IF config[f] # Absent THEN config[f]
                      ELSE IF recordMode = "kept" THEN record[f] ELSE Absent]

Forgotten == [f \in Fields |-> Absent]

Terminate == process' = "down" /\ rules' = Unloaded

\* The constructor loads the rules: reading nothing, it leaves the numbers as they
\* are.
Start(o) ==
    /\ process = "down" /\ Request(o)
    /\ IF Returns(o)
       THEN /\ process' = "listening"
            /\ rules' = IF o = "answered" THEN LoadFromJsonObj(Unloaded, record) ELSE Unloaded
       ELSE Terminate
    /\ saved' = IF ReadsEmpty(o) THEN Forgotten ELSE saved
    /\ UNCHANGED <<record, uploads, recordMode, emptied>>

\* The process ends, for a reason of another service or at a field of the wrong
\* type, which throws.
Stop ==
    /\ process = "listening" /\ Terminate
    /\ UNCHANGED <<httpVars, record, uploads, recordMode, saved, emptied>>

\* Every reply of the admin service has the rules: serializing a number that is
\* not one throws, and ends the process. (Garbage that was saved and read again is
\* finite and does not throw; the model allows it to.)
Reply(r) ==
    \/ process' = "listening" /\ rules' = r
    \/ r["numbers"] = Garbage /\ Terminate

\* Every field but the numbers is an array, which may be empty.
Arrays == Fields \ {"numbers"}

\* The configuration of an upload: the fields sent, some of them empty.
Configuration(sent, empty, n) ==
    [f \in Fields |-> IF f \in empty THEN Empty ELSE IF f \in sent THEN n ELSE Absent]

\* UPLOAD_GAME_RULES.
Upload(sent, empty) ==
    /\ process = "listening" /\ uploads < MaxUploads
    /\ uploads' = uploads + 1
    /\ Reply(LoadFromJsonObj(rules, Configuration(sent, empty, uploads + 1)))
    /\ saved' = [f \in Fields |-> IF f \in sent THEN Absent ELSE saved[f]]
    /\ emptied' = emptied \cup (empty \cap Serialized)
    /\ UNCHANGED <<httpVars, record, recordMode>>

\* SAVE_CURRENT_TO_DB: the request is made if the rules serialize.
SaveToDB(o) ==
    /\ process = "listening" /\ Request(o)
    /\ record' = IF Applied(o) THEN Posted(SerializeRules(rules)) ELSE record
    /\ IF Returns(o) THEN Reply(rules) ELSE Terminate
    /\ saved' = IF Returns(o) /\ Applied(o) THEN rules ELSE saved
    /\ UNCHANGED <<uploads, recordMode, emptied>>

\* ... a number that is not one throws before it.
SaveThrows ==
    /\ process = "listening" /\ rules["numbers"] = Garbage
    /\ Terminate
    /\ UNCHANGED <<httpVars, record, uploads, recordMode, saved, emptied>>

\* RELOAD_FROM_DB: what is on record replaces what is in memory.
ReloadFromDB(o) ==
    /\ process = "listening" /\ Request(o)
    /\ IF Returns(o)
       THEN Reply(IF o = "answered" THEN LoadFromJsonObj(rules, record) ELSE rules)
       ELSE Terminate
    /\ UNCHANGED <<record, uploads, recordMode, saved, emptied>>

Init ==
    /\ HttpInit
    /\ process = "down" /\ rules = Unloaded
    /\ record = [f \in Fields |-> 0]
    /\ uploads = 0 /\ recordMode \in RecordModes
    /\ saved = record /\ emptied = {}

Next ==
    \/ \E o \in Outcomes : Start(o) \/ SaveToDB(o) \/ ReloadFromDB(o)
    \/ \E sent \in SUBSET Fields : \E empty \in SUBSET (sent \cap Arrays) : Upload(sent, empty)
    \/ Stop
    \/ SaveThrows

Spec == Init /\ [][Next]_vars
-----------------------------------------------------------------------------
TypeOK ==
    /\ HttpTypeOK
    /\ process \in {"down", "listening"}
    /\ rules \in [Fields -> Values]
    /\ record \in [Fields -> Values \cup {Absent}]
    /\ saved \in [Fields -> Values \cup {Absent}]
    /\ uploads \in Uploads /\ recordMode \in RecordModes
    /\ emptied \subseteq Serialized

\* The numbers and curves that were saved are the ones in use until others are
\* uploaded, through any end of the process, broken save and later load that is
\* answered: SerializeRules leaves out nothing of them that LoadFromJsonObj reads.
SavedRulesComeBack ==
    process = "listening" =>
        \A f \in Serialized : saved[f] # Absent => rules[f] = saved[f]

\* Numbers that were never initialised are in use, or on record, only where a
\* request was refused (a start that read nothing); and curves without keyframes
\* only there or where an upload brought an empty array: no other upload, however
\* partial, no save and no load of a record leaves them so.
UninitialisedNeedsRefusal ==
    \A f \in Serialized :
        \/ process = "listening" /\ rules[f] = Unloaded[f]
        \/ record[f] = Unloaded[f]
        => refusals > 0 \/ f \in emptied
=============================================================================
