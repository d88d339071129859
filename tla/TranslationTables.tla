------------------------- MODULE TranslationTables -------------------------
(* The tables of splices and traits behind GameRules: the translation tables   *)
(* made of them for a deployed or edited species, and the master table a       *)
(* simulation is given. A trait is looked up with operator[] of std::map,      *)
(* which leaves a null entry for a name that is not there.                     *)
EXTENDS GameRules

CONSTANTS Splices,      \* names of splices
          Traits,       \* names of traits
          TraitNames,   \* TraitNames[n]: the traits upload n defines
          TraitsOf,     \* TraitsOf[n][s]: those its splice s gives; {} if it has none
          DefaultNames, \* the names in DefaultTraits
          Null          \* a null entry

ASSUME TablesAssumption ==
    /\ TraitNames \in [Uploads -> SUBSET Traits]
    /\ TraitsOf \in [Uploads -> [Splices -> SUBSET Traits]]
    /\ DefaultNames \subseteq Traits
    /\ Null \notin Uploads

VARIABLES nulls,        \* the names with a null entry in TraitData
          defaults      \* DefaultTraits: the entries copied for the default names

\* History: made[s] is the table made last of splice s, Absent where the rules it
\* was made from have been replaced since.
VARIABLE made

tablesVars == <<nulls, defaults, made>>

Defined(traits) == IF traits \in Uploads THEN TraitNames[traits] ELSE {}

\* What a table says of a trait: "Number" 0 and no "Tier" if the entry is null.
Row(traits, t) == [name |-> t, entry |-> IF t \in Defined(traits) THEN traits ELSE Null]

\* The traits that are looked up for a splice, none if there is no such splice.
Looked(s) == IF rules["SpliceData"] \in Uploads THEN TraitsOf[rules["SpliceData"]][s] ELSE {}

\* A null entry is read like one that is not there.
TableRow(t) == [Row(rules["TraitData"], t) EXCEPT !.entry = IF t \in nulls THEN Null ELSE @]

Table(s) == {TableRow(t) : t \in Looked(s)} \cup defaults

\* GetTraitData, as RunSimulation sends it: the null entries are among the rest.
MasterTable == {TableRow(t) : t \in Defined(rules["TraitData"]) \cup nulls}

\* A wrong variant: a trait is moved out of the map, and not copied.
MovedOut(names, traits) == names

\* The names that get a null entry when they are looked up.
NullFor(names, traits) == names \ Defined(traits)

\* CreateTranslationTable, for a species with one splice.
CreateTranslationTable(s) ==
    /\ process = "listening"
    /\ made' = [made EXCEPT ![s] = Table(s)]
    /\ nulls' = nulls \cup NullFor(Looked(s), rules["TraitData"])
    /\ UNCHANGED <<vars, defaults>>

NoConfig == [f \in Fields |-> Absent]

\* LoadFromJsonObj: traits that are replaced lose their null entries, and the
\* default names are looked up in the traits as they are then.
LoadTables(config) ==
    LET traits == rules'["TraitData"]
        old    == IF config["TraitData"] = Absent THEN nulls ELSE {}
        names  == IF config["DefaultTraits"] = Empty THEN {} ELSE DefaultNames
    IN  IF process' = "down"
        THEN nulls' = {} /\ defaults' = {} /\ made' = [s \in Splices |-> Absent]
        ELSE /\ IF config["DefaultTraits"] = Absent
                THEN nulls' = old /\ UNCHANGED defaults
                ELSE /\ nulls' = old \cup NullFor(names, traits)
                     /\ defaults' = {Row(traits, t) : t \in names}
             /\ made' = IF \A f \in {"SpliceData", "TraitData", "DefaultTraits"} : config[f] = Absent
                        THEN made ELSE [s \in Splices |-> Absent]

RulesStep ==
    \/ \E o \in Outcomes :
          \/ /\ Start(o) \/ ReloadFromDB(o)
             /\ LoadTables(IF o = "answered" THEN record ELSE NoConfig)
          \/ SaveToDB(o) /\ LoadTables(NoConfig)
    \/ \E sent \in SUBSET Fields : \E empty \in SUBSET (sent \cap Arrays) :
          /\ Upload(sent, empty)
          /\ LoadTables(Configuration(sent, empty, uploads'))
    \/ (Stop \/ SaveThrows) /\ LoadTables(NoConfig)

TablesInit ==
    /\ Init
    /\ nulls = {} /\ defaults = {} /\ made = [s \in Splices |-> Absent]

TablesNext == RulesStep \/ \E s \in Splices : CreateTranslationTable(s)

TablesSpec == TablesInit /\ [][TablesNext]_<<vars, tablesVars>>
-----------------------------------------------------------------------------
\* Making tables, for whatever species, leaves the rules fit to make the others
\* again: until tables are uploaded or loaded a splice has one translation, and
\* each trait in it is, as it is there, in the master table the next simulation is
\* given, unless the default traits are copies of older trait data
\* (CreateTranslationTable, RunSimulation, LoadFromJsonObj).
OneTranslation ==
    \A s \in Splices : made[s] # Absent =>
        /\ made[s] = Table(s)
        /\ rules["DefaultTraits"] = rules["TraitData"] =>
              \A row \in made[s] : row.entry # Null => row \in MasterTable
=============================================================================
