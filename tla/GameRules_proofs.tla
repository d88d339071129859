-------------------------- MODULE GameRules_proofs --------------------------
(* What was saved comes back, and where uninitialised rules come from, for any *)
(* number of uploads and failures. Both need to know of the record what they   *)
(* say of the memory, because a start reads the one into the other. Then that  *)
(* a splice has one translation, for any tables.                               *)
EXTENDS TranslationTables, TLAPS

USE BudgetAssumption, RulesAssumption

\* The record always has the fields SerializeRules writes, leaves them uninitialised
\* only where the memory may, and agrees with what was saved.
RecordKept ==
    \A f \in Serialized :
        /\ record[f] # Absent
        /\ saved[f] # Absent => record[f] = saved[f]

Cause(f) == refusals > 0 \/ f \in emptied

MemoryInitialised ==
    process = "listening" => \A f \in Serialized : rules[f] = Unloaded[f] => Cause(f)
RecordInitialised == \A f \in Serialized : record[f] = Unloaded[f] => Cause(f)

RulesInv ==
    /\ TypeOK
    /\ RecordKept
    /\ SavedRulesComeBack
    /\ MemoryInitialised
    /\ RecordInitialised

-----------------------------------------------------------------------------
\* A request that returns nothing is counted, and the count is never lowered.
LEMMA Refusals ==
    ASSUME HttpTypeOK, NEW o, Request(o)
    PROVE  /\ HttpTypeOK'
           /\ refusals' >= refusals
           /\ ReadsEmpty(o) => refusals' > 0
           /\ o \in Outcomes
BY DEF HttpTypeOK, Request, Outcomes, Returns, ReadsEmpty

\* Loading a configuration gives rules, from what was there and what it has.
LEMMA Loaded ==
    ASSUME NEW r \in [Fields -> Values], NEW config \in [Fields -> Values \cup {Absent}]
    PROVE  /\ LoadFromJsonObj(r, config) \in [Fields -> Values]
           /\ \A f \in Serialized :
                 LoadFromJsonObj(r, config)[f] = IF config[f] = Absent THEN r[f] ELSE config[f]
<1>1. "TraitData" \in Fields /\ Serialized \subseteq Fields /\ "DefaultTraits" \notin Serialized
  BY DEF Fields, Serialized
<1> DEFINE traits == IF config["TraitData"] = Absent THEN r["TraitData"] ELSE config["TraitData"]
<1>2. traits \in Values
  BY <1>1
<1>3. \A f \in Fields : (IF config[f] = Absent THEN r[f]
                         ELSE IF f = "DefaultTraits" /\ config[f] # Empty THEN traits
                         ELSE config[f]) \in Values
  BY <1>2
<1>4. LoadFromJsonObj(r, config) =
        [f \in Fields |-> IF config[f] = Absent THEN r[f]
                          ELSE IF f = "DefaultTraits" /\ config[f] # Empty THEN traits
                          ELSE config[f]]
  BY DEF LoadFromJsonObj
<1> QED
  BY <1>1, <1>3, <1>4

\* The process that just started, or ended, has typed rules.
LEMMA UnloadedIsTyped == Unloaded \in [Fields -> Values]
BY DEF Unloaded, Values

LEMMA PostedIsTyped ==
    ASSUME TypeOK
    PROVE  /\ Posted(SerializeRules(rules)) \in [Fields -> Values \cup {Absent}]
           /\ \A f \in Serialized : Posted(SerializeRules(rules))[f] = rules[f]
<1>1. Serialized \subseteq Fields
  BY DEF Fields, Serialized
<1>2. \A f \in Fields : rules[f] \in Values /\ rules[f] # Absent
  BY DEF TypeOK, Values, Uploads
<1>3. SerializeRules(rules) \in [Fields -> Values \cup {Absent}]
  BY <1>2 DEF SerializeRules
<1>4. \A f \in Serialized : SerializeRules(rules)[f] = rules[f]
  BY <1>1 DEF SerializeRules
<1>5. \A f \in Fields : record[f] \in Values \cup {Absent}
  BY DEF TypeOK
<1>6. Posted(SerializeRules(rules)) \in [Fields -> Values \cup {Absent}]
  BY <1>3, <1>5 DEF Posted
<1>7. \A f \in Serialized : Posted(SerializeRules(rules))[f] = rules[f]
  BY <1>1, <1>2, <1>4 DEF Posted
<1> QED
  BY <1>6, <1>7

LEMMA InvariantInit == Init => RulesInv
<1> SUFFICES ASSUME Init PROVE RulesInv
  OBVIOUS
<1> USE DEF Init
<1>1. TypeOK
  <2>1. 0 \in Uploads
    BY DEF Uploads
  <2>2. HttpTypeOK
    BY DEF HttpInit, HttpTypeOK
  <2> QED
    BY <2>1, <2>2, UnloadedIsTyped DEF TypeOK, Values, Serialized
<1>2. RecordKept
  BY DEF RecordKept, Serialized, Fields, Uploads
<1>3. SavedRulesComeBack /\ MemoryInitialised
  BY DEF SavedRulesComeBack, MemoryInitialised
<1>4. RecordInitialised
  BY DEF RecordInitialised, Unloaded, Serialized, Fields, Uploads
<1> QED
  BY <1>1, <1>2, <1>3, <1>4 DEF RulesInv

LEMMA StartStep == ASSUME RulesInv, NEW o, Start(o) PROVE RulesInv'
<1> USE DEF RulesInv
<1>1. /\ HttpTypeOK' /\ refusals' >= refusals
      /\ ReadsEmpty(o) => refusals' > 0
      /\ o \in Outcomes /\ refusals \in Nat /\ refusals' \in Nat
  BY Refusals DEF Start, TypeOK, HttpTypeOK
<1>2. Serialized \subseteq Fields /\ "numbers" \in Serialized /\ "curves" \in Serialized
  BY DEF Serialized, Fields
<1> DEFINE L == LoadFromJsonObj(Unloaded, record)
<1>3. /\ L \in [Fields -> Values]
      /\ \A f \in Serialized : L[f] = record[f]
  BY Loaded, UnloadedIsTyped DEF TypeOK, RecordKept
<1>4. Forgotten \in [Fields -> Values \cup {Absent}] /\ \A f \in Fields : Forgotten[f] = Absent
  BY DEF Forgotten
<1>5. CASE o = "answered"
  <2>1. /\ process' = "listening" /\ rules' = L /\ saved' = saved /\ record' = record
        /\ uploads' = uploads /\ recordMode' = recordMode /\ emptied' = emptied
    BY <1>5 DEF Start, Returns, ReadsEmpty
  <2>2. TypeOK'
    BY <1>1, <1>3, <2>1 DEF TypeOK
  <2>3. RecordKept' /\ SavedRulesComeBack'
    BY <1>2, <1>3, <2>1 DEF RecordKept, SavedRulesComeBack
  <2>4. MemoryInitialised' /\ RecordInitialised'
    BY <1>1, <1>3, <2>1 DEF MemoryInitialised, RecordInitialised, Cause
  <2> QED
    BY <2>2, <2>3, <2>4
<1>6. CASE ReadsEmpty(o)
  <2>1. /\ process' = "listening" /\ rules' = Unloaded /\ saved' = Forgotten
        /\ record' = record /\ uploads' = uploads /\ recordMode' = recordMode
        /\ emptied' = emptied
    BY <1>6 DEF Start, Returns, ReadsEmpty
  <2>2. TypeOK'
    BY <1>1, <1>4, <2>1, UnloadedIsTyped DEF TypeOK
  <2>3. RecordKept' /\ SavedRulesComeBack'
    BY <1>2, <1>4, <2>1 DEF RecordKept, SavedRulesComeBack
  <2>4. MemoryInitialised' /\ RecordInitialised'
    BY <1>1, <1>6 DEF MemoryInitialised, RecordInitialised, Cause
  <2> QED
    BY <2>2, <2>3, <2>4
<1>7. CASE ~Returns(o)
  <2>1. /\ process' = "down" /\ rules' = Unloaded /\ saved' = saved
        /\ record' = record /\ uploads' = uploads /\ recordMode' = recordMode
        /\ emptied' = emptied
    BY <1>7 DEF Start, Returns, ReadsEmpty, Terminate
  <2>2. TypeOK'
    BY <1>1, <2>1, UnloadedIsTyped DEF TypeOK
  <2>3. RecordKept' /\ SavedRulesComeBack' /\ MemoryInitialised'
    BY <2>1 DEF RecordKept, SavedRulesComeBack, MemoryInitialised
  <2>4. RecordInitialised'
    BY <1>1, <2>1 DEF RecordInitialised, Cause
  <2> QED
    BY <2>2, <2>3, <2>4
<1> QED
  BY <1>5, <1>6, <1>7 DEF Returns

\* The end of the process leaves nothing in memory to speak of.
LEMMA TerminateStep ==
    ASSUME RulesInv, Terminate,
           UNCHANGED <<httpVars, record, uploads, recordMode, saved, emptied>>
    PROVE  RulesInv'
<1> USE DEF RulesInv, Terminate, httpVars
<1>1. TypeOK'
  BY UnloadedIsTyped DEF TypeOK, HttpTypeOK
<1>2. RecordKept' /\ SavedRulesComeBack' /\ MemoryInitialised'
  BY DEF RecordKept, SavedRulesComeBack, MemoryInitialised
<1>3. RecordInitialised'
  BY DEF RecordInitialised, Cause
<1> QED
  BY <1>1, <1>2, <1>3

LEMMA UploadStep ==
    ASSUME RulesInv, NEW sent \in SUBSET Fields, NEW empty \in SUBSET (sent \cap Arrays),
           Upload(sent, empty)
    PROVE  RulesInv'
<1> USE DEF RulesInv
<1> DEFINE config == Configuration(sent, empty, uploads + 1)
           L == LoadFromJsonObj(rules, config)
<1>1. /\ refusals' = refusals /\ failures' = failures /\ record' = record
      /\ recordMode' = recordMode /\ process = "listening"
      /\ uploads' = uploads + 1 /\ uploads < MaxUploads
      /\ saved' = [f \in Fields |-> IF f \in sent THEN Absent ELSE saved[f]]
      /\ emptied' = emptied \cup (empty \cap Serialized)
  BY DEF Upload, httpVars
<1>2. uploads + 1 \in Uploads /\ uploads + 1 # Absent
        /\ uploads + 1 # Garbage /\ uploads + 1 # Empty
  BY <1>1 DEF TypeOK, Uploads
<1>3. config \in [Fields -> Values \cup {Absent}]
  BY <1>2 DEF Values, Configuration
<1>4. Serialized \subseteq Fields /\ "numbers" \in Serialized /\ "curves" \in Serialized
  BY DEF Serialized, Fields
<1>5. \A f \in Fields : config[f] = IF f \in empty THEN Empty
                                    ELSE IF f \in sent THEN uploads + 1 ELSE Absent
  BY DEF Configuration
<1> HIDE DEF config
<1>6. /\ L \in [Fields -> Values]
      /\ \A f \in Serialized : L[f] = IF f \in empty THEN Empty
                                      ELSE IF f \in sent THEN uploads + 1 ELSE rules[f]
  <2>1. /\ L \in [Fields -> Values]
        /\ \A f \in Serialized : L[f] = IF config[f] = Absent THEN rules[f] ELSE config[f]
    BY <1>3, Loaded DEF TypeOK
  <2> QED
    BY <1>2, <1>4, <1>5, <2>1
<1>7. HttpTypeOK'
  BY <1>1 DEF TypeOK, HttpTypeOK
<1>8. saved' \in [Fields -> Values \cup {Absent}]
  BY <1>1 DEF TypeOK
<1>9. RecordKept' /\ RecordInitialised'
  BY <1>1, <1>4 DEF RecordKept, RecordInitialised, Cause
<1>13. emptied' \subseteq Serialized
  BY <1>1 DEF TypeOK
<1>10. Reply(L)
  BY DEF Upload, config
<1>11. CASE process' = "listening" /\ rules' = L
  <2>1. TypeOK'
    BY <1>1, <1>2, <1>6, <1>7, <1>8, <1>11, <1>13 DEF TypeOK
  <2>2. SavedRulesComeBack'
    BY <1>1, <1>4, <1>6, <1>11 DEF SavedRulesComeBack
  <2>3. MemoryInitialised'
    <3>1. ASSUME NEW f \in Serialized, rules'[f] = Unloaded[f] PROVE Cause(f)'
      <4>1. CASE f \in empty
        BY <1>1, <3>1, <4>1 DEF Cause
      <4>2. CASE f \notin empty /\ f \in sent
        BY <1>2, <1>4, <1>6, <1>11, <3>1, <4>2 DEF Unloaded
      <4>3. CASE f \notin empty /\ f \notin sent
        BY <1>1, <1>4, <1>6, <1>11, <3>1, <4>3 DEF MemoryInitialised, Cause
      <4> QED
        BY <4>1, <4>2, <4>3
    <3> QED
      BY <3>1 DEF MemoryInitialised
  <2> QED
    BY <1>9, <2>1, <2>2, <2>3
<1>12. CASE Terminate
  <2>1. TypeOK'
    BY <1>1, <1>2, <1>7, <1>8, <1>12, <1>13, UnloadedIsTyped DEF TypeOK, Terminate
  <2>2. SavedRulesComeBack' /\ MemoryInitialised'
    BY <1>12 DEF SavedRulesComeBack, MemoryInitialised, Terminate
  <2> QED
    BY <1>9, <2>1, <2>2
<1> QED
  BY <1>10, <1>11, <1>12 DEF Reply

LEMMA SaveStep == ASSUME RulesInv, NEW o, SaveToDB(o) PROVE RulesInv'
<1> USE DEF RulesInv
<1> DEFINE post == Posted(SerializeRules(rules))
<1>1. /\ HttpTypeOK' /\ refusals' >= refusals
      /\ o \in Outcomes /\ refusals \in Nat /\ refusals' \in Nat
  BY Refusals DEF SaveToDB, TypeOK, HttpTypeOK
<1>2. Serialized \subseteq Fields /\ "numbers" \in Serialized /\ "curves" \in Serialized
  BY DEF Serialized, Fields
<1>3. /\ post \in [Fields -> Values \cup {Absent}]
      /\ \A f \in Serialized : post[f] = rules[f]
  BY PostedIsTyped
<1>4. \A f \in Fields : rules[f] # Absent
  BY DEF TypeOK, Values, Uploads
<1>5. /\ process = "listening" /\ uploads' = uploads /\ recordMode' = recordMode
      /\ emptied' = emptied
      /\ record' = IF Applied(o) THEN post ELSE record
      /\ saved' = IF Returns(o) /\ Applied(o) THEN rules ELSE saved
      /\ (process' = "listening" /\ rules' = rules) \/ (process' = "down" /\ rules' = Unloaded)
  BY DEF SaveToDB, Reply, Terminate
<1> HIDE DEF post
<1>6. TypeOK'
  <2>1. rules' \in [Fields -> Values] /\ process' \in {"down", "listening"}
    BY <1>5, UnloadedIsTyped DEF TypeOK
  <2>2. record' \in [Fields -> Values \cup {Absent}]
    BY <1>3, <1>5 DEF TypeOK
  <2>3. saved' \in [Fields -> Values \cup {Absent}]
    BY <1>5 DEF TypeOK
  <2> QED
    BY <1>1, <1>5, <2>1, <2>2, <2>3 DEF TypeOK
<1>7. \A f \in Serialized : record'[f] # Absent
  BY <1>2, <1>3, <1>4, <1>5 DEF RecordKept
<1>8. \A f \in Serialized : saved'[f] # Absent => record'[f] = saved'[f] /\ rules[f] = saved'[f]
  <2>1. CASE Returns(o) /\ Applied(o)
    BY <1>3, <1>5, <2>1
  <2>2. CASE ~(Returns(o) /\ Applied(o))
    BY <1>3, <1>5, <2>2 DEF RecordKept, SavedRulesComeBack
  <2> QED
    BY <2>1, <2>2
<1>9. RecordKept' /\ SavedRulesComeBack'
  BY <1>5, <1>7, <1>8 DEF RecordKept, SavedRulesComeBack
<1>10. MemoryInitialised' /\ RecordInitialised'
  BY <1>1, <1>3, <1>5 DEF MemoryInitialised, RecordInitialised, Cause
<1> QED
  BY <1>6, <1>9, <1>10

LEMMA ReloadStep == ASSUME RulesInv, NEW o, ReloadFromDB(o) PROVE RulesInv'
<1> USE DEF RulesInv
<1> DEFINE L == LoadFromJsonObj(rules, record)
<1>1. /\ HttpTypeOK' /\ refusals' >= refusals
      /\ o \in Outcomes /\ refusals \in Nat /\ refusals' \in Nat
  BY Refusals DEF ReloadFromDB, TypeOK, HttpTypeOK
<1>2. Serialized \subseteq Fields /\ "numbers" \in Serialized /\ "curves" \in Serialized
  BY DEF Serialized, Fields
<1>3. /\ L \in [Fields -> Values]
      /\ \A f \in Serialized : L[f] = record[f]
  BY Loaded DEF TypeOK, RecordKept
<1>4. /\ process = "listening" /\ uploads' = uploads /\ recordMode' = recordMode
      /\ record' = record /\ saved' = saved /\ emptied' = emptied
      /\ \/ process' = "listening" /\ rules' \in {L, rules}
         \/ process' = "down" /\ rules' = Unloaded
  BY DEF ReloadFromDB, Reply, Terminate
<1> HIDE DEF L
<1>5. TypeOK'
  <2>1. rules' \in [Fields -> Values] /\ process' \in {"down", "listening"}
    BY <1>3, <1>4, UnloadedIsTyped DEF TypeOK
  <2> QED
    BY <1>1, <1>4, <2>1 DEF TypeOK
<1>6. RecordKept' /\ SavedRulesComeBack'
  BY <1>3, <1>4 DEF RecordKept, SavedRulesComeBack
<1>7. MemoryInitialised' /\ RecordInitialised'
  BY <1>1, <1>3, <1>4 DEF MemoryInitialised, RecordInitialised, Cause
<1> QED
  BY <1>5, <1>6, <1>7

LEMMA RulesInvariant == Spec => []RulesInv
<1>1. RulesInv /\ [Next]_vars => RulesInv'
  <2> SUFFICES ASSUME RulesInv, [Next]_vars PROVE RulesInv'
    OBVIOUS
  <2>1. CASE \E o \in Outcomes : Start(o) \/ SaveToDB(o) \/ ReloadFromDB(o)
    BY <2>1, StartStep, SaveStep, ReloadStep
  <2>2. CASE \E sent \in SUBSET Fields :
                \E empty \in SUBSET (sent \cap Arrays) : Upload(sent, empty)
    BY <2>2, UploadStep
  <2>3. CASE Stop \/ SaveThrows
    BY <2>3, TerminateStep DEF Stop, SaveThrows
  <2>4. CASE UNCHANGED vars
    BY <2>4 DEF vars, httpVars, RulesInv, TypeOK, HttpTypeOK, RecordKept,
                SavedRulesComeBack, MemoryInitialised, RecordInitialised, Cause
  <2> QED
    BY <2>1, <2>2, <2>3, <2>4 DEF Next
<1> QED
  BY InvariantInit, <1>1, PTL DEF Spec

\* The numbers and curves that were saved are those in use, until others are
\* uploaded or a start does not reach the Almanac, for every way the Almanac may
\* treat the fields that a save leaves out.
THEOREM SavedRulesAlwaysComeBack == Spec => []SavedRulesComeBack
<1>1. RulesInv => SavedRulesComeBack
  BY DEF RulesInv
<1> QED
  BY RulesInvariant, <1>1, PTL

\* Uninitialised rules, in memory or on record, are owed to a request that returned
\* nothing, or to an upload that emptied the curves.
THEOREM GarbageHasACause == Spec => []UninitialisedNeedsRefusal
<1>1. RulesInv => UninitialisedNeedsRefusal
  BY DEF RulesInv, MemoryInitialised, RecordInitialised, UninitialisedNeedsRefusal, Cause
<1> QED
  BY RulesInvariant, <1>1, PTL

-----------------------------------------------------------------------------
(* The tables.                                                                 *)

\* What the tables add takes nothing away: the rules behind them are saved and
\* loaded as GameRules says, whatever translations are made in between.
THEOREM TablesKeepTheRules == TablesSpec => Spec
<1>1. TablesInit => Init
  BY DEF TablesInit
<1>2. [TablesNext]_<<vars, tablesVars>> => [Next]_vars
  BY DEF TablesNext, RulesStep, CreateTranslationTable, Next
<1> QED
  BY <1>1, <1>2, PTL DEF TablesSpec, Spec

\* No trait that is defined has a null entry, and the default entries are those of
\* the trait data they are said to be copied from; before a start there is nothing.
TablesInv ==
    /\ nulls \cap Defined(rules["TraitData"]) = {}
    /\ defaults \subseteq {Row(rules["DefaultTraits"], t) : t \in DefaultNames}
    /\ made = [s \in Splices |-> made[s]]
    /\ process = "down" => /\ rules = Unloaded /\ nulls = {} /\ defaults = {}
                           /\ \A s \in Splices : made[s] = Absent

MadeIsCurrent == \A s \in Splices : made[s] # Absent => made[s] = Table(s)

\* Where no defined trait has a null entry, the null entries show in no table.
LEMMA RowsWithoutNulls ==
    ASSUME nulls \cap Defined(rules["TraitData"]) = {}
    PROVE  /\ \A t : TableRow(t) = Row(rules["TraitData"], t)
           /\ \A s : Table(s) = {Row(rules["TraitData"], t) : t \in Looked(s)} \cup defaults
<1>1. ASSUME NEW t PROVE TableRow(t) = Row(rules["TraitData"], t)
  <2>1. t \in nulls => t \notin Defined(rules["TraitData"])
    OBVIOUS
  <2>2. TableRow(t) = [name |-> t, entry |-> IF t \in nulls THEN Null
                                             ELSE Row(rules["TraitData"], t).entry]
    BY DEF TableRow, Row
  <2> QED
    BY <2>1, <2>2 DEF Row
<1> QED
  BY <1>1 DEF Table

LEMMA LoadNothing ==
    ASSUME NEW r \in [Fields -> Values]
    PROVE  LoadFromJsonObj(r, NoConfig) = r
BY DEF LoadFromJsonObj, NoConfig

\* Every step of the rules loads some configuration, or ends the process.
LEMMA RulesStepLoads ==
    ASSUME TypeOK, TablesInv, RulesStep
    PROVE  \E config :
              /\ LoadTables(config)
              /\ \/ process' = "down" /\ rules' = Unloaded
                 \/ process' = "listening" /\ rules' = LoadFromJsonObj(rules, config)
<1> USE DEF Terminate, Reply
<1>1. rules = LoadFromJsonObj(rules, NoConfig)
  BY LoadNothing DEF TypeOK
<1>2. ASSUME NEW o, Start(o) \/ ReloadFromDB(o),
             LoadTables(IF o = "answered" THEN record ELSE NoConfig)
      PROVE  \/ process' = "down" /\ rules' = Unloaded
             \/ process' = "listening" /\ rules' =
                    LoadFromJsonObj(rules, IF o = "answered" THEN record ELSE NoConfig)
  <2>1. CASE Start(o)
    <3>1. rules = Unloaded
      BY <2>1 DEF Start, TablesInv
    <3> QED
      BY <1>1, <2>1, <3>1 DEF Start
  <2>2. CASE ReloadFromDB(o)
    BY <1>1, <2>2 DEF ReloadFromDB
  <2> QED
    BY <1>2, <2>1, <2>2
<1>3. ASSUME NEW o, SaveToDB(o), LoadTables(NoConfig)
      PROVE  \/ process' = "down" /\ rules' = Unloaded
             \/ process' = "listening" /\ rules' = LoadFromJsonObj(rules, NoConfig)
  BY <1>1, <1>3 DEF SaveToDB
<1>4. ASSUME NEW sent \in SUBSET Fields, NEW empty \in SUBSET (sent \cap Arrays),
             Upload(sent, empty)
      PROVE  \/ process' = "down" /\ rules' = Unloaded
             \/ /\ process' = "listening"
                /\ rules' = LoadFromJsonObj(rules, Configuration(sent, empty, uploads'))
  BY <1>4 DEF Upload
<1>5. Stop \/ SaveThrows => process' = "down" /\ rules' = Unloaded
  BY DEF Stop, SaveThrows
<1> QED
  BY <1>2, <1>3, <1>4, <1>5 DEF RulesStep

LEMMA TablesInvKept ==
    ASSUME TypeOK, TablesInv, TablesNext
    PROVE  TablesInv'
<1>1. CASE RulesStep
  <2>1. PICK config :
           /\ LoadTables(config)
           /\ \/ process' = "down" /\ rules' = Unloaded
              \/ process' = "listening" /\ rules' = LoadFromJsonObj(rules, config)
    BY <1>1, RulesStepLoads
  <2>2. CASE process' = "down"
    BY <2>1, <2>2 DEF LoadTables, TablesInv
  <2>3. CASE process' # "down"
    <3> DEFINE traits == rules'["TraitData"]
               old    == IF config["TraitData"] = Absent THEN nulls ELSE {}
               names  == IF config["DefaultTraits"] = Empty THEN {} ELSE DefaultNames
    <3>1. /\ traits = IF config["TraitData"] = Absent THEN rules["TraitData"]
                      ELSE config["TraitData"]
          /\ config["DefaultTraits"] = Absent =>
                rules'["DefaultTraits"] = rules["DefaultTraits"]
          /\ config["DefaultTraits"] \notin {Absent, Empty} =>
                rules'["DefaultTraits"] = traits
      BY <2>1, <2>3 DEF LoadFromJsonObj, Fields
    <3>2. old \cap Defined(traits) = {}
      BY <3>1 DEF TablesInv
    <3>3. nulls' \in {old, old \cup NullFor(names, traits)}
      BY <2>1, <2>3 DEF LoadTables
    <3>4. nulls' \cap Defined(rules'["TraitData"]) = {}
      BY <3>2, <3>3 DEF NullFor
    <3>5. defaults' \subseteq {Row(rules'["DefaultTraits"], t) : t \in DefaultNames}
      <4>1. CASE config["DefaultTraits"] = Absent
        BY <2>1, <2>3, <3>1, <4>1 DEF LoadTables, TablesInv
      <4>2. CASE config["DefaultTraits"] # Absent
        <5>1. defaults' = {Row(traits, t) : t \in names}
          BY <2>1, <2>3, <4>2 DEF LoadTables
        <5>2. CASE config["DefaultTraits"] = Empty
          BY <5>1, <5>2
        <5>3. CASE config["DefaultTraits"] # Empty
          BY <3>1, <4>2, <5>1, <5>3
        <5> QED
          BY <5>2, <5>3
      <4> QED
        BY <4>1, <4>2
    <3>6. made' = [s \in Splices |-> made'[s]]
      BY <2>1, <2>3 DEF LoadTables, TablesInv
    <3> QED
      BY <2>3, <3>4, <3>5, <3>6 DEF TablesInv
  <2> QED
    BY <2>2, <2>3
<1>2. ASSUME NEW s \in Splices, CreateTranslationTable(s)
      PROVE  TablesInv'
  <2>1. /\ nulls' = nulls \cup NullFor(Looked(s), rules["TraitData"])
        /\ process' = "listening"
        /\ UNCHANGED <<rules, defaults>> /\ made' = [made EXCEPT ![s] = Table(s)]
    BY <1>2 DEF CreateTranslationTable, vars
  <2>2. nulls' \cap Defined(rules'["TraitData"]) = {}
    BY <2>1 DEF TablesInv, NullFor
  <2>3. made' = [t \in Splices |-> made'[t]]
    BY <2>1 DEF TablesInv
  <2> QED
    BY <2>1, <2>2, <2>3 DEF TablesInv
<1> QED
  BY <1>1, <1>2 DEF TablesNext

LEMMA MadeStaysCurrent ==
    ASSUME TypeOK, TablesInv, TablesInv', MadeIsCurrent, TablesNext
    PROVE  MadeIsCurrent'
<1>0. \A s : Table(s) = {Row(rules["TraitData"], t) : t \in Looked(s)} \cup defaults
  BY RowsWithoutNulls DEF TablesInv
<1>1. \A s : Table(s)' = {Row(rules'["TraitData"], t) : t \in Looked(s)'} \cup defaults'
  <2>1. nulls' \cap Defined(rules'["TraitData"]) = {}
    BY DEF TablesInv
  <2>2. \A t : TableRow(t)' = Row(rules'["TraitData"], t)
    <3> SUFFICES ASSUME NEW t PROVE TableRow(t)' = Row(rules'["TraitData"], t)
      OBVIOUS
    <3>1. t \in nulls' => t \notin Defined(rules'["TraitData"])
      BY <2>1
    <3>2. TableRow(t)' = [name |-> t, entry |-> IF t \in nulls' THEN Null
                                                ELSE Row(rules'["TraitData"], t).entry]
      BY DEF TableRow, Row
    <3> QED
      BY <3>1, <3>2 DEF Row
  <2> QED
    BY <2>2 DEF Table
<1>2. CASE RulesStep
  <2>1. PICK config :
           /\ LoadTables(config)
           /\ \/ process' = "down" /\ rules' = Unloaded
              \/ process' = "listening" /\ rules' = LoadFromJsonObj(rules, config)
    BY <1>2, RulesStepLoads
  <2>2. CASE process' = "down" \/ ~(\A f \in {"SpliceData", "TraitData", "DefaultTraits"} :
                                        config[f] = Absent)
    <3>1. made' = [s \in Splices |-> Absent]
      BY <2>1, <2>2 DEF LoadTables
    <3> QED
      BY <3>1 DEF MadeIsCurrent
  <2>3. CASE /\ process' # "down"
             /\ \A f \in {"SpliceData", "TraitData", "DefaultTraits"} : config[f] = Absent
    <3>1. made' = made /\ defaults' = defaults
      BY <2>1, <2>3 DEF LoadTables
    <3>2. /\ rules'["TraitData"] = rules["TraitData"]
          /\ rules'["SpliceData"] = rules["SpliceData"]
      BY <2>1, <2>3 DEF LoadFromJsonObj, Fields
    <3>3. \A s : Looked(s)' = Looked(s)
      BY <3>2 DEF Looked
    <3>4. \A s : Table(s)' = Table(s)
      BY <1>0, <1>1, <3>1, <3>2, <3>3
    <3> QED
      BY <3>1, <3>4 DEF MadeIsCurrent
  <2> QED
    BY <2>2, <2>3
<1>3. ASSUME NEW s \in Splices, CreateTranslationTable(s)
      PROVE  MadeIsCurrent'
  <2>1. UNCHANGED <<rules, defaults>> /\ made' = [made EXCEPT ![s] = Table(s)]
    BY <1>3 DEF CreateTranslationTable, vars
  <2>2. \A t : Looked(t)' = Looked(t)
    BY <2>1 DEF Looked
  <2>3. \A t : Table(t)' = Table(t)
    BY <1>0, <1>1, <2>1, <2>2
  <2>4. \A t \in Splices : made'[t] = IF t = s THEN Table(s) ELSE made[t]
    BY <2>1 DEF TablesInv
  <2> QED
    BY <2>3, <2>4 DEF MadeIsCurrent
<1> QED
  BY <1>2, <1>3 DEF TablesNext

\* A splice has one translation until tables are uploaded or loaded, and what its
\* table says of a trait the master table says too, for any tables whatever and any
\* names looked up in between (see OneTranslation).
THEOREM SplicesHaveOneTranslation == TablesSpec => []OneTranslation
<1> DEFINE Inv == TablesInv /\ MadeIsCurrent
<1>1. TablesInit => Inv
  BY DEF TablesInit, Init, TablesInv, MadeIsCurrent
<1>2. TypeOK /\ Inv /\ [TablesNext]_<<vars, tablesVars>> => Inv'
  <2>1. TypeOK /\ Inv /\ TablesNext => Inv'
    BY TablesInvKept, MadeStaysCurrent
  <2>2. Inv /\ UNCHANGED <<vars, tablesVars>> => Inv'
    BY DEF vars, tablesVars, TablesInv, MadeIsCurrent, Table, TableRow, Looked
  <2> QED
    BY <2>1, <2>2
<1>3. TablesSpec => []TypeOK
  <2>1. RulesInv => TypeOK
    BY DEF RulesInv
  <2> QED
    BY <2>1, TablesKeepTheRules, RulesInvariant, PTL
<1>4. Inv => OneTranslation
  <2> SUFFICES ASSUME Inv, NEW s \in Splices, made[s] # Absent,
                      rules["DefaultTraits"] = rules["TraitData"],
                      NEW row \in made[s], row.entry # Null
               PROVE  row \in MasterTable
    BY DEF OneTranslation, MadeIsCurrent
  <2>1. row \in {Row(rules["TraitData"], t) : t \in Looked(s)} \cup defaults
    BY RowsWithoutNulls DEF MadeIsCurrent, TablesInv
  <2>2. PICK t : row = Row(rules["TraitData"], t)
    BY <2>1 DEF TablesInv
  <2>3. t \in Defined(rules["TraitData"])
    BY <2>2 DEF Row
  <2>4. row = TableRow(t)
    BY <2>2, RowsWithoutNulls DEF TablesInv
  <2> QED
    BY <2>3, <2>4 DEF MasterTable
<1> QED
  BY <1>1, <1>2, <1>3, <1>4, PTL DEF TablesSpec
=============================================================================
