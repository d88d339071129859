------------------------------ MODULE Chronos ------------------------------
(* The epochs. Chronos, a program of its own, advances the global epoch and    *)
(* carries the species of every planet over into the next one. Its code is not *)
(* in this repository: it is known from the tables of the Almanac the server   *)
(* reads, the epoch counter, the planets with their epoch, and the species,    *)
(* each under the planet-epoch it lives in.                                    *)
EXTENDS HttpClient, Sequences, FiniteSets

CONSTANTS Base,         \* of the numbers in a key: 10 in the code
          Planets,      \* planet identifiers
          Named,        \* the planets and epochs that messages name: any numbers
          Names,        \* species names
          Natives,      \* Natives[p]: the species of planet p in the first epoch
          NoName,       \* the empty string
          WorldSeed,    \* the species that new ones are seeded from
          Absent,       \* no record
          MaxEpoch      \* bound of the model: the last epoch

ASSUME ChronosAssumption ==
    /\ Base \in Nat \ {0, 1} /\ MaxEpoch \in Nat \ {0}
    /\ Planets \subseteq Nat /\ Named \subseteq Nat \X Nat
    /\ NoName \notin Names /\ WorldSeed \notin Names \cup {NoName}
    /\ Natives \in [Planets -> SUBSET Names]

VARIABLES epoch,        \* the epoch counter; planets are in that epoch
          records       \* records[k][s]: species s of the planet-epoch with key k

chronosVars == <<epoch, records>>

Epochs == 1..MaxEpoch

\* std::to_string
Digits[n \in Nat] == IF n < Base THEN <<n>> ELSE Append(Digits[n \div Base], n % Base)

\* A wrong variant: the epochs of a planet share a key.
KeyOfPlanet(p, e) == Digits[p]

\* The key of planet p in epoch e: the two numbers run together.
Key(p, e) == Digits[p] \o Digits[e]

\* A negative number makes a key that no planet of the game has; so does an
\* identifier that is not in Planets.
Identifiers == Planets \cup {pe[1] : pe \in Named}

Keys == {Key(p, e) : p \in Identifiers, e \in Epochs} \cup {Key(pe[1], pe[2]) : pe \in Named}

\* What the server reads of a species: the name it was first known by, if the
\* record has it, and whether there are individuals of it.
Record(original, individuals) == [original |-> original, individuals |-> individuals]
Records == [original: Names \cup {NoName}, individuals: {"some", "none"}]

Recorded(k, s) == k \in Keys /\ s \in Names /\ records[k][s] # Absent

Listing(k) == IF k \in Keys THEN {s \in Names : Recorded(k, s)} ELSE {}

\* A pointer to the individuals of a species, and the one that always holds some:
\* planet-epoch "99992" is not one of the game.
Pointer(k, s) == [key |-> k, name |-> s]
Prebaked == Pointer(<<9, 9, 9, 9, 2>>, WorldSeed)
Resolves(ptr) ==
    \/ ptr = Prebaked
    \/ Recorded(ptr.key, ptr.name) /\ records[ptr.key][ptr.name].individuals = "some"

SetRecord(k, s, r) == records' = [records EXCEPT ![k] = [records[k] EXCEPT ![s] = r]]

\* The next epoch begins. Which species survive is a matter of simulation.
Advance ==
    /\ epoch < MaxEpoch
    /\ epoch' = epoch + 1
    /\ \E extinct \in SUBSET Names :
          records' = [k \in Keys |-> [s \in Names |->
              IF \E p \in Planets : k = Key(p, epoch + 1)
              THEN IF s \in extinct THEN Absent
                   ELSE records[Key(CHOOSE p \in Planets : k = Key(p, epoch + 1), epoch)][s]
              ELSE records[k][s]]]

ChronosInit ==
    /\ epoch = 1
    /\ records = [k \in Keys |-> [s \in Names |->
          IF \E p \in Planets : k = Key(p, 1) /\ s \in Natives[p]
          THEN Record(s, "some") ELSE Absent]]

ChronosTypeOK ==
    /\ epoch \in Epochs
    /\ records \in [Keys -> [Names -> Records \cup {Absent}]]
=============================================================================
