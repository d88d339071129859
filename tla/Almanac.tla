------------------------------ MODULE Almanac ------------------------------
(* The Almanac, the persistence server behind the game server. Its code is not *)
(* in this repository: it is modelled from the requests the server makes       *)
(* (/persistence/users, /persistence/speciessummaries,                         *)
(* /persistence/speciesinplanet) and from the fields it reads in the answers.  *)
(*                                                                             *)
(* Biomass and percentages are counted in the same unit: GameRules maps a      *)
(* biomass b to the percentage b/100, so Whole units of biomass are 100%.      *)
EXTENDS HttpClient

CONSTANTS Users,
          Planets,      \* planet-epochs: the key of a species table
          Species,      \* species names
          Places,       \* positions in space
          None,         \* no user, no position, no connection
          Absent,       \* no record of that name
          Null,         \* the field Percentage holds a JSON null
          Funded,       \* the users whose record has the field Biomass at first
          Opening,      \* their balance at first
          InitialShares,
          NullPuts      \* what a PUT of a null does: {"ignored"}, {"nulled"} or both

ASSUME AlmanacAssumption ==
    /\ None \notin Users \cup Places \cup Planets \cup Species
    /\ Absent \notin Int /\ Null \notin Int /\ Absent # Null
    /\ Funded \subseteq Users
    /\ Opening \in [Users -> Nat]
    /\ InitialShares \in [Planets -> [Species -> Nat \cup {Absent}]]
    /\ NullPuts \subseteq {"ignored", "nulled"} /\ NullPuts # {}

VARIABLES dbBiomass,    \* field Biomass of a user record
          hasBiomass,   \* the users whose record has that field
          dbPos,        \* field LastKnownPosition
          shares        \* shares[p][s]: field Percentage of species s on planet p

dbVars == <<dbBiomass, hasBiomass, dbPos, shares>>

Percentages == Int \cup {Absent, Null}

\* The empty species table: what a listing is when there is no answer.
NoSpecies == [s \in Species |-> Absent]

\* GET /persistence/speciessummaries/<planet-epoch>, as the caller sees it.
Listing(o, p) == IF o = "answered" THEN shares[p] ELSE NoSpecies

\* GET /persistence/speciessummaries/<planet-epoch>/<species>: a missing field
\* reads as 0.
Reading(o, p, s) ==
    IF o = "answered" /\ shares[p][s] # Absent THEN shares[p][s] ELSE 0

\* A wrong variant: the payload of the balance is a null, like that of EXTRACT.
PutNullBiomass(o, u, b) ==
    IF Applied(o) /\ u # None
    THEN dbBiomass' = [dbBiomass EXCEPT ![u] = Null] /\ hasBiomass' = hasBiomass \cup {u}
    ELSE UNCHANGED <<dbBiomass, hasBiomass>>

\* PUT /persistence/users/<u>; a session that never logged in has no record.
PutBiomass(o, u, b) ==
    IF Applied(o) /\ u # None
    THEN dbBiomass' = [dbBiomass EXCEPT ![u] = b] /\ hasBiomass' = hasBiomass \cup {u}
    ELSE UNCHANGED <<dbBiomass, hasBiomass>>

PutPosition(o, u, d) ==
    dbPos' = IF Applied(o) /\ u # None THEN [dbPos EXCEPT ![u] = d] ELSE dbPos

SetShare(p, s, v) == shares' = [shares EXCEPT ![p] = [shares[p] EXCEPT ![s] = v]]

\* PUT of a percentage: updates a record that is there.
PutPercentage(o, p, s, v) ==
    IF Applied(o) /\ shares[p][s] # Absent THEN SetShare(p, s, v) ELSE UNCHANGED shares

\* PUT of a JSON null: the Almanac may drop the field or store the null.
PutNull(o, p, s) ==
    \/ "ignored" \in NullPuts /\ UNCHANGED shares
    \/ "nulled" \in NullPuts /\ PutPercentage(o, p, s, Null)

DeleteSpecies(o, p, s) ==
    IF Applied(o) THEN SetShare(p, s, Absent) ELSE UNCHANGED shares

PostSpecies(o, p, s, v) ==
    IF Applied(o) THEN SetShare(p, s, v) ELSE UNCHANGED shares

AlmanacInit ==
    /\ dbBiomass = Opening
    /\ hasBiomass = Funded
    /\ dbPos = [u \in Users |-> None]
    /\ shares = InitialShares

AlmanacTypeOK ==
    /\ dbBiomass \in [Users -> Int]
    /\ hasBiomass \subseteq Users
    /\ dbPos \in [Users -> Places \cup {None}]
    /\ shares \in [Planets -> [Species -> Percentages]]
=============================================================================
