--------------------------- MODULE PlanetManager ---------------------------
(* The server's copy of the planets: the vector mPlanets and, in each planet,  *)
(* the species listing last swapped in. It is filled once, before the server   *)
(* listens, and afterwards one planet at a time at the end of each orbital     *)
(* interaction.                                                                *)
EXTENDS Almanac

VARIABLES loaded,       \* the planets of mPlanets
          cache         \* cache[p]: mSpecies of planet p

planetVars == <<loaded, cache>>

NoCache == [p \in Planets |-> NoSpecies]

\* SpeciesSummary::FromJson throws on a percentage that is not a number.
Readable(listing) == \A s \in Species : listing[s] # Null

\* The constructor of SpaceExplorationService: if the request for the planets is
\* refused there are none; the species of the planets in "unlisted" are missing
\* because their request was. An unreadable listing stops the program instead.
LoadPlanets(reached, unlisted) ==
    /\ reached \subseteq Planets /\ reached \in {{}, Planets}
    /\ unlisted \subseteq reached
    /\ \A p \in reached \ unlisted : Readable(shares[p])
    /\ loaded' = reached
    /\ cache' = [p \in Planets |->
                    IF p \in reached \ unlisted THEN shares[p] ELSE NoSpecies]

\* A wrong variant: SwapSpecies without mSpecies.clear().
SwapWithoutClear(p, listing) ==
    /\ cache' = IF p \in loaded
                THEN [cache EXCEPT ![p] = [s \in Species |->
                         IF listing[s] = Absent THEN cache[p][s] ELSE listing[s]]]
                ELSE cache
    /\ UNCHANGED loaded

\* GetPlanet(pid).SwapSpecies(listing); an unknown planet is the static USELESS,
\* whose contents nothing reads.
SwapSpecies(p, listing) ==
    /\ cache' = IF p \in loaded THEN [cache EXCEPT ![p] = listing] ELSE cache
    /\ UNCHANGED loaded

ForgetPlanets == loaded' = {} /\ cache' = NoCache

PlanetInit == loaded = {} /\ cache = NoCache

PlanetTypeOK ==
    /\ loaded \subseteq Planets
    /\ cache \in [Planets -> [Species -> Percentages]]
=============================================================================
