--------------------------- MODULE SeedDeployment ---------------------------
(* What the orbital interactions do to the records of the species and to the   *)
(* planet in memory: DEPLOY copies the individuals a seed points to into a new *)
(* record, EXTRACT may delete one, and every interaction lists the planet      *)
(* again. Balances and shares are in OrbitalInteractionsService; the requests  *)
(* for them that come first change nothing here.                               *)
EXTENDS InventoryService

\* DEPLOY of a seed, and EXTRACT or EDIT_IN_PLANET of a species, which vanishes by
\* it or not. The message has the species, the pointer, the planet and the epoch.
Deploy(c) ==
    /\ Free(c) /\ AcceptCommand
    /\ \E s \in Names, ptr \in SentPointers, pe \in Named :
          Await("genes", Job(c, "DEPLOY", Absent, pe[1], pe[2], Seed(s, ptr)))
    /\ UNCHANGED <<httpVars, chronosVars, planetVars, sessionVars, inv>>

Interact(c) ==
    /\ Free(c) /\ AcceptCommand
    /\ \E s \in Names, pe \in Named, first \in {"extinct", "reload"} :
          Await(first, Job(c, "EXTRACT", Absent, pe[1], pe[2], Seed(s, Prebaked)))
    /\ UNCHANGED <<httpVars, chronosVars, planetVars, sessionVars, inv>>

\* GetSpeciesGeneticPayload: no individuals if the pointer leads nowhere or the
\* request was refused, which is not an error.
GetGenes(o) ==
    /\ Ask("genes", o)
    /\ IF Returns(o)
       THEN /\ Await("deploy", [job EXCEPT !.genes =
                  IF o = "answered" /\ Resolves(job.entry.pointer) THEN "some" ELSE "none"])
            /\ UNCHANGED <<planetVars, sessionVars>>
       ELSE Terminate
    /\ UNCHANGED <<chronosVars, commands, inv>>

\* newSpeciesPayload: it has no OriginalSpeciesName.
Deployed == Record(NoName, job.genes)

\* The POST of the new species, or the DELETE of an extinct one.
SetSpecies(o) ==
    /\ Ask("deploy", o) \/ Ask("extinct", o)
    /\ IF Applied(o)
       THEN SetRecord(Key(job.planet, job.epoch), job.entry.name,
                      IF phase = "deploy" THEN Deployed ELSE Absent)
       ELSE UNCHANGED records
    /\ IF Returns(o)
       THEN /\ Await("reload", job)
            /\ astray' = IF Applied(o)
                         THEN astray \cup (Sharing(Key(job.planet, job.epoch)) \ {job.planet})
                         ELSE astray
            /\ UNCHANGED <<mEpoch, mSpecies, sessionVars>>
       ELSE Terminate
    /\ UNCHANGED <<epoch, commands, inv>>

\* GetPlanet finds the planet, or else USELESS, which no other command shows.
Found == job.planet \in Planets /\ mEpoch[job.planet] # 0

\* The species that are swapped into the planet: those of the planet-epoch the
\* message named, whatever epoch the planet is in; and a wrong variant, where it
\* keeps those it has.
SpeciesKept(o) == mSpecies[job.planet]
SpeciesListed(o) == IF o = "answered" THEN Listing(Key(job.planet, job.epoch)) ELSE {}

ReloadPlanet(o) ==
    /\ Ask("reload", o)
    /\ IF Returns(o)
       THEN /\ IF Found
               THEN /\ mSpecies' = [mSpecies EXCEPT ![job.planet] = SpeciesListed(o)]
                    /\ astray' = IF job.epoch = mEpoch[job.planet] THEN astray \ {job.planet}
                                 ELSE astray \cup {job.planet}
               ELSE UNCHANGED <<mSpecies, astray>>
            /\ Return
            /\ UNCHANGED <<mEpoch, sessionVars>>
       ELSE Terminate
    /\ UNCHANGED <<chronosVars, commands, inv>>
=============================================================================
