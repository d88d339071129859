------------------------------- MODULE Galaxy -------------------------------
(* Planets, epochs, seeds and inventories together: Chronos moves the world on *)
(* while the server serves the planets it loaded, and players carry species    *)
(* from one planet-epoch to another by way of their inventories.               *)
EXTENDS SeedDeployment

vars == <<httpVars, chronosVars, planetVars, sessionVars, handlerVars, commands, inv>>

Init ==
    /\ HttpInit /\ ChronosInit
    /\ process = "down" /\ conns = {}
    /\ user = [c \in Conns |-> Guest]
    /\ shown = [c \in Conns |-> Absent] /\ synced = {} /\ astray = {}
    /\ mEpoch = [p \in Planets |-> 0] /\ mSpecies = [p \in Planets |-> {}]
    /\ phase = "idle" /\ job = NoJob
    /\ commands = 0
    /\ inv = [u \in Users |-> NoEntries]

Lifecycle == \E o \in Outcomes : Start(o) \/ LoadPlanet(o)

\* The new epoch may write over the records of an old one that has the same key.
Chronos ==
    /\ Advance
    /\ astray' = astray \cup UNION {Sharing(Key(p, epoch + 1)) : p \in Planets}
    /\ UNCHANGED <<httpVars, mEpoch, mSpecies, sessionVars, handlerVars, commands, inv>>

Session(c) ==
    /\ OnConnectionOpen(c) \/ OnConnectionClose(c) \/ \E u \in Users : LogIn(c, u)
    /\ UNCHANGED inv

Command(c) ==
    \/ \E command \in Reads \cup Writes : InventoryEndpoint(c, command)
    \/ Deploy(c) \/ Interact(c)

HandlerStep ==
    \E o \in Outcomes :
        \/ GetGlobalEpoch(o) \/ SampleSpecies(o) \/ WriteEntry(o) \/ ShowInventory(o)
        \/ GetGenes(o) \/ SetSpecies(o) \/ ReloadPlanet(o)

Next ==
    \/ Lifecycle /\ UNCHANGED inv
    \/ Chronos
    \/ \E c \in Conns : Session(c) \/ Command(c)
    \/ HandlerStep

Spec == Init /\ [][Next]_vars
-----------------------------------------------------------------------------
TypeOK ==
    /\ HttpTypeOK /\ ChronosTypeOK
    /\ process \in {"down", "loading", "listening"}
    /\ mEpoch \in [Planets -> 0..MaxEpoch] /\ mSpecies \in [Planets -> SUBSET Names]
    /\ conns \subseteq Conns /\ user \in [Conns -> Users] /\ synced \subseteq conns
    /\ shown \in [Conns -> Inventories \cup {Absent}] /\ astray \subseteq Planets
    /\ phase \in {"idle", "load", "epoch", "sample", "write", "show", "genes", "deploy",
                  "extinct", "reload"}
    /\ commands \in 0..MaxCommands
    /\ inv \in [Users -> Inventories]

\* Research takes RESEARCH_EPOCHS from the moment the player ordered it, even if
\* the world moves on between the request for the epoch and the write, and even
\* if the planet he names is still in an earlier epoch; unless the epoch could
\* not be read (GetGlobalEpoch, CreateResearchPayload).
ResearchTakesItsTime ==
    [][\A u \in Users, k \in Slots :
          /\ refusals = 0
          /\ inv'[u][k] # inv[u][k] /\ inv'[u][k] # Absent
          /\ inv'[u][k].type = "Research"
          => /\ inv'[u][k].done >= job.ordered + RESEARCH_EPOCHS
             /\ inv'[u][k].done <= epoch + RESEARCH_EPOCHS]_vars

\* Between two handlers the inventory a client was shown last is the one on
\* record, or is empty because it could not be read, as long as no other session
\* of the same user has written since: "ALWAYS Return the full inventory".
InventoryInSync ==
    phase = "idle" =>
        \A c \in synced : \/ shown[c] = inv[user[c]]
                          \/ refusals > 0 /\ shown[c] = NoEntries

\* Between two handlers a planet in memory has the species on record for the epoch
\* it was loaded in, or none if a listing was refused, however far the world has
\* moved on and whatever was deployed or died out there: the loader and the
\* interactions list the same planet-epoch. It shows others only where the last
\* interaction with it named another epoch, or where one with another planet, or a
\* new epoch, wrote to the key they share.
PlanetOfItsEpoch ==
    phase = "idle" =>
        \A p \in Planets : mEpoch[p] # 0 =>
            \/ p \in astray
            \/ mSpecies[p] = {s \in Names : Recorded(Digits[p] \o Digits[mEpoch[p]], s)}
            \/ refusals > 0 /\ mSpecies[p] = {}

\* What is on record of a planet in an epoch the world has been in changes only
\* by a command that names the two; or by a command, or a new epoch, whose number
\* has not as many digits, as the two numbers of a key are run together without a
\* separator (the planetEpoch of every handler).
RecordsApart ==
    [][\A p \in Planets, e \in 1..epoch :
          records'[Key(p, e)] # records[Key(p, e)] =>
              \/ epoch' = epoch /\ job.planet = p /\ job.epoch = e
              \/ epoch' = epoch /\ Len(Digits[job.epoch]) # Len(Digits[e])
              \/ epoch' # epoch /\ Len(Digits[epoch']) # Len(Digits[e])]_vars

\* "A Species Seed is the Translation Table + User Tunning (Instincts and
\* GAParams) + A pointer to the Individuals of an original Species" (the comment
\* in CreateSpeciesSeedPayload): the seed sampled from a species that is on record
\* with individuals leads to some, in the same epoch at least.
SeedPointsToIndividuals ==
    /\ refusals = 0 /\ epoch = job.ordered
    /\ phase = "write" /\ job.command = "SAMPLE_FROM_PLANET"
    => LET k == Key(job.planet, job.epoch)  s == job.entry.name IN
       Recorded(k, s) /\ records[k][s].individuals = "some" => Resolves(job.entry.pointer)
=============================================================================
