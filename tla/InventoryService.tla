-------------------------- MODULE InventoryService --------------------------
(* The service "inventory". A command that changes a slot of the user's        *)
(* inventory reads what it needs, writes the entry to the Almanac, and then    *)
(* reads the whole inventory back for the reply. A handler is cut at its       *)
(* requests; the epochs go on between them.                                    *)
EXTENDS PlanetDirectory

VARIABLE inv            \* inv[u][k]: /persistence/inventoryentries/<u>/<k>

RESEARCH_EPOCHS == 2

Reads == {"GET_INVENTORY", "GET_GLOBAL_EPOCH"}
Writes == {"SAMPLE_FROM_PLANET", "RESEARCH", "NEW_SPECIES", "UPDATE_SPECIES", "DELETE_ENTRY"}

\* The first request of a command.
First(command) == CASE command \in {"RESEARCH", "GET_GLOBAL_EPOCH"} -> "epoch"
                    [] command = "SAMPLE_FROM_PLANET" -> "sample"
                    [] command = "GET_INVENTORY" -> "show"
                    [] OTHER -> "write"

\* return_inventory: every write is followed by the whole inventory; and a wrong
\* variant, where deleting an entry is not.
AfterWriteUnshown(command) == IF command = "DELETE_ENTRY" THEN "idle" ELSE "show"
AfterWrite(command) == "show"

\* The entry a command is about, as far as it is known from the message. A new
\* species is given the individuals of the world seed; an updated one has the
\* pointer that the client sends along.
Drafts(command, p, e) ==
    CASE command \in {"SAMPLE_FROM_PLANET"} -> {Seed(s, Pointer(Key(p, e), NoName)) : s \in Names}
      [] command = "RESEARCH" ->
            {Seed(s, Pointer(Key(p, e), o)) : s \in Names, o \in Names \cup {NoName}}
      [] command = "NEW_SPECIES" -> {Seed(s, Prebaked) : s \in Names}
      [] command = "UPDATE_SPECIES" -> {Seed(s, ptr) : s \in Names, ptr \in SentPointers}
      [] OTHER -> {Absent}

\* Only two commands read a planet and an epoch from the message.
Places(command) ==
    IF command \in {"SAMPLE_FROM_PLANET", "RESEARCH"} THEN Named ELSE {<<0, 0>>}

\* A message starts a handler. One without a slot, a species, a planet or an
\* epoch that its command needs, or with another command, is answered with an
\* error and changes nothing.
InventoryEndpoint(c, command) ==
    /\ Free(c) /\ AcceptCommand
    /\ \E k \in Slots, pe \in Places(command) :
       \E draft \in Drafts(command, pe[1], pe[2]) :
          Await(First(command), Job(c, command, k, pe[1], pe[2], draft))
    /\ UNCHANGED <<httpVars, chronosVars, planetVars, sessionVars, inv>>

\* A wrong variant: the epoch is the one in the message.
EpochAsked(o) == job.epoch

\* GetGlobalEpoch; an answer without a number reads as 0.
GlobalEpoch(o) == IF o = "answered" THEN epoch ELSE 0

\* CreateResearchPayload: the pointer is made of the planet and that epoch.
Research(e) ==
    [type |-> "Research", name |-> job.entry.name,
     pointer |-> Pointer(Key(job.planet, e), job.entry.pointer.name),
     started |-> e, done |-> e + RESEARCH_EPOCHS]

GetGlobalEpoch(o) ==
    /\ Ask("epoch", o)
    /\ CASE ~Returns(o) -> Terminate
         [] Returns(o) /\ job.command = "RESEARCH" ->
               /\ Await("write", [job EXCEPT !.entry = Research(GlobalEpoch(o))])
               /\ UNCHANGED <<planetVars, sessionVars>>
         [] Returns(o) /\ job.command # "RESEARCH" ->
               Return /\ UNCHANGED <<planetVars, sessionVars>>
    /\ UNCHANGED <<chronosVars, commands, inv>>

\* GetSpeciesInPlanet: the seed points to the original of the species on record,
\* to no name at all if that has none, is not there, or was not reached.
Original(o, k, s) ==
    IF o = "answered" /\ Recorded(k, s) THEN records[k][s].original ELSE NoName

SampleSpecies(o) ==
    /\ Ask("sample", o)
    /\ IF Returns(o)
       THEN LET k == job.entry.pointer.key  s == job.entry.name IN
            /\ Await("write", [job EXCEPT !.entry = Seed(s, Pointer(k, Original(o, k, s)))])
            /\ UNCHANGED <<planetVars, sessionVars>>
       ELSE Terminate
    /\ UNCHANGED <<chronosVars, commands, inv>>

SetEntry(u, k, entry) == inv' = [inv EXCEPT ![u] = [inv[u] EXCEPT ![k] = entry]]

\* The Almanac's side: a POST and a DELETE always, a PUT of an entry that is not
\* there creates it or does nothing.
PutEntry(u, k, entry) ==
    \/ SetEntry(u, k, entry)
    \/ job.command = "UPDATE_SPECIES" /\ inv[u][k] = Absent /\ UNCHANGED inv

WriteEntry(o) ==
    /\ Ask("write", o)
    /\ LET c == job.conn IN
       /\ IF Applied(o) THEN PutEntry(user[c], job.slot, job.entry) ELSE UNCHANGED inv
       /\ IF Returns(o)
          THEN /\ Await(AfterWrite(job.command), job)
               /\ synced' = IF Applied(o) THEN synced \ {d \in Conns \ {c} : user[d] = user[c]}
                            ELSE synced
               /\ UNCHANGED <<planetVars, process, conns, user, shown>>
          ELSE Terminate
    /\ UNCHANGED <<chronosVars, commands>>

\* The inventory of the user as it is on record; an empty one if that was refused.
ShowInventory(o) ==
    /\ Ask("show", o)
    /\ IF Returns(o)
       THEN /\ shown' = [shown EXCEPT ![job.conn] =
                  IF o = "answered" THEN inv[user[job.conn]] ELSE NoEntries]
            /\ synced' = synced \cup {job.conn}
            /\ Return
            /\ UNCHANGED <<planetVars, process, conns, user>>
       ELSE Terminate
    /\ UNCHANGED <<chronosVars, commands, inv>>
=============================================================================
