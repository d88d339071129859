-------------------------- MODULE PlanetDirectory --------------------------
(* The planets in memory with their identifiers and epochs, how they are       *)
(* loaded before the server listens, and the sessions. INIT and ATTEMPT_MOVE,  *)
(* which show the planets, only read them: a message may name any planet and   *)
(* any epoch, whatever its client was shown.                                   *)
(* Unlike in PlanetManager, a planet outlives its epoch here: the server keeps *)
(* the one it loaded, while Chronos goes on.                                   *)
EXTENDS Chronos

CONSTANTS Conns,        \* connection handles
          Users,
          Guest,        \* the empty name: a session that never logged in
          Slots,        \* the slots of an inventory
          SentPointers, \* the pointers of the seeds that messages bring
          MaxCommands   \* bound of the model: commands in a behaviour

ASSUME DirectoryAssumption == Guest \in Users /\ MaxCommands \in Nat /\ Absent \notin Conns

VARIABLES process,      \* "down", "loading" or "listening"
          mEpoch,       \* Planet::mEpoch, 0 for a planet that is not in mPlanets
          mSpecies,     \* Planet::mSpecies
          conns,        \* the keys of mConnections
          user,         \* SessionData::UserName
          phase,        \* the next request of the running handler, or of the start
          job,          \* its local variables
          commands      \* the commands so far

VARIABLE shown          \* the inventory each client was shown last

\* History: the sessions since whose last inventory no other session of their
\* user has changed it; and the planets into which another epoch was listed, or
\* whose records were changed under the key of another planet or epoch, since
\* they were listed under their own.
VARIABLES synced, astray

planetVars == <<mEpoch, mSpecies, astray>>
sessionVars == <<process, conns, user, shown, synced>>
handlerVars == <<phase, job>>

\* A seed, with the pointer to its individuals; or a species being researched.
Seed(s, ptr) == [type |-> "SpeciesSeed", name |-> s, pointer |-> ptr, started |-> 0, done |-> 0]
Pointers == [key: Keys \cup {Key(p, 0) : p \in Identifiers}, name: Names \cup {NoName}]
               \cup {Prebaked}
Entries == [type: {"SpeciesSeed", "Research"}, name: Names, pointer: Pointers,
            started: 0..MaxEpoch, done: 0..(MaxEpoch + 2)]

ASSUME SeedsAssumption == SentPointers \subseteq Pointers

\* The inventory of one user, and that of a user who has nothing.
Inventories == [Slots -> Entries \cup {Absent}]
NoEntries == [k \in Slots |-> Absent]

Job(c, command, k, p, e, entry) ==
    [conn |-> c, command |-> command, slot |-> k, planet |-> p, epoch |-> e,
     entry |-> entry, genes |-> "none", ordered |-> epoch]
NoJob == [conn |-> Absent, command |-> "", slot |-> Absent, planet |-> 0, epoch |-> 0,
          entry |-> Absent, genes |-> "none", ordered |-> 0]

Await(ph, j) == phase' = ph /\ job' = j
Return == Await("idle", NoJob)

Free(c) == process = "listening" /\ phase = "idle" /\ c \in conns

AcceptCommand == commands < MaxCommands /\ commands' = commands + 1

NoPlanets ==
    /\ mEpoch' = [p \in Planets |-> 0] /\ mSpecies' = [p \in Planets |-> {}]
    /\ astray' = {}

\* The planets in memory whose species are on record under a key.
Sharing(k) == {p \in Planets : mEpoch[p] # 0 /\ k = Key(p, mEpoch[p])}

\* An exception nothing catches.
Terminate ==
    /\ process' = "down" /\ conns' = {}
    /\ user' = [c \in Conns |-> Guest]
    /\ shown' = [c \in Conns |-> Absent] /\ synced' = {}
    /\ NoPlanets
    /\ Return

Ask(ph, o) == phase = ph /\ Request(o)

\* The constructor of SpaceExplorationService asks for the planets; without an
\* answer it has none.
Start(o) ==
    /\ process = "down" /\ Request(o)
    /\ CASE o = "answered" -> /\ process' = "loading"
                              /\ Await("load", [NoJob EXCEPT !.epoch = epoch])
         [] ReadsEmpty(o)  -> process' = "listening" /\ UNCHANGED handlerVars
         [] ~Returns(o)    -> UNCHANGED <<process, handlerVars>>
    /\ UNCHANGED <<chronosVars, planetVars, conns, user, shown, synced, commands>>

\* One planet of the array, in the order of the array: its species are listed
\* under its key, and with the last one the server listens.
LoadPlanet(o) ==
    /\ Ask("load", o)
    /\ LET p == CHOOSE q \in Planets : mEpoch[q] = 0 IN
       IF Returns(o)
       THEN /\ mEpoch' = [mEpoch EXCEPT ![p] = job.epoch]
            /\ mSpecies' = [mSpecies EXCEPT ![p] =
                  IF o = "answered" THEN Listing(Key(p, job.epoch)) ELSE {}]
            /\ IF \A q \in Planets \ {p} : mEpoch[q] # 0
               THEN process' = "listening" /\ Return
               ELSE UNCHANGED <<process, handlerVars>>
            /\ UNCHANGED <<astray, conns, user, shown, synced>>
       ELSE Terminate
    /\ UNCHANGED <<chronosVars, commands>>

OnConnectionOpen(c) ==
    /\ process = "listening" /\ phase = "idle" /\ c \notin conns
    /\ conns' = conns \cup {c}
    /\ UNCHANGED <<httpVars, chronosVars, planetVars, process, user, shown, synced,
                   handlerVars, commands>>

OnConnectionClose(c) ==
    /\ Free(c)
    /\ conns' = conns \ {c} /\ user' = [user EXCEPT ![c] = Guest]
    /\ shown' = [shown EXCEPT ![c] = Absent] /\ synced' = synced \ {c}
    /\ UNCHANGED <<httpVars, chronosVars, planetVars, process, handlerVars, commands>>

\* UserEndpoint, when the user is found; what else it does is in UserService.
LogIn(c, u) ==
    /\ Free(c) /\ u # Guest
    /\ user' = [user EXCEPT ![c] = u]
    /\ shown' = [shown EXCEPT ![c] = Absent] /\ synced' = synced \ {c}
    /\ UNCHANGED <<httpVars, chronosVars, planetVars, process, conns, handlerVars, commands>>
=============================================================================
