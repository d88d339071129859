--------------------- MODULE CreatureObservationService ---------------------
(* The creature observation service: a player's session gets a simulation of   *)
(* its own with its first command, GO_TO_EPOCH starts a run in it, and POLL    *)
(* fetches the steps the run has produced since the last POLL. A handler is    *)
(* cut at its requests; while phase is not "idle" no other handler runs, but   *)
(* the simulation server goes on.                                              *)
EXTENDS SimulationServer, Sequences

CONSTANTS Conns,        \* connection handles
          PollSteps,    \* the steps one POLL fetches at most, 10 in the code
          MAX_RETRIES,  \* 10 in the code
          None, Missing \* nobody; the empty object sent for a step not obtained

ASSUME ObservationAssumption ==
    /\ PollSteps \in Nat \ {0} /\ MAX_RETRIES \in Nat \ {0}
    /\ None \notin Conns
    /\ Missing \notin [epoch: Nat, step: Nat, run: Nat]

VARIABLES process,      \* "down" or "listening"
          conns,        \* its connections
          simId,        \* SessionData::SimulationServerId
          mConnections, \* what the service keeps of each simulation
          phase,        \* the next request of the running handler
          job           \* its local variables

\* History: what each connection asked for last and was sent since.
VARIABLES asked,        \* the epoch, and the run it started, 0 if it did not
          sent          \* the steps, in the order they were sent

sessionVars == <<process, conns, simId>>
handlerVars == <<phase, job>>
historyVars == <<asked, sent>>

SIM_SERVER_ID_INVALID == -1

Commands == {"GO_TO_EPOCH", "POLL", "GET_STATS"}
First(command) == CASE command = "GO_TO_EPOCH" -> "list"
                    [] command = "POLL" -> "count"
                    [] command = "GET_STATS" -> "stats"

Job(c, command, e, tries, step, latest) ==
    [conn |-> c, command |-> command, epoch |-> e, tries |-> tries,
     step |-> step, latest |-> latest]
NoJob == Job(None, "POLL", 0, 0, 0, 0)

NotAsked == [epoch |-> 0, run |-> 0]
Fresh(n) == [Epoch |-> n, Step |-> 0]
NoConnections == [s \in Sims |-> Fresh(0)]

Await(ph, j) == phase' = ph /\ job' = j
Return == Await("idle", NoJob)
\* The simulation and the connection record of the running handler.
sim == simId[job.conn]
connection == mConnections[sim]

\* An exception nothing catches.
Terminate ==
    /\ process' = "down" /\ conns' = {}
    /\ simId' = [c \in Conns |-> SIM_SERVER_ID_INVALID]
    /\ mConnections' = NoConnections
    /\ asked' = [c \in Conns |-> NotAsked] /\ sent' = [c \in Conns |-> <<>>]
    /\ Return

\* The constructor asks for the status of the simulation server, and goes on
\* whatever it is; a connection that breaks ends the program.
Start(o) ==
    /\ process = "down" /\ Request(o)
    /\ process' = IF Returns(o) THEN "listening" ELSE "down"
    /\ UNCHANGED <<simulationVars, conns, simId, mConnections, handlerVars, historyVars>>

OnConnectionOpen(c) ==
    /\ process = "listening" /\ phase = "idle" /\ c \notin conns
    /\ conns' = conns \cup {c}
    /\ UNCHANGED <<httpVars, simulationVars, process, simId, mConnections, handlerVars,
                   historyVars>>

\* The session goes; its simulation and the service's record of it stay.
OnConnectionClose(c) ==
    /\ process = "listening" /\ phase = "idle" /\ c \in conns
    /\ conns' = conns \ {c}
    /\ simId' = [simId EXCEPT ![c] = SIM_SERVER_ID_INVALID]
    /\ asked' = [asked EXCEPT ![c] = NotAsked] /\ sent' = [sent EXCEPT ![c] = <<>>]
    /\ UNCHANGED <<httpVars, simulationVars, process, mConnections, handlerVars>>

\* A command starts; a session without a simulation requests one first.
CreatureObservationEndpoint(c, command, e) ==
    /\ process = "listening" /\ phase = "idle" /\ c \in conns
    /\ command = "GO_TO_EPOCH" => started < MaxRuns
    /\ Await(IF simId[c] = SIM_SERVER_ID_INVALID THEN "create" ELSE First(command),
             Job(c, command, e, 0, 0, 0))
    /\ UNCHANGED <<httpVars, simulationVars, sessionVars, mConnections, historyVars>>
-----------------------------------------------------------------------------
\* The next request of the running handler is made, with outcome o.
Ask(ph, o) == phase = ph /\ Request(o)

\* CreateSimulationServer. Without a number in the answer the reply is an error,
\* and a simulation whose number cannot be read is nobody's. The constructor of
\* the record takes the number for the epoch.
Created(o) ==
    /\ Ask("create", o) /\ o = "answered"
    /\ \E s \in Sims :
          /\ AddSimulation(s)
          /\ simId' = [simId EXCEPT ![job.conn] = s]
          /\ mConnections' = [mConnections EXCEPT ![s] = Fresh(s)]
    /\ Await(First(job.command), job)
    /\ UNCHANGED <<process, conns, historyVars>>

NotCreated(o) ==
    /\ Ask("create", o) /\ Returns(o)
    /\ Return
    /\ UNCHANGED simulationVars \/ (o = "garbled" /\ \E s \in Sims : AddSimulation(s))
    /\ UNCHANGED <<sessionVars, mConnections, historyVars>>

\* A connection breaks: with what was asked for done, or not.
CreateBroken(o) ==
    /\ Ask("create", o) /\ ~Returns(o)
    /\ IF Applied(o) THEN \E s \in Sims : AddSimulation(s) ELSE UNCHANGED simulationVars
    /\ Terminate

\* RunSimulation lists the species of the planet-epoch at the Almanac ...
ListSpecies(o) ==
    /\ Ask("list", o) /\ UNCHANGED simulationVars
    /\ IF Returns(o)
       THEN Await("simulate", job) /\ UNCHANGED <<sessionVars, mConnections, historyVars>>
       ELSE Terminate

\* Wrong variants: the position is kept; the epoch is kept.
GoneToStep == [Epoch |-> job.epoch, Step |-> connection.Step]
GoneToEpoch == [Epoch |-> connection.Epoch, Step |-> 0]

\* What GO_TO_EPOCH leaves in the connection record.
GoneTo == [Epoch |-> job.epoch, Step |-> 0]

\* ... and posts them. GO_TO_EPOCH goes to the epoch whatever came of it.
RunSimulation(o) ==
    /\ Ask("simulate", o)
    /\ IF Applied(o) THEN Simulate(sim, job.epoch) ELSE UNCHANGED simulationVars
    /\ IF Returns(o)
       THEN /\ mConnections' = [mConnections EXCEPT ![sim] = GoneTo]
            /\ asked' = [asked EXCEPT ![job.conn] =
                  [epoch |-> job.epoch, run |-> IF Applied(o) THEN started + 1 ELSE 0]]
            /\ sent' = [sent EXCEPT ![job.conn] = <<>>]
            /\ Await("species", job)
            /\ UNCHANGED sessionVars
       ELSE Terminate

\* A wrong variant: a try is not counted.
NotCounted(j) == j

\* One more try was made.
Tried(j) == [j EXCEPT !.tries = j.tries + 1]

\* A wrong variant: one try too many.
OneTooMany(j) == j.tries <= MAX_RETRIES

\* The loop goes round again.
TriesLeft(j) == j.tries < MAX_RETRIES

\* GetSpecies sleeps and tries again while the epoch is not found, MAX_RETRIES
\* times in all; then GO_TO_EPOCH answers without species. It goes by the status
\* of the answer, which may be there where the rest cannot be read.
GetSpecies(o) ==
    /\ Ask("species", o) /\ UNCHANGED simulationVars
    /\ IF ~Returns(o)
       THEN Terminate
       ELSE /\ IF Applied(o) /\ RunOf(sim, job.epoch) \notin loaded
                  /\ TriesLeft(Tried(job))
               THEN Await("species", Tried(job))
               ELSE Await("environment", job)
            /\ UNCHANGED <<sessionVars, mConnections, historyVars>>

\* GetEnvironment, or GetEpochStatistics: a request that changes nothing, and
\* the handler returns.
ReadAndReturn(o) ==
    /\ Ask("environment", o) \/ Ask("stats", o)
    /\ UNCHANGED simulationVars
    /\ IF Returns(o)
       THEN Return /\ UNCHANGED <<sessionVars, mConnections, historyVars>>
       ELSE Terminate
-----------------------------------------------------------------------------
\* Wrong variants: steps are counted on before they are produced; the last one
\* is left out.
AllSteps(steps, step) == step + PollSteps
AllButLast(steps, step) == IF steps - 1 < step + PollSteps THEN steps - 1 ELSE step + PollSteps

\* GetSimulationSteps: the step this POLL stops before.
LatestStep(steps, step) == IF steps < step + PollSteps THEN steps ELSE step + PollSteps

\* A wrong variant: the position is the end of what there is.
SavedLatest == [Epoch |-> connection.Epoch, Step |-> job.latest]

\* POLL leaves the position it has come to.
Saved == [Epoch |-> connection.Epoch, Step |-> job.step]

\* A POLL that is at one step goes on up to the latest.
Polling(step, latest) == Job(job.conn, job.command, job.epoch, job.tries, step, latest)

\* POLL asks how many steps there are; a request that returns nothing reads as none.
CountSteps(o) ==
    /\ Ask("count", o) /\ UNCHANGED simulationVars
    /\ IF Returns(o)
       THEN /\ LET steps == IF o = "answered" THEN StepsOf(sim, connection.Epoch) ELSE 0
               IN  Await("steps", Polling(connection.Step,
                                          LatestStep(steps, connection.Step)))
            /\ UNCHANGED <<sessionVars, mConnections, historyVars>>
       ELSE Terminate

\* A step is fetched and passed over whether or not it was obtained.
GetStep(o) ==
    /\ Ask("steps", o) /\ UNCHANGED simulationVars
    /\ job.step < job.latest
    /\ IF Returns(o)
       THEN /\ sent' = [sent EXCEPT ![job.conn] = Append(sent[job.conn],
                  IF o = "answered" /\ job.step < StepsOf(sim, connection.Epoch)
                  THEN [epoch |-> connection.Epoch, step |-> job.step,
                        run |-> RunOf(sim, connection.Epoch)]
                  ELSE Missing)]
            /\ Await("steps", Polling(job.step + 1, job.latest))
            /\ UNCHANGED <<sessionVars, mConnections, asked>>
       ELSE Terminate

\* The reply: STEP_POLL, or SIM_DONE if there is no step to send.
PollReturn ==
    /\ phase = "steps" /\ job.step >= job.latest
    /\ mConnections' = [mConnections EXCEPT ![sim] = Saved]
    /\ Return
    /\ UNCHANGED <<httpVars, simulationVars, sessionVars, historyVars>>
=============================================================================
