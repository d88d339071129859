---------------------- MODULE CreatureObservation_proofs ----------------------
(* Proofs about CreatureObservation, for any number of players, simulations,   *)
(* epochs and runs: what a player who polls is sent.                           *)
EXTENDS CreatureObservation, FiniteSums

\* The sum over the connections, when one of them changes, and when none grows.
LEMMA ConnsTotalChanged ==
  ASSUME IsFiniteSet(Conns), NEW f, NEW g, NEW c \in Conns,
         f \in [Conns -> Int], g \in [Conns -> Int],
         \A d \in Conns \ {c} : g[d] = f[d]
  PROVE  Total(g, Conns) = Total(f, Conns) + (g[c] - f[c])
  BY TotalChanged

LEMMA ConnsTotalMonotone ==
  ASSUME IsFiniteSet(Conns), NEW f, NEW g, f \in [Conns -> Int], g \in [Conns -> Int],
         \A d \in Conns : g[d] <= f[d]
  PROVE  Total(g, Conns) <= Total(f, Conns)
  BY TotalMonotone

LEMMA ConnsTotalType ==
  ASSUME IsFiniteSet(Conns), NEW f, f \in [Conns -> Int]
  PROVE  Total(f, Conns) \in Int
  BY TotalType

USE BudgetAssumption, SimulationAssumption, ObservationAssumption

\* The connection c has a simulation of its own.
Served(c) == simId[c] # SIM_SERVER_ID_INVALID

\* Where its player is in the run: with the running POLL, or on record.
Position(c) ==
    IF phase = "steps" /\ job.conn = c THEN job.step ELSE mConnections[simId[c]].Step

\* The step i of the stream, as it is sent: of the run and epoch on record.
Step(c, i) ==
    LET e == mConnections[simId[c]].Epoch
    IN  [epoch |-> e, step |-> i - 1, run |-> RunOf(simId[c], e)]

\* What the stream of a player with a simulation is: as long as his position; of
\* the epoch he asked for and of the run that started, if any run did; and each
\* step in its place.
StreamOK(c) ==
    LET s == simId[c]  e == mConnections[s].Epoch IN
    /\ Len(sent[c]) = Position(c)
    /\ \/ \A f \in Epochs : run[s][f] = 0
       \/ e = asked[c].epoch /\ (asked[c].run # 0 => RunOf(s, e) = asked[c].run)
    /\ \A i \in Obtained(c) : sent[c][i] = Step(c, i) /\ RunOf(s, e) \in loaded

StreamsOK == \A c \in Conns : Served(c) => StreamOK(c)

\* A run is loaded only once it was started, and only simulations that were given
\* out have runs.
RunsOK ==
    /\ loaded \subseteq 1..started
    /\ \A s \in Sims \ issued, e \in Epochs : run[s][e] = 0

\* Simulations are never shared; a session without one was sent nothing.
SessionsOK ==
    /\ process = "down" => conns = {}
    /\ \A c \in Conns : Served(c) => c \in conns /\ simId[c] \in issued
    /\ \A c \in Conns : ~Served(c) => asked[c] = NotAsked /\ sent[c] = <<>>
    /\ \A c, d \in Conns : Served(c) /\ simId[c] = simId[d] => c = d

\* The running handler has what its next request needs; and a POLL never asks for
\* a step the run has not produced.
HandlerOK ==
    phase # "idle" =>
        /\ process = "listening" /\ job.conn \in conns
        /\ phase = "create" <=> ~Served(job.conn)
        /\ job.command = "GO_TO_EPOCH" => job.epoch \in Epochs
        /\ phase \in {"list", "simulate"} => job.command = "GO_TO_EPOCH"
        /\ phase = "steps" => job.latest <= StepsOf(sim, connection.Epoch)

Jobs == [conn: Conns \cup {None}, command: Commands, epoch: Nat,
         tries: 0..(MAX_RETRIES - 1), step: 0..RunLength, latest: 0..RunLength]

\* The types, but for the length of what was sent.
ShapeOK ==
    /\ HttpTypeOK /\ SimulationTypeOK
    /\ process \in {"down", "listening"} /\ conns \subseteq Conns
    /\ simId \in [Conns -> Sims \cup {SIM_SERVER_ID_INVALID}]
    /\ mConnections \in [Sims -> [Epoch: Nat, Step: 0..RunLength]]
    /\ phase \in Phases /\ job \in Jobs
    /\ asked \in [Conns -> [epoch: Nat, run: 0..MaxRuns]]
    /\ sent \in [Conns -> Seq(Sent)]

\* The inductive invariant.
ObservationInv == ShapeOK /\ RunsOK /\ SessionsOK /\ HandlerOK /\ StreamsOK
-----------------------------------------------------------------------------
LEMMA RequestType ==
  ASSUME HttpTypeOK, NEW o, Request(o)
  PROVE  HttpTypeOK'
  BY DEF HttpTypeOK, Request, Outcomes, Returns, BudgetAssumption, ReadsEmpty

LEMMA NoJobType == NoJob \in Jobs
  BY DEF NoJob, Job, Jobs, Commands, SimulationAssumption, ObservationAssumption

LEMMA InitObservation == Init => ObservationInv
<1> SUFFICES ASSUME Init PROVE ObservationInv
  OBVIOUS
<1> USE DEF Init
<1>1. HttpTypeOK /\ SimulationTypeOK
  BY DEF HttpInit, HttpTypeOK, SimulationInit, SimulationTypeOK, Runs, BudgetAssumption,
         SimulationAssumption
<1>2. \A c \in Conns : ~Served(c)
  BY DEF Served
<1>3. mConnections \in [Sims -> [Epoch: Nat, Step: 0..RunLength]]
  BY DEF NoConnections, Fresh, SimulationAssumption
<1>4. sent \in [Conns -> Seq(Sent)]
  <2>1. <<>> \in Seq(Sent)
    OBVIOUS
  <2>2. QED
    BY <2>1
<1>5. ShapeOK
  BY <1>1, <1>3, <1>4, NoJobType DEF ShapeOK, Phases, NotAsked, SimulationAssumption
<1>6. RunsOK
  BY DEF SimulationInit, RunsOK
<1>7. QED
  BY <1>2, <1>5, <1>6 DEF ObservationInv, SessionsOK, HandlerOK, StreamsOK

\* The end of the process, whatever it did to the simulations.
LEMMA TerminateInv ==
  ASSUME ShapeOK, Terminate, HttpTypeOK', SimulationTypeOK', RunsOK'
  PROVE  ObservationInv'
<1> USE DEF Terminate
<1>1. \A c \in Conns : ~Served(c)'
  BY DEF Served
<1>2. mConnections' \in [Sims -> [Epoch: Nat, Step: 0..RunLength]]
  BY DEF NoConnections, Fresh, SimulationAssumption
<1>3. sent' \in [Conns -> Seq(Sent)]
  <2>1. <<>> \in Seq(Sent)
    OBVIOUS
  <2>2. QED
    BY <2>1
<1>4. phase' \in Phases /\ job' \in Jobs
  BY NoJobType DEF Return, Await, Phases
<1>5. ShapeOK'
  BY <1>2, <1>3, <1>4 DEF ShapeOK, NotAsked, SimulationAssumption
<1>6. SessionsOK'
  <2>1. \A c \in Conns : asked'[c] = NotAsked /\ sent'[c] = <<>>
    BY DEF NotAsked
  <2>2. process' = "down" /\ conns' = {} /\ NotAsked' = NotAsked
    BY DEF NotAsked
  <2>3. QED
    BY <1>1, <2>1, <2>2 DEF SessionsOK
<1>7. HandlerOK' /\ StreamsOK'
  BY <1>1 DEF Return, Await, HandlerOK, StreamsOK
<1>8. QED
  BY <1>5, <1>6, <1>7 DEF ObservationInv

\* A stream that nothing touched.
LEMMA StreamKept ==
  ASSUME NEW c \in Conns, StreamOK(c), Served(c), ShapeOK,
         simId'[c] = simId[c], mConnections'[simId[c]] = mConnections[simId[c]],
         sent'[c] = sent[c], asked'[c] = asked[c], Position(c)' = Position(c),
         run'[simId[c]] = run[simId[c]], loaded \subseteq loaded'
  PROVE  StreamOK(c)'
<1> DEFINE s == simId[c]  e == mConnections[s].Epoch
<1>1. RunOf(s, e)' = RunOf(s, e)
  BY DEF RunOf
<1>2. Obtained(c)' = Obtained(c)
  BY DEF Obtained
<1>3. \A i \in Obtained(c) : Step(c, i)' = Step(c, i)
  BY <1>1 DEF Step
<1>4. QED
  BY <1>1, <1>2, <1>3 DEF StreamOK

\* A handler that starts, goes on or returns between requests that change nothing,
\* but for a simulation that nobody gets.
LEMMA MoveOnInv ==
  ASSUME ObservationInv, HttpTypeOK',
         UNCHANGED simulationVars \/ (\E s \in Sims : AddSimulation(s)),
         UNCHANGED <<sessionVars, mConnections, historyVars>>,
         phase # "steps", phase' \in Phases \ {"steps"}, job' \in Jobs,
         phase' # "idle" =>
            /\ process = "listening" /\ job'.conn \in conns
            /\ (phase' = "create" <=> ~Served(job'.conn))
            /\ (job'.command = "GO_TO_EPOCH" => job'.epoch \in Epochs)
            /\ (phase' \in {"list", "simulate"} => job'.command = "GO_TO_EPOCH")
  PROVE  ObservationInv'
<1> USE DEF ObservationInv, simulationVars, sessionVars, historyVars
<1>0. /\ issued \subseteq issued' /\ issued' \subseteq Sims
      /\ UNCHANGED <<run, started, loaded, produced>>
  BY DEF AddSimulation, ShapeOK, SimulationTypeOK
<1>1. ShapeOK' /\ RunsOK' /\ SessionsOK'
  BY <1>0 DEF ShapeOK, SimulationTypeOK, RunsOK, SessionsOK, Served
<1>2. HandlerOK'
  BY DEF HandlerOK, Served
<1>3. ASSUME NEW c \in Conns, Served(c)' PROVE StreamOK(c)'
  <2>1. Served(c) /\ Position(c)' = Position(c)
    BY <1>3 DEF Served, Position
  <2>2. StreamOK(c)
    BY <2>1 DEF StreamsOK
  <2>3. QED
    BY <1>0, <2>1, <2>2, StreamKept
<1>4. QED
  BY <1>1, <1>2, <1>3 DEF StreamsOK
-----------------------------------------------------------------------------
LEMMA StartInv ==
  ASSUME ObservationInv, NEW o, Start(o)
  PROVE  ObservationInv'
<1> USE DEF ObservationInv, Start, simulationVars, handlerVars, historyVars
<1>1. phase = "idle"
  BY DEF HandlerOK
<1>2. ShapeOK' /\ RunsOK' /\ SessionsOK' /\ HandlerOK'
  BY <1>1, RequestType DEF ShapeOK, SimulationTypeOK, RunsOK, SessionsOK, Served, HandlerOK
<1>3. ASSUME NEW c \in Conns, Served(c)' PROVE StreamOK(c)'
  <2>1. Served(c) /\ Position(c)' = Position(c)
    BY <1>3 DEF Served, Position
  <2>2. StreamOK(c)
    BY <2>1 DEF StreamsOK
  <2>3. QED
    BY <2>1, <2>2, StreamKept
<1>4. QED
  BY <1>2, <1>3 DEF StreamsOK

LEMMA OpenInv ==
  ASSUME ObservationInv, NEW c \in Conns, OnConnectionOpen(c)
  PROVE  ObservationInv'
<1> USE DEF ObservationInv, OnConnectionOpen, httpVars, simulationVars, handlerVars, historyVars
<1>1. ShapeOK' /\ RunsOK' /\ SessionsOK' /\ HandlerOK'
  BY DEF ShapeOK, HttpTypeOK, SimulationTypeOK, RunsOK, SessionsOK, Served, HandlerOK
<1>2. ASSUME NEW d \in Conns, Served(d)' PROVE StreamOK(d)'
  <2>1. Served(d) /\ Position(d)' = Position(d)
    BY <1>2 DEF Served, Position
  <2>2. StreamOK(d)
    BY <2>1 DEF StreamsOK
  <2>3. QED
    BY <2>1, <2>2, StreamKept
<1>3. QED
  BY <1>1, <1>2 DEF StreamsOK

LEMMA CloseInv ==
  ASSUME ObservationInv, NEW c \in Conns, OnConnectionClose(c)
  PROVE  ObservationInv'
<1> USE DEF ObservationInv, OnConnectionClose, httpVars, simulationVars, handlerVars
<1>1. sent' \in [Conns -> Seq(Sent)]
  <2>1. <<>> \in Seq(Sent)
    OBVIOUS
  <2>2. QED
    BY <2>1 DEF ShapeOK
<1>2. ShapeOK' /\ RunsOK'
  BY <1>1 DEF ShapeOK, HttpTypeOK, SimulationTypeOK, RunsOK, NotAsked, SimulationAssumption
<1>3. /\ ~Served(c)' /\ asked'[c] = NotAsked /\ sent'[c] = <<>>
      /\ \A d \in Conns \ {c} : /\ simId'[d] = simId[d] /\ asked'[d] = asked[d]
                                /\ sent'[d] = sent[d]
  BY DEF ShapeOK, Served
<1>4. SessionsOK' /\ HandlerOK'
  BY <1>3 DEF SessionsOK, HandlerOK, Served, NotAsked
<1>5. ASSUME NEW d \in Conns, Served(d)' PROVE StreamOK(d)'
  <2>1. d # c /\ Served(d) /\ Position(d)' = Position(d)
    BY <1>3, <1>5 DEF Served, Position
  <2>2. StreamOK(d)
    BY <2>1 DEF StreamsOK
  <2>3. QED
    BY <1>3, <2>1, <2>2, StreamKept
<1>6. QED
  BY <1>2, <1>4, <1>5 DEF StreamsOK

LEMMA EndpointInv ==
  ASSUME ObservationInv, NEW c \in Conns, NEW command \in Commands, NEW e \in Nat,
         command = "GO_TO_EPOCH" => e \in Epochs,
         CreatureObservationEndpoint(c, command, e)
  PROVE  ObservationInv'
<1> USE DEF CreatureObservationEndpoint
<1> DEFINE j == Job(c, command, e, 0, 0, 0)
<1>1. HttpTypeOK'
  BY DEF httpVars, HttpTypeOK, ObservationInv, ShapeOK
<1>2. j \in Jobs /\ j.conn = c /\ j.command = command /\ j.epoch = e
  BY DEF Job, Jobs, SimulationAssumption, ObservationAssumption
<1>3. job' = j /\ phase' = IF simId[c] = SIM_SERVER_ID_INVALID THEN "create" ELSE First(command)
  BY DEF Await
<1>4. /\ First(command) \in {"list", "count", "stats"}
      /\ First(command) = "list" => command = "GO_TO_EPOCH"
  BY DEF First, Commands
<1> HIDE DEF j
<1>5. phase' \in Phases \ {"steps"} /\ (phase' = "create" <=> ~Served(c))
  BY <1>3, <1>4 DEF Phases, Served
<1>6. QED
  BY <1>1, <1>2, <1>3, <1>4, <1>5, MoveOnInv

LEMMA CreatedInv ==
  ASSUME ObservationInv, NEW o, Created(o)
  PROVE  ObservationInv'
<1> USE DEF ObservationInv
<1>0. PICK c \in Conns : c = job.conn
  BY DEF Created, Ask, HandlerOK, ShapeOK
<1>1. PICK s \in Sims \ issued :
         /\ issued' = issued \cup {s} /\ UNCHANGED <<run, started, loaded, produced>>
         /\ simId' = [simId EXCEPT ![c] = s]
         /\ mConnections' = [mConnections EXCEPT ![s] = Fresh(s)]
  BY <1>0 DEF Created, AddSimulation
<1>2. /\ phase = "create" /\ phase' = First(job.command) /\ job' = job
      /\ UNCHANGED <<process, conns, asked, sent>>
  BY DEF Created, Ask, Await, historyVars
<1>3. /\ c \in conns /\ job.conn = c /\ ~Served(c) /\ process = "listening"
      /\ job.command \in Commands
  BY <1>0, <1>2 DEF HandlerOK, ShapeOK, Jobs
<1>4. /\ phase' \in {"list", "count", "stats"}
      /\ phase' = "list" => job.command = "GO_TO_EPOCH"
  BY <1>2, <1>3 DEF First, Commands
<1>5. /\ simId'[c] = s /\ \A d \in Conns \ {c} : simId'[d] = simId[d]
      /\ mConnections'[s] = Fresh(s)
      /\ \A r \in Sims \ {s} : mConnections'[r] = mConnections[r]
      /\ s # SIM_SERVER_ID_INVALID
  BY <1>1, <1>3 DEF ShapeOK, SIM_SERVER_ID_INVALID, SimulationAssumption
<1>6. ShapeOK'
  <2>1. HttpTypeOK' /\ SimulationTypeOK'
    BY <1>1, RequestType DEF Created, Ask, ShapeOK, SimulationTypeOK
  <2>2. mConnections' \in [Sims -> [Epoch: Nat, Step: 0..RunLength]]
    BY <1>1 DEF Fresh, ShapeOK, SimulationAssumption
  <2>3. simId' \in [Conns -> Sims \cup {SIM_SERVER_ID_INVALID}]
    BY <1>1 DEF ShapeOK
  <2>4. QED
    BY <1>2, <1>4, <2>1, <2>2, <2>3 DEF ShapeOK, Phases
<1>7. RunsOK'
  BY <1>1 DEF RunsOK
<1>8. \A d \in Conns \ {c} : Served(d) => simId[d] # s
  BY <1>1 DEF SessionsOK
<1>9. SessionsOK'
  BY <1>1, <1>2, <1>3, <1>5, <1>8 DEF SessionsOK, Served, NotAsked
<1>10. HandlerOK'
  BY <1>2, <1>3, <1>4, <1>5 DEF HandlerOK, Served
<1>11. ASSUME NEW d \in Conns, Served(d)' PROVE StreamOK(d)'
  <2>1. CASE d = c
    <3>1. sent'[c] = <<>>
      BY <1>2, <1>3 DEF SessionsOK
    <3>2. Position(c)' = 0 /\ Len(sent'[c]) = 0
      BY <1>4, <1>5, <3>1 DEF Position, Fresh
    <3>3. \A f \in Epochs : run'[s][f] = 0
      BY <1>1 DEF RunsOK
    <3>4. Obtained(c)' = {}
      BY <3>1 DEF Obtained
    <3>5. QED
      BY <1>5, <2>1, <3>2, <3>3, <3>4 DEF StreamOK
  <2>2. CASE d # c
    <3>1. Served(d) /\ simId'[d] = simId[d] /\ simId[d] # s /\ simId[d] \in Sims
      BY <1>5, <1>8, <1>11, <2>2 DEF Served, ShapeOK
    <3>2. StreamOK(d)
      BY <3>1 DEF StreamsOK
    <3>3. Position(d)' = Position(d)
      BY <1>2, <1>4, <1>5, <3>1 DEF Position
    <3>4. QED
      BY <1>1, <1>2, <1>5, <3>1, <3>2, <3>3, StreamKept
  <2>3. QED
    BY <2>1, <2>2
<1>12. QED
  BY <1>6, <1>7, <1>9, <1>10, <1>11 DEF StreamsOK

LEMMA CreateBrokenInv ==
  ASSUME ObservationInv, NEW o, CreateBroken(o)
  PROVE  ObservationInv'
<1>1. \/ UNCHANGED simulationVars
      \/ \E s \in Sims : AddSimulation(s)
  BY DEF CreateBroken
<1>2. SimulationTypeOK' /\ RunsOK'
  BY <1>1 DEF ObservationInv, ShapeOK, SimulationTypeOK, RunsOK, AddSimulation,
              simulationVars
<1>3. HttpTypeOK'
  BY RequestType DEF CreateBroken, Ask, ObservationInv, ShapeOK
<1>4. QED
  BY <1>2, <1>3, TerminateInv DEF CreateBroken, ObservationInv

\* The running handler, once its session has a simulation.
LEMMA Running ==
  ASSUME ObservationInv, phase \notin {"idle", "create"}
  PROVE  /\ job \in Jobs /\ job.conn \in Conns /\ job.conn \in conns
         /\ Served(job.conn) /\ sim \in Sims /\ sim \in issued
         /\ connection \in [Epoch: Nat, Step: 0..RunLength]
         /\ process = "listening" /\ job.command \in Commands
         /\ StreamOK(job.conn)
         /\ \A d \in Conns \ {job.conn} : Served(d) => simId[d] # sim
<1> USE DEF ObservationInv
<1>1. /\ job \in Jobs /\ job.conn \in Conns /\ job.conn \in conns /\ Served(job.conn)
      /\ process = "listening" /\ job.command \in Commands
  BY DEF HandlerOK, ShapeOK, Jobs
<1>2. sim \in Sims /\ sim \in issued
  BY <1>1 DEF Served, sim, ShapeOK, SessionsOK
<1>3. connection \in [Epoch: Nat, Step: 0..RunLength]
  BY <1>2 DEF connection, ShapeOK
<1>4. StreamOK(job.conn)
  BY <1>1 DEF StreamsOK
<1>5. \A d \in Conns \ {job.conn} : Served(d) => simId[d] # sim
  BY <1>1 DEF SessionsOK, sim
<1>6. QED
  BY <1>1, <1>2, <1>3, <1>4, <1>5

\* A request that breaks its connection changes nothing but the process.
LEMMA BrokenInv ==
  ASSUME ObservationInv, NEW o, Request(o), UNCHANGED simulationVars, Terminate
  PROVE  ObservationInv'
<1>1. SimulationTypeOK' /\ RunsOK'
  BY DEF ObservationInv, ShapeOK, SimulationTypeOK, RunsOK, simulationVars
<1>2. QED
  BY <1>1, RequestType, TerminateInv DEF ObservationInv, ShapeOK

LEMMA NotCreatedInv ==
  ASSUME ObservationInv, NEW o, NotCreated(o)
  PROVE  ObservationInv'
<1>1. HttpTypeOK'
  BY RequestType DEF NotCreated, Ask, ObservationInv, ShapeOK
<1>2. UNCHANGED simulationVars \/ (\E s \in Sims : AddSimulation(s))
  BY DEF NotCreated
<1>3. QED
  BY <1>1, <1>2, NoJobType, MoveOnInv DEF NotCreated, Ask, Return, Await, Phases

LEMMA ListSpeciesInv ==
  ASSUME ObservationInv, NEW o, ListSpecies(o)
  PROVE  ObservationInv'
<1>1. phase = "list" /\ Request(o) /\ HttpTypeOK'
  BY RequestType DEF ListSpecies, Ask, ObservationInv, ShapeOK
<1>2. CASE Returns(o)
  <2>1. /\ phase' = "simulate" /\ job' = job
        /\ UNCHANGED <<simulationVars, sessionVars, mConnections, historyVars>>
    BY <1>2 DEF ListSpecies, Await
  <2>2. job.command = "GO_TO_EPOCH" /\ job.epoch \in Epochs
    BY <1>1 DEF ObservationInv, HandlerOK
  <2>3. QED
    BY <1>1, <2>1, <2>2, Running, MoveOnInv DEF Phases
<1>3. QED
  BY <1>1, <1>2, BrokenInv DEF ListSpecies

LEMMA TriedType ==
  ASSUME NEW j \in Jobs, TriesLeft(Tried(j))
  PROVE  /\ Tried(j) \in Jobs
         /\ Tried(j).conn = j.conn /\ Tried(j).command = j.command
         /\ Tried(j).epoch = j.epoch
  BY DEF Tried, TriesLeft, Jobs, ObservationAssumption

LEMMA GetSpeciesInv ==
  ASSUME ObservationInv, NEW o, GetSpecies(o)
  PROVE  ObservationInv'
<1>1. phase = "species" /\ Request(o) /\ HttpTypeOK'
  BY RequestType DEF GetSpecies, Ask, ObservationInv, ShapeOK
<1>2. CASE Returns(o)
  <2>1. UNCHANGED <<simulationVars, sessionVars, mConnections, historyVars>>
    BY <1>2 DEF GetSpecies
  <2>2. job.command = "GO_TO_EPOCH" => job.epoch \in Epochs
    BY <1>1 DEF ObservationInv, HandlerOK
  <2>3. CASE phase' = "species" /\ job' = Tried(job) /\ TriesLeft(Tried(job))
    BY <1>1, <2>1, <2>2, <2>3, Running, TriedType, MoveOnInv DEF Phases
  <2>4. CASE phase' = "environment" /\ job' = job
    BY <1>1, <2>1, <2>2, <2>4, Running, MoveOnInv DEF Phases
  <2>5. QED
    BY <1>2, <2>3, <2>4 DEF GetSpecies, Await
<1>3. QED
  BY <1>1, <1>2, BrokenInv DEF GetSpecies

LEMMA ReadAndReturnInv ==
  ASSUME ObservationInv, NEW o, ReadAndReturn(o)
  PROVE  ObservationInv'
<1>1. phase \in {"environment", "stats"} /\ Request(o) /\ HttpTypeOK'
  BY RequestType DEF ReadAndReturn, Ask, ObservationInv, ShapeOK
<1>2. CASE Returns(o)
  BY <1>1, <1>2, NoJobType, MoveOnInv DEF ReadAndReturn, Return, Await, Phases
<1>3. QED
  BY <1>1, <1>2, BrokenInv DEF ReadAndReturn

\* GO_TO_EPOCH starts the stream over, in the run it started if it did.
LEMMA RunSimulationInv ==
  ASSUME ObservationInv, NEW o, RunSimulation(o)
  PROVE  ObservationInv'
<1> USE DEF ObservationInv
<1>1. phase = "simulate" /\ Request(o) /\ HttpTypeOK'
  BY RequestType DEF RunSimulation, Ask, ShapeOK
<1>0. PICK c \in Conns, s \in Sims, e \in Epochs :
         c = job.conn /\ s = sim /\ s = simId[c] /\ e = job.epoch
  BY <1>1, Running DEF HandlerOK, sim
<1>r. /\ c \in conns /\ Served(c) /\ s \in issued /\ process = "listening" /\ job \in Jobs
      /\ \A d \in Conns \ {c} : Served(d) => simId[d] # s
  BY <1>0, <1>1, Running
<1>2. /\ UNCHANGED <<issued, loaded, produced>>
      /\ \/ UNCHANGED <<run, started>> /\ ~Applied(o)
         \/ /\ Applied(o) /\ started < MaxRuns /\ started' = started + 1
            /\ run' = [run EXCEPT ![s] = [run[s] EXCEPT ![e] = started + 1]]
  BY <1>0 DEF RunSimulation, Simulate, simulationVars
<1>3. SimulationTypeOK'
  <2>1. started' \in 0..MaxRuns
    BY <1>2 DEF ShapeOK, SimulationTypeOK, SimulationAssumption
  <2>2. run' \in [Sims -> [Epochs -> 0..MaxRuns]]
    <3>1. CASE UNCHANGED run
      BY <3>1 DEF ShapeOK, SimulationTypeOK
    <3>2. CASE /\ started < MaxRuns
               /\ run' = [run EXCEPT ![s] = [run[s] EXCEPT ![e] = started + 1]]
      <4>1. started + 1 \in 0..MaxRuns
        BY <3>2 DEF ShapeOK, SimulationTypeOK, SimulationAssumption
      <4>2. [run[s] EXCEPT ![e] = started + 1] \in [Epochs -> 0..MaxRuns]
        BY <4>1 DEF ShapeOK, SimulationTypeOK
      <4>3. QED
        BY <3>2, <4>2 DEF ShapeOK, SimulationTypeOK
    <3>3. QED
      BY <1>2, <3>1, <3>2
  <2>3. QED
    BY <1>2, <2>1, <2>2 DEF ShapeOK, SimulationTypeOK
<1>4. RunsOK'
  <2>1. loaded' \subseteq 1..started'
    BY <1>2 DEF ShapeOK, SimulationTypeOK, SimulationAssumption, RunsOK
  <2>2. ASSUME NEW r \in Sims \ issued', NEW f \in Epochs PROVE run'[r][f] = 0
    <3>1. r \in Sims \ issued /\ r # s
      BY <1>2, <1>r
    <3>2. run'[r] = run[r]
      BY <1>2, <3>1 DEF ShapeOK, SimulationTypeOK
    <3>3. run[r][f] = 0
      BY <3>1 DEF RunsOK
    <3>4. QED
      BY <3>2, <3>3
  <2>3. QED
    BY <2>1, <2>2 DEF RunsOK
<1>5. \A r \in Sims \ {s} : run'[r] = run[r]
  BY <1>2 DEF ShapeOK, SimulationTypeOK
<1>6. CASE Returns(o)
  <2>1. /\ mConnections' = [mConnections EXCEPT ![s] = [Epoch |-> e, Step |-> 0]]
        /\ asked' = [asked EXCEPT ![c] =
               [epoch |-> e, run |-> IF Applied(o) THEN started + 1 ELSE 0]]
        /\ sent' = [sent EXCEPT ![c] = <<>>]
        /\ phase' = "species" /\ job' = job
        /\ UNCHANGED <<process, conns, simId>>
    BY <1>0, <1>6 DEF RunSimulation, GoneTo, Await, sessionVars
  <2>2. ShapeOK'
    <3>1. sent' \in [Conns -> Seq(Sent)]
      <4>1. <<>> \in Seq(Sent)
        OBVIOUS
      <4>2. QED
        BY <2>1, <4>1 DEF ShapeOK
    <3>2. (IF Applied(o) THEN started + 1 ELSE 0) \in 0..MaxRuns
      BY <1>2 DEF ShapeOK, SimulationTypeOK, SimulationAssumption
    <3>3. e \in Nat
      BY DEF SimulationAssumption
    <3>4. asked' \in [Conns -> [epoch: Nat, run: 0..MaxRuns]]
      BY <2>1, <3>2, <3>3 DEF ShapeOK
    <3>5. mConnections' \in [Sims -> [Epoch: Nat, Step: 0..RunLength]]
      BY <2>1, <3>3 DEF ShapeOK, SimulationAssumption
    <3>6. QED
      BY <1>1, <1>3, <2>1, <3>1, <3>4, <3>5 DEF ShapeOK, Phases
  <2>3. SessionsOK'
    <3>1. \A d \in Conns : ~Served(d)' => ~Served(d) /\ d # c
      BY <1>r, <2>1 DEF Served
    <3>2. \A d \in Conns \ {c} : asked'[d] = asked[d] /\ sent'[d] = sent[d]
      BY <2>1 DEF ShapeOK
    <3>3. \A d \in Conns : ~Served(d)' => asked'[d] = NotAsked /\ sent'[d] = <<>>
      BY <3>1, <3>2 DEF SessionsOK
    <3>4. QED
      BY <1>2, <2>1, <3>3 DEF SessionsOK, Served, NotAsked
  <2>4. HandlerOK'
    BY <1>0, <1>1, <1>r, <2>1 DEF HandlerOK, Served
  <2>5. ASSUME NEW d \in Conns, Served(d)' PROVE StreamOK(d)'
    <3>1. CASE d = c
      <4>1. sent'[c] = <<>> /\ mConnections'[s] = [Epoch |-> e, Step |-> 0] /\ simId'[c] = s
        BY <1>0, <2>1 DEF ShapeOK
      <4>2. Position(c)' = 0 /\ Len(sent'[c]) = 0
        BY <2>1, <4>1 DEF Position
      <4>3. Obtained(c)' = {}
        BY <4>1 DEF Obtained
      <4>4. asked'[c].epoch = e /\ (asked'[c].run # 0 => RunOf(s, e)' = asked'[c].run)
        <5>1. asked'[c] = [epoch |-> e, run |-> IF Applied(o) THEN started + 1 ELSE 0]
          BY <2>1 DEF ShapeOK
        <5>2. CASE Applied(o)
          <6>1. run'[s][e] = started + 1
            BY <1>2, <5>2 DEF ShapeOK, SimulationTypeOK
          <6>2. QED
            BY <5>1, <5>2, <6>1 DEF RunOf
        <5>3. QED
          BY <5>1, <5>2
      <4>5. QED
        BY <3>1, <4>1, <4>2, <4>3, <4>4 DEF StreamOK
    <3>2. CASE d # c
      <4>1. Served(d) /\ simId'[d] = simId[d] /\ simId[d] # s /\ simId[d] \in Sims
        BY <1>r, <2>1, <2>5, <3>2 DEF Served, ShapeOK
      <4>2. StreamOK(d)
        BY <4>1 DEF StreamsOK
      <4>3. /\ mConnections'[simId[d]] = mConnections[simId[d]]
            /\ sent'[d] = sent[d] /\ asked'[d] = asked[d]
        BY <2>1, <3>2, <4>1 DEF ShapeOK
      <4>4. Position(d)' = Position(d)
        BY <1>1, <2>1, <4>1, <4>3 DEF Position
      <4>5. QED
        BY <1>2, <1>5, <4>1, <4>2, <4>3, <4>4, StreamKept
    <3>3. QED
      BY <3>1, <3>2
  <2>6. QED
    BY <1>4, <2>2, <2>3, <2>4, <2>5 DEF StreamsOK
<1>7. CASE ~Returns(o)
  BY <1>1, <1>3, <1>4, <1>7, TerminateInv DEF RunSimulation
<1>8. QED
  BY <1>6, <1>7

\* What a run has produced, by the simulation server's own account.
LEMMA StepsType ==
  ASSUME ShapeOK, RunsOK, NEW s \in Sims, NEW e \in Nat
  PROVE  /\ StepsOf(s, e) \in 0..RunLength
         /\ StepsOf(s, e) # 0 => e \in Epochs /\ RunOf(s, e) \in loaded /\ RunOf(s, e) \in Runs
  BY DEF ShapeOK, SimulationTypeOK, RunsOK, StepsOf, RunOf, Runs, SimulationAssumption

LEMMA LatestType ==
  ASSUME NEW steps \in 0..RunLength, NEW step \in 0..RunLength
  PROVE  LatestStep(steps, step) \in 0..RunLength /\ LatestStep(steps, step) <= steps
  BY DEF LatestStep, SimulationAssumption, ObservationAssumption

LEMMA PollingType ==
  ASSUME job \in Jobs, NEW m \in 0..RunLength, NEW n \in 0..RunLength
  PROVE  /\ Polling(m, n) \in Jobs /\ Polling(m, n).conn = job.conn
         /\ Polling(m, n).command = job.command /\ Polling(m, n).epoch = job.epoch
         /\ Polling(m, n).step = m /\ Polling(m, n).latest = n
  BY DEF Polling, Job, Jobs

LEMMA CountStepsInv ==
  ASSUME ObservationInv, NEW o, CountSteps(o)
  PROVE  ObservationInv'
<1> USE DEF ObservationInv
<1>1. phase = "count" /\ Request(o) /\ HttpTypeOK' /\ UNCHANGED simulationVars
  BY RequestType DEF CountSteps, Ask, ShapeOK
<1>0. PICK c \in Conns, s \in Sims : c = job.conn /\ s = sim /\ s = simId[c]
  BY <1>1, Running DEF sim
<1>r. /\ c \in conns /\ Served(c) /\ process = "listening" /\ job \in Jobs
      /\ mConnections[s] \in [Epoch: Nat, Step: 0..RunLength]
  BY <1>0, <1>1, Running DEF connection
<1>2. CASE Returns(o)
  <2> DEFINE steps == IF o = "answered" THEN StepsOf(s, mConnections[s].Epoch) ELSE 0
             m == mConnections[s].Step
             n == LatestStep(steps, m)
  <2>1. /\ phase' = "steps" /\ job' = Polling(m, n)
        /\ UNCHANGED <<sessionVars, mConnections, historyVars>>
    BY <1>0, <1>2 DEF CountSteps, Await, connection
  <2>2. m \in 0..RunLength /\ StepsOf(s, mConnections[s].Epoch) \in 0..RunLength
    BY <1>r, StepsType
  <2>3. steps \in 0..RunLength /\ steps <= StepsOf(s, mConnections[s].Epoch)
    BY <2>2 DEF SimulationAssumption
  <2> HIDE DEF steps
  <2> HIDE DEF m
  <2>n. n \in 0..RunLength /\ n <= steps
    BY <2>2, <2>3, LatestType
  <2> HIDE DEF n
  <2>4. n \in 0..RunLength /\ n <= StepsOf(s, mConnections[s].Epoch)
    BY <2>2, <2>3, <2>n DEF SimulationAssumption
  <2>5. /\ job' \in Jobs /\ job'.conn = c /\ job'.command = job.command
        /\ job'.epoch = job.epoch /\ job'.step = m /\ job'.latest = n
    BY <1>0, <1>r, <2>1, <2>2, <2>4, PollingType
  <2>6. ShapeOK' /\ RunsOK' /\ SessionsOK'
    BY <1>1, <2>1, <2>5 DEF ShapeOK, SimulationTypeOK, RunsOK, SessionsOK, Served, Phases,
               simulationVars, sessionVars, historyVars
  <2>7. HandlerOK'
    <3>1. sim' = s /\ connection' = mConnections[s]
      BY <1>0, <2>1, <2>5 DEF sim, connection, sessionVars
    <3>2. StepsOf(sim, connection.Epoch)' = StepsOf(s, mConnections[s].Epoch)
      BY <1>1, <3>1 DEF StepsOf, RunOf, simulationVars
    <3>3. job'.command = "GO_TO_EPOCH" => job'.epoch \in Epochs
      BY <1>1, <2>5 DEF HandlerOK
    <3>4. QED
      BY <1>r, <2>1, <2>4, <2>5, <3>2, <3>3 DEF HandlerOK, Served, sessionVars
  <2>8. ASSUME NEW d \in Conns, Served(d)' PROVE StreamOK(d)'
    <3>1. Served(d) /\ simId'[d] = simId[d]
      BY <2>1, <2>8 DEF Served, sessionVars
    <3>2. Position(d)' = Position(d)
      BY <1>0, <1>1, <2>1, <2>5, <3>1 DEF Position, m
    <3>3. StreamOK(d)
      BY <3>1 DEF StreamsOK
    <3>4. QED
      BY <1>1, <2>1, <3>1, <3>2, <3>3, StreamKept DEF simulationVars, sessionVars, historyVars
  <2>9. QED
    BY <2>6, <2>7, <2>8 DEF StreamsOK
<1>3. QED
  BY <1>1, <1>2, BrokenInv DEF CountSteps

\* A step that is sent, or passed over, is the next one of the stream.
LEMMA GetStepInv ==
  ASSUME ObservationInv, NEW o, GetStep(o)
  PROVE  ObservationInv'
<1> USE DEF ObservationInv
<1>1. phase = "steps" /\ Request(o) /\ HttpTypeOK' /\ UNCHANGED simulationVars
      /\ job.step < job.latest
  BY RequestType DEF GetStep, Ask, ShapeOK
<1>0. PICK c \in Conns, s \in Sims : c = job.conn /\ s = sim /\ s = simId[c]
  BY <1>1, Running DEF sim
<1>r. /\ c \in conns /\ Served(c) /\ process = "listening" /\ job \in Jobs
      /\ mConnections[s] \in [Epoch: Nat, Step: 0..RunLength] /\ StreamOK(c)
  BY <1>0, <1>1, Running DEF connection
<1>2. CASE Returns(o)
  <2> DEFINE e == mConnections[s].Epoch
             m == job.step + 1
             x == IF o = "answered" /\ job.step < StepsOf(s, e)
                  THEN [epoch |-> e, step |-> job.step, run |-> RunOf(s, e)] ELSE Missing
  <2>1. /\ phase' = "steps" /\ job' = Polling(m, job.latest)
        /\ sent' = [sent EXCEPT ![c] = Append(sent[c], x)]
        /\ UNCHANGED <<sessionVars, mConnections, asked>>
    BY <1>0, <1>2 DEF GetStep, Await, connection
  <2>2. /\ job.step \in 0..RunLength /\ job.latest \in 0..RunLength
        /\ job.command \in Commands /\ job.epoch \in Nat
    BY <1>r DEF Jobs
  <2>3. m \in 0..RunLength
    BY <1>1, <2>2 DEF SimulationAssumption
  <2> HIDE DEF m
  <2>4. /\ job' \in Jobs /\ job'.conn = c /\ job'.command = job.command
        /\ job'.epoch = job.epoch /\ job'.step = m /\ job'.latest = job.latest
    BY <1>0, <1>r, <2>1, <2>2, <2>3, PollingType
  <2>5. x \in Sent /\ (x # Missing => RunOf(s, e) \in loaded)
    <3>1. CASE x = Missing
      BY <3>1 DEF Sent
    <3>2. CASE x # Missing
      <4>1. StepsOf(s, e) # 0 /\ e \in Nat
        <5>1. job.step < StepsOf(s, e) /\ StepsOf(s, e) \in 0..RunLength
          BY <1>r, <3>2, StepsType
        <5>2. QED
          BY <1>r, <2>2, <5>1
      <4>2. e \in Epochs /\ RunOf(s, e) \in loaded /\ RunOf(s, e) \in Runs
        BY <4>1, StepsType
      <4>3. x = [epoch |-> e, step |-> job.step, run |-> RunOf(s, e)]
        BY <3>2
      <4>4. QED
        BY <2>2, <4>2, <4>3 DEF Sent
    <3>3. QED
      BY <3>1, <3>2
  <2> DEFINE y == Append(sent[c], x)
  <2>6. /\ sent[c] \in Seq(Sent) /\ Len(sent[c]) = job.step
        /\ y \in Seq(Sent) /\ Len(y) = m
        /\ \A i \in 1..Len(sent[c]) : y[i] = sent[c][i]
        /\ y[m] = x
    <3>1. sent[c] \in Seq(Sent) /\ Len(sent[c]) = job.step
      BY <1>0, <1>1, <1>r DEF StreamOK, Position, ShapeOK
    <3> HIDE DEF x
    <3>2. QED
      BY <2>5, <3>1 DEF m
  <2> HIDE DEF y
  <2>7. sent'[c] = y /\ \A d \in Conns \ {c} : sent'[d] = sent[d]
    BY <2>1 DEF ShapeOK, y
  <2>8. ShapeOK' /\ RunsOK'
    <3>1. sent' \in [Conns -> Seq(Sent)]
      BY <2>1, <2>6 DEF ShapeOK, y
    <3>2. QED
      BY <1>1, <2>1, <2>4, <3>1 DEF ShapeOK, SimulationTypeOK, RunsOK, Phases, simulationVars,
                 sessionVars
  <2>9. SessionsOK'
    <3>1. \A d \in Conns : Served(d)' = Served(d)
      BY <2>1 DEF Served, sessionVars
    <3>2. QED
      BY <1>1, <1>r, <2>1, <2>7, <3>1 DEF SessionsOK, NotAsked, simulationVars, sessionVars
  <2>10. HandlerOK'
    <3>1. sim' = s /\ connection' = mConnections[s]
      BY <1>0, <2>1, <2>4 DEF sim, connection, sessionVars
    <3>2. StepsOf(sim, connection.Epoch)' = StepsOf(sim, connection.Epoch)
      BY <1>0, <1>1, <3>1 DEF StepsOf, RunOf, simulationVars, connection
    <3>3. /\ job.command = "GO_TO_EPOCH" => job.epoch \in Epochs
          /\ job.latest <= StepsOf(sim, connection.Epoch)
      BY <1>1 DEF HandlerOK
    <3>4. QED
      BY <1>r, <2>1, <2>4, <3>2, <3>3 DEF HandlerOK, Served, sessionVars
  <2>11. ASSUME NEW d \in Conns, Served(d)' PROVE StreamOK(d)'
    <3>1. Served(d) /\ simId'[d] = simId[d]
      BY <2>1, <2>11 DEF Served, sessionVars
    <3>2. CASE d # c
      <4>1. Position(d)' = Position(d) /\ StreamOK(d)
        BY <1>0, <2>1, <2>4, <3>1, <3>2 DEF Position, StreamsOK
      <4>2. QED
        BY <1>1, <2>1, <2>7, <3>1, <3>2, <4>1, StreamKept DEF simulationVars, sessionVars
    <3>3. CASE d = c
      <4>1. /\ simId'[c] = s /\ mConnections' = mConnections /\ asked' = asked
            /\ RunOf(s, e)' = RunOf(s, e) /\ run' = run /\ loaded' = loaded
        BY <1>0, <1>1, <2>1 DEF RunOf, simulationVars, sessionVars
      <4>2. Position(c)' = m
        BY <2>1, <2>4 DEF Position
      <4>3. ASSUME NEW i \in Obtained(c)'
            PROVE  sent'[c][i] = Step(c, i)' /\ RunOf(s, e) \in loaded
        <5>1. i \in 1..m /\ y[i] # Missing
          BY <2>6, <2>7, <4>3 DEF Obtained
        <5>2. Step(c, i)' = Step(c, i)
          BY <1>0, <4>1 DEF Step
        <5>3. CASE i = m
          <6>1. x # Missing /\ y[i] = x
            BY <2>6, <5>1, <5>3
          <6>2. x = [epoch |-> e, step |-> job.step, run |-> RunOf(s, e)]
            BY <6>1
          <6>3. i - 1 = job.step
            BY <2>2, <5>3 DEF m
          <6>4. Step(c, i) = [epoch |-> e, step |-> i - 1, run |-> RunOf(s, e)]
            BY <1>0 DEF Step
          <6>5. QED
            BY <2>5, <2>7, <5>2, <6>1, <6>2, <6>3, <6>4
        <5>4. CASE i # m
          <6>1. i \in 1..Len(sent[c])
            BY <2>2, <2>6, <5>1, <5>4 DEF m
          <6>2. i \in Obtained(c) /\ y[i] = sent[c][i]
            BY <2>6, <5>1, <6>1 DEF Obtained
          <6>3. sent[c][i] = Step(c, i) /\ RunOf(s, e) \in loaded
            BY <1>0, <1>r, <6>2 DEF StreamOK
          <6>4. QED
            BY <2>7, <5>2, <6>2, <6>3
        <5>5. QED
          BY <5>3, <5>4
      <4>4. \/ \A f \in Epochs : run[s][f] = 0
            \/ e = asked[c].epoch /\ (asked[c].run # 0 => RunOf(s, e) = asked[c].run)
        BY <1>0, <1>r DEF StreamOK
      <4>5. Len(sent'[c]) = Position(c)'
        BY <2>6, <2>7, <4>2
      <4>6. QED
        BY <3>3, <4>1, <4>3, <4>4, <4>5 DEF StreamOK
    <3>4. QED
      BY <3>2, <3>3
  <2>12. QED
    BY <2>8, <2>9, <2>10, <2>11 DEF StreamsOK
<1>3. QED
  BY <1>1, <1>2, BrokenInv DEF GetStep

\* The position that is saved is the one the POLL has come to.
LEMMA PollReturnInv ==
  ASSUME ObservationInv, PollReturn
  PROVE  ObservationInv'
<1> USE DEF ObservationInv
<1>1. /\ phase = "steps" /\ phase' = "idle" /\ job' = NoJob
      /\ UNCHANGED <<httpVars, simulationVars, sessionVars, historyVars>>
  BY DEF PollReturn, Return, Await
<1>0. PICK c \in Conns, s \in Sims : c = job.conn /\ s = sim /\ s = simId[c]
  BY <1>1, Running DEF sim
<1>r. /\ job \in Jobs /\ mConnections[s] \in [Epoch: Nat, Step: 0..RunLength]
      /\ \A d \in Conns \ {c} : Served(d) => simId[d] # s
  BY <1>0, <1>1, Running DEF connection
<1>e. PICK e \in Nat : e = mConnections[s].Epoch
  BY <1>r
<1> DEFINE n == [Epoch |-> e, Step |-> job.step]
<1>2. /\ mConnections' = [mConnections EXCEPT ![s] = n]
      /\ n \in [Epoch: Nat, Step: 0..RunLength] /\ n.Epoch = e /\ n.Step = job.step
  BY <1>0, <1>r, <1>e DEF PollReturn, Saved, connection, Jobs
<1> HIDE DEF n
<1>3. mConnections' \in [Sims -> [Epoch: Nat, Step: 0..RunLength]] /\ mConnections'[s] = n
  BY <1>2 DEF ShapeOK
<1>4. ShapeOK' /\ RunsOK' /\ SessionsOK' /\ HandlerOK'
  BY <1>1, <1>3, NoJobType DEF ShapeOK, HttpTypeOK, SimulationTypeOK, RunsOK, SessionsOK, Served,
             HandlerOK, Phases, NotAsked, httpVars, simulationVars, sessionVars, historyVars
<1>5. ASSUME NEW d \in Conns, Served(d)' PROVE StreamOK(d)'
  <2>1. Served(d) /\ simId'[d] = simId[d] /\ simId[d] \in Sims /\ StreamOK(d)
    BY <1>1, <1>5 DEF Served, sessionVars, StreamsOK, ShapeOK
  <2>2. CASE d # c
    <3>1. mConnections'[simId[d]] = mConnections[simId[d]]
      BY <1>2, <1>r, <2>1, <2>2 DEF ShapeOK
    <3>2. Position(d)' = Position(d)
      BY <1>0, <1>1, <2>1, <2>2, <3>1 DEF Position
    <3>3. QED
      BY <1>1, <2>1, <3>1, <3>2, StreamKept DEF simulationVars, historyVars
  <2>3. CASE d = c
    <3>1. /\ simId' = simId /\ sent' = sent /\ asked' = asked /\ run' = run /\ loaded' = loaded
          /\ RunOf(s, e)' = RunOf(s, e)
      BY <1>1 DEF RunOf, simulationVars, sessionVars, historyVars
    <3>2. Position(c) = job.step /\ Position(c)' = job.step
      BY <1>0, <1>1, <1>2, <1>3, <3>1 DEF Position
    <3>3. Obtained(c)' = Obtained(c)
      BY <3>1 DEF Obtained
    <3>4. \A i \in Obtained(c) : Step(c, i)' = Step(c, i)
      BY <1>0, <1>2, <1>3, <1>e, <3>1 DEF Step
    <3>5. QED
      BY <1>0, <1>2, <1>3, <1>e, <2>1, <2>3, <3>1, <3>2, <3>3, <3>4 DEF StreamOK
  <2>4. QED
    BY <2>2, <2>3
<1>6. QED
  BY <1>4, <1>5 DEF StreamsOK

\* The simulation server loads runs and produces steps; it takes none back.
LEMMA SimulationInv ==
  ASSUME ObservationInv, Simulation
  PROVE  ObservationInv'
<1> USE DEF ObservationInv
<1>1. PICK r \in Runs : Load(r) \/ Produce(r)
  BY DEF Simulation
<1>2. UNCHANGED <<refusals, failures, process, conns, simId, mConnections, phase, job, asked,
                  sent, issued, run, started>>
  BY <1>1 DEF Simulation, Load, Produce, httpVars, sessionVars, handlerVars, historyVars
<1>3. /\ loaded \subseteq loaded' /\ loaded' \subseteq Runs /\ loaded' \subseteq 1..started
      /\ produced' \in [Runs -> 0..RunLength]
      /\ \A q \in Runs : produced[q] <= produced'[q]
  <2>0. /\ \A q \in Runs : produced[q] \in 0..RunLength
        /\ loaded \subseteq Runs /\ loaded \subseteq 1..started
        /\ produced \in [Runs -> 0..RunLength] /\ started \in 0..MaxRuns
    BY DEF ShapeOK, SimulationTypeOK, RunsOK
  <2>1. CASE Load(r)
    BY <2>0, <2>1 DEF Load, SimulationAssumption
  <2>2. CASE Produce(r)
    <3>1. /\ produced' = [produced EXCEPT ![r] = produced[r] + 1]
          /\ produced[r] < RunLength /\ loaded' = loaded
      BY <2>2 DEF Produce
    <3>2. produced[r] + 1 \in 0..RunLength
      BY <2>0, <3>1 DEF SimulationAssumption
    <3>3. QED
      BY <2>0, <3>1, <3>2 DEF SimulationAssumption
  <2>3. QED
    BY <1>1, <2>1, <2>2
<1>4. ShapeOK' /\ RunsOK' /\ SessionsOK'
  BY <1>2, <1>3 DEF ShapeOK, HttpTypeOK, SimulationTypeOK, RunsOK, SessionsOK, Served, NotAsked
<1>5. HandlerOK'
  <2>1. SUFFICES ASSUME phase = "steps"
                 PROVE  job.latest <= StepsOf(sim, connection.Epoch)'
    BY <1>2 DEF HandlerOK, Served
  <2>2. PICK s \in Sims, e \in Nat : s = sim /\ e = connection.Epoch
    BY <2>1, Running
  <2>3. sim' = s /\ connection'.Epoch = e
    BY <1>2, <2>2 DEF sim, connection
  <2>4. PICK q : q = RunOf(s, e)
    OBVIOUS
  <2>5. RunOf(s, e)' = q
    BY <1>2, <2>4 DEF RunOf
  <2>6. /\ StepsOf(sim, connection.Epoch) = IF q \in loaded THEN produced[q] ELSE 0
        /\ StepsOf(sim, connection.Epoch)' = IF q \in loaded' THEN produced'[q] ELSE 0
    BY <2>2, <2>3, <2>4, <2>5 DEF StepsOf
  <2>7. /\ q \in loaded => q \in loaded' /\ produced[q] <= produced'[q]
        /\ q \in loaded => produced[q] \in 0..RunLength
        /\ q \in loaded' => produced'[q] \in 0..RunLength
    BY <1>3 DEF ShapeOK, SimulationTypeOK
  <2>8. job.latest \in Int /\ job.latest <= StepsOf(sim, connection.Epoch)
    BY <2>1 DEF HandlerOK, ShapeOK, Jobs
  <2>9. QED
    BY <2>6, <2>7, <2>8 DEF SimulationAssumption
<1>6. ASSUME NEW d \in Conns, Served(d)' PROVE StreamOK(d)'
  <2>1. Served(d) /\ Position(d)' = Position(d)
    BY <1>2, <1>6 DEF Served, Position
  <2>2. StreamOK(d)
    BY <2>1 DEF StreamsOK
  <2>3. QED
    BY <1>2, <1>3, <2>1, <2>2, StreamKept
<1>7. QED
  BY <1>4, <1>5, <1>6 DEF StreamsOK

LEMMA NextObservation == ObservationInv /\ [Next]_vars => ObservationInv'
<1> SUFFICES ASSUME ObservationInv, [Next]_vars PROVE ObservationInv'
  OBVIOUS
<1>1. ASSUME NEW c \in Conns, Poll(c) \/ CreatureObservationEndpoint(c, "GET_STATS", 0)
      PROVE  ObservationInv'
  BY <1>1, EndpointInv DEF Poll, Commands
<1>2. ASSUME NEW c \in Conns, NEW e \in Epochs,
             CreatureObservationEndpoint(c, "GO_TO_EPOCH", e)
      PROVE  ObservationInv'
  <2>1. e \in Nat
    BY DEF SimulationAssumption
  <2>2. QED
    BY <1>2, <2>1, EndpointInv DEF Commands
<1>3. CASE HandlerStep
  BY <1>3, PollReturnInv, CreatedInv, NotCreatedInv, CreateBrokenInv, ListSpeciesInv,
     RunSimulationInv, GetSpeciesInv, ReadAndReturnInv, CountStepsInv, GetStepInv
     DEF HandlerStep
<1>4. CASE UNCHANGED vars
  <2>1. ShapeOK' /\ RunsOK' /\ SessionsOK' /\ HandlerOK'
    BY <1>4 DEF vars, httpVars, simulationVars, sessionVars, handlerVars, historyVars,
           ObservationInv, ShapeOK, HttpTypeOK, SimulationTypeOK, RunsOK, SessionsOK, Served,
           NotAsked, HandlerOK, sim, connection, StepsOf, RunOf
  <2>2. StreamsOK'
    BY <1>4 DEF vars, simulationVars, sessionVars, handlerVars, historyVars, ObservationInv,
           StreamsOK, StreamOK, Served, Obtained, Step, Position, RunOf
  <2>3. QED
    BY <2>1, <2>2 DEF ObservationInv
<1>5. QED
  BY <1>1, <1>2, <1>3, <1>4, StartInv, OpenInv, CloseInv, SimulationInv DEF Next

LEMMA ObservationInvariant == Spec => []ObservationInv
  BY InitObservation, NextObservation, PTL DEF Spec
-----------------------------------------------------------------------------
LEMMA SentShape ==
  ASSUME ObservationInv, NEW c \in Conns
  PROVE  /\ sent[c] \in Seq(Sent) /\ Len(sent[c]) <= RunLength
         /\ ~Served(c) => Obtained(c) = {}
<1> USE DEF ObservationInv
<1>1. sent[c] \in Seq(Sent)
  BY DEF ShapeOK
<1>2. CASE Served(c)
  <2>1. Len(sent[c]) = Position(c) /\ simId[c] \in Sims
    BY <1>2 DEF StreamsOK, StreamOK, Served, ShapeOK
  <2>2. Position(c) \in 0..RunLength
    BY <2>1 DEF Position, ShapeOK, Jobs
  <2>3. QED
    BY <1>1, <1>2, <2>1, <2>2 DEF SimulationAssumption
<1>3. CASE ~Served(c)
  <2>1. sent[c] = <<>>
    BY <1>3 DEF SessionsOK
  <2>2. QED
    BY <1>1, <2>1 DEF Obtained, SimulationAssumption
<1>4. QED
  BY <1>2, <1>3

\* What was obtained is what the record says, step by step.
LEMMA ObtainedSteps ==
  ASSUME ObservationInv, NEW c \in Conns, NEW i \in Obtained(c)
  PROVE  /\ Served(c) /\ StreamOK(c) /\ sent[c][i] = Step(c, i)
         /\ RunOf(simId[c], mConnections[simId[c]].Epoch) \in loaded
  BY SentShape DEF ObservationInv, StreamsOK, StreamOK

\* Every variable keeps its type: no player is sent more steps than a run has.
THEOREM ObservationTypeCorrect == Spec => []TypeOK
<1>1. ObservationInv => TypeOK
  BY SentShape DEF ObservationInv, ShapeOK, Jobs, TypeOK
<1>2. QED
  BY <1>1, ObservationInvariant, PTL

\* Over however many POLLs a player is sent the steps of one run, in order, none of
\* them twice (see InOrder).
THEOREM StreamsInOrder == Spec => []InOrder
<1>1. ASSUME ObservationInv PROVE InOrder
  <2>1. ASSUME NEW c \in Conns, NEW i \in Obtained(c)
        PROVE  /\ sent[c][i].step = i - 1
               /\ sent[c][i].run = RunOf(simId[c], mConnections[simId[c]].Epoch)
    <3>1. sent[c][i] = Step(c, i)
      BY <1>1, <2>1, ObtainedSteps
    <3>2. QED
      BY <3>1 DEF Step
  <2>2. QED
    BY <2>1 DEF InOrder
<1>2. QED
  BY <1>1, ObservationInvariant, PTL

\* They are of the epoch he asked for and of the run he started (see AsAsked).
THEOREM StreamsAsAsked == Spec => []AsAsked
<1>1. ASSUME ObservationInv PROVE AsAsked
  <2>1. SUFFICES ASSUME NEW c \in Conns, NEW i \in Obtained(c)
                 PROVE  /\ sent[c][i].epoch = asked[c].epoch
                        /\ asked[c].run # 0 => sent[c][i].run = asked[c].run
    BY DEF AsAsked
  <2> DEFINE s == simId[c]  e == mConnections[s].Epoch
  <2>2. /\ sent[c][i].epoch = e /\ sent[c][i].run = RunOf(s, e)
        /\ RunOf(s, e) \in loaded /\ StreamOK(c)
    <3>1. /\ sent[c][i] = Step(c, i) /\ StreamOK(c)
          /\ RunOf(s, e) \in loaded
      BY <1>1, ObtainedSteps
    <3>2. QED
      BY <3>1 DEF Step
  <2>3. RunOf(s, e) # 0
    BY <1>1, <2>2 DEF ObservationInv, RunsOK
  <2>4. ~ \A f \in Epochs : run[s][f] = 0
    BY <2>3 DEF RunOf
  <2>5. QED
    BY <2>2, <2>4 DEF StreamOK
<1>2. QED
  BY <1>1, ObservationInvariant, PTL

\* Between two commands the position on record is the number of steps sent: nothing
\* will be skipped, and nothing sent again (see NothingSkipped).
THEOREM NothingEverSkipped == Spec => []NothingSkipped
<1>1. ASSUME ObservationInv PROVE NothingSkipped
  BY <1>1 DEF ObservationInv, NothingSkipped, StreamsOK, StreamOK, Served, Position, ShapeOK
<1>2. QED
  BY <1>1, ObservationInvariant, PTL
-----------------------------------------------------------------------------
\* The steps of a stream that were passed over.
Taken(q) == {i \in DOMAIN q : q[i] # Missing}
Gap(q) == Len(q) - Cardinality(Taken(q))
Gaps == [c \in Conns |-> Gap(sent[c])]

LEMMA GapType ==
  ASSUME NEW S, NEW q \in Seq(S)
  PROVE  /\ Gap(q) \in Nat /\ IsFiniteSet(Taken(q))
         /\ Cardinality(Taken(q)) \in Nat
<1>1. Len(q) \in Nat /\ DOMAIN q = 1..Len(q)
  OBVIOUS
<1>2. IsFiniteSet(1..Len(q)) /\ Cardinality(1..Len(q)) = Len(q)
  BY <1>1, FS_Interval
<1>3. Taken(q) \subseteq 1..Len(q)
  BY <1>1 DEF Taken
<1>4. /\ IsFiniteSet(Taken(q)) /\ Cardinality(Taken(q)) <= Len(q)
      /\ Cardinality(Taken(q)) \in Nat
  BY <1>2, <1>3, FS_Subset, FS_CardinalityType
<1>5. QED
  BY <1>1, <1>4 DEF Gap

\* Only a step that was not obtained makes a gap.
LEMMA GapAppend ==
  ASSUME NEW S, NEW q \in Seq(S), NEW x
  PROVE  Gap(Append(q, x)) = Gap(q) + (IF x = Missing THEN 1 ELSE 0)
<1> DEFINE r == Append(q, x)  n == Len(q) + 1
<1>0. q \in Seq(S \cup {x})
  OBVIOUS
<1>1. /\ Len(q) \in Nat /\ DOMAIN q = 1..Len(q) /\ Len(r) = n /\ DOMAIN r = 1..n
      /\ r[n] = x /\ \A i \in 1..Len(q) : r[i] = q[i]
  BY <1>0
<1>2. /\ IsFiniteSet(Taken(q)) /\ Cardinality(Taken(q)) \in Nat
      /\ n \notin Taken(q)
  <2>1. n \notin Taken(q)
    BY <1>1 DEF Taken
  <2>2. QED
    BY <2>1, GapType
<1> HIDE DEF r
<1>3. CASE x = Missing
  <2>1. Taken(r) = Taken(q)
    BY <1>1, <1>3 DEF Taken
  <2>2. QED
    BY <1>1, <1>2, <1>3, <2>1 DEF Gap, r
<1>4. CASE x # Missing
  <2>1. Taken(r) = Taken(q) \cup {n}
    BY <1>1, <1>4 DEF Taken
  <2>2. Cardinality(Taken(r)) = Cardinality(Taken(q)) + 1
    BY <1>2, <2>1, FS_AddElement
  <2>3. QED
    BY <1>1, <1>2, <1>4, <2>2 DEF Gap, r
<1>5. QED
  BY <1>3, <1>4

LEMMA GapOfNothing == Gap(<<>>) = 0
<1>1. Taken(<<>>) = {}
  BY DEF Taken
<1>2. QED
  BY <1>1, FS_EmptySet DEF Gap
-----------------------------------------------------------------------------
\* The sum that GapsAreRefusals speaks of.
GapSum == MapThenSumSet(LAMBDA c : Len(sent[c]) - Cardinality(Obtained(c)), Conns)

LEMMA GapSumIsTotal == IsFiniteSet(Conns) => GapSum = Total(Gaps, Conns)
<1> SUFFICES ASSUME IsFiniteSet(Conns) PROVE GapSum = Total(Gaps, Conns)
  OBVIOUS
<1> DEFINE Folds(h) ==
        h = [t \in SUBSET Conns |->
               IF t = {} THEN 0
               ELSE (Len(sent[CHOOSE x \in t : TRUE])
                       - Cardinality(Obtained(CHOOSE x \in t : TRUE)))
                    + h[t \ {CHOOSE x \in t : TRUE}]]
<1>1. ASSUME NEW h PROVE Folds(h) <=> IsFold(h, Gaps, Conns)
  <2>1. ASSUME NEW t \in SUBSET Conns
        PROVE  FoldStep(h, Gaps, t) =
               IF t = {} THEN 0
               ELSE (Len(sent[CHOOSE x \in t : TRUE])
                       - Cardinality(Obtained(CHOOSE x \in t : TRUE)))
                    + h[t \ {CHOOSE x \in t : TRUE}]
    <3>1. CASE t = {}
      BY <3>1 DEF FoldStep
    <3>2. CASE t # {}
      <4>1. OneOf(t) \in Conns
        BY <3>2 DEF OneOf
      <4>2. Gaps[OneOf(t)] = Len(sent[OneOf(t)]) - Cardinality(Obtained(OneOf(t)))
        BY <4>1 DEF Gaps, Gap, Taken, Obtained
      <4>3. QED
        BY <3>2, <4>2 DEF FoldStep, OneOf, Others
    <3>3. QED
      BY <3>1, <3>2
  <2>2. QED
    BY <2>1 DEF IsFold
<1> HIDE DEF Folds
<1>2. \E h : Folds(h)
  BY <1>1, TotalFold
<1>3. \A h : Folds(h) => h[Conns] = Total(Gaps, Conns)
  BY <1>1, TotalFold
<1>4. QED
  BY <1>2, <1>3, Zenon DEF GapSum, MapThenSumSet, MapThenFoldSet, Folds

\* What a step does to the streams: it starts some of them again, or it sends one
\* player one more step, which is missing only if a connection was refused.
Restarts ==
    /\ refusals' >= refusals
    /\ \A c \in Conns : sent'[c] \in {sent[c], <<>>}

Sends(c, x) ==
    /\ sent' = [sent EXCEPT ![c] = Append(sent[c], x)]
    /\ refusals' >= refusals + (IF x = Missing THEN 1 ELSE 0)

StreamEffect == Restarts \/ \E c \in Conns : \E x : Sends(c, x)

LEMMA GetStepEffect ==
  ASSUME ObservationInv, NEW o, GetStep(o)
  PROVE  StreamEffect
<1>1. phase = "steps" /\ Request(o) /\ job.step < job.latest
  BY DEF GetStep, Ask
<1>2. refusals \in Nat
  BY DEF ObservationInv, ShapeOK, HttpTypeOK, BudgetAssumption
<1>3. CASE Returns(o)
  <2>1. PICK c \in Conns, s \in Sims, e \in Nat, m \in Nat :
           c = job.conn /\ s = sim /\ e = connection.Epoch /\ m = job.step
    <3>1. /\ job \in Jobs /\ job.conn \in Conns /\ sim \in Sims
          /\ connection \in [Epoch: Nat, Step: 0..RunLength]
      BY <1>1, Running
    <3>2. connection.Epoch \in Nat /\ job.step \in Nat
      BY <3>1 DEF Jobs, SimulationAssumption
    <3>3. QED
      BY <3>1, <3>2
  <2>2. PICK x : x = IF o = "answered" /\ m < StepsOf(s, e)
                     THEN [epoch |-> e, step |-> m, run |-> RunOf(s, e)] ELSE Missing
    OBVIOUS
  <2>3. sent' = [sent EXCEPT ![c] = Append(sent[c], x)]
    BY <1>3, <2>1, <2>2 DEF GetStep
  <2>4. CASE o = "answered"
    <3>1. m < StepsOf(s, e)
      <4>1. job.latest \in Nat /\ job.latest <= StepsOf(s, e)
        BY <1>1, <2>1, Running DEF ObservationInv, HandlerOK, Jobs, SimulationAssumption
      <4>2. StepsOf(s, e) \in Nat
        BY StepsType DEF ObservationInv, SimulationAssumption
      <4>3. QED
        BY <1>1, <2>1, <4>1, <4>2
    <3>2. RunOf(s, e) \in Nat
      BY DEF ObservationInv, ShapeOK, SimulationTypeOK, RunOf, SimulationAssumption
    <3>3. x # Missing
      BY <2>2, <2>4, <3>1, <3>2 DEF ObservationAssumption
    <3>4. refusals' = refusals
      BY <1>1, <2>4 DEF Request, ReadsEmpty
    <3>5. refusals' >= refusals + (IF x = Missing THEN 1 ELSE 0)
      BY <1>2, <3>3, <3>4
    <3>6. Sends(c, x)
      BY <2>3, <3>5 DEF Sends
    <3>7. QED
      BY <3>6 DEF StreamEffect
  <2>5. CASE ReadsEmpty(o)
    <3>1. refusals' = refusals + 1
      BY <1>1, <2>5 DEF Request, ReadsEmpty
    <3>2. refusals' >= refusals + (IF x = Missing THEN 1 ELSE 0)
      BY <1>2, <3>1
    <3>3. Sends(c, x)
      BY <2>3, <3>2 DEF Sends
    <3>4. QED
      BY <3>3 DEF StreamEffect
  <2>6. QED
    BY <1>3, <2>4, <2>5 DEF Returns
<1>4. CASE ~Returns(o)
  BY <1>1, <1>2, <1>4 DEF GetStep, Terminate, Request, StreamEffect, Restarts, ReadsEmpty
<1>5. QED
  BY <1>3, <1>4

LEMMA NextStream ==
  ASSUME ObservationInv, [Next]_vars
  PROVE  StreamEffect
<1>n. refusals \in Nat /\ sent \in [Conns -> Seq(Sent)]
  BY DEF ObservationInv, ShapeOK, HttpTypeOK, BudgetAssumption
<1>r. ASSUME NEW o, Request(o) PROVE refusals' >= refusals
  BY <1>n, <1>r DEF Request, ReadsEmpty
<1>t. ASSUME Terminate PROVE \A c \in Conns : sent'[c] = <<>>
  BY <1>t DEF Terminate
<1>1. ASSUME NEW o, Start(o) PROVE StreamEffect
  BY <1>1, <1>r DEF Start, StreamEffect, Restarts, historyVars
<1>2. ASSUME NEW c \in Conns, OnConnectionOpen(c) \/ OnConnectionClose(c) PROVE StreamEffect
  BY <1>2, <1>n DEF OnConnectionOpen, OnConnectionClose, StreamEffect, Restarts, historyVars, httpVars
<1>3. ASSUME NEW c \in Conns, NEW d, NEW e, CreatureObservationEndpoint(c, d, e)
      PROVE  StreamEffect
  BY <1>3, <1>n DEF CreatureObservationEndpoint, StreamEffect, Restarts, historyVars, httpVars
<1>4. CASE HandlerStep
  <2>1. CASE PollReturn
    BY <2>1, <1>n DEF PollReturn, StreamEffect, Restarts, historyVars, httpVars
  <2>2. ASSUME NEW o, Created(o) \/ NotCreated(o) \/ CreateBroken(o) PROVE StreamEffect
    BY <2>2, <1>r, <1>t DEF Created, NotCreated, CreateBroken, Ask, StreamEffect, Restarts, historyVars
  <2>3. ASSUME NEW o, ListSpecies(o) \/ GetSpecies(o) \/ ReadAndReturn(o) \/ CountSteps(o)
        PROVE  StreamEffect
    BY <2>3, <1>r, <1>t DEF ListSpecies, GetSpecies, ReadAndReturn, CountSteps, Ask,
                       StreamEffect, Restarts, historyVars
  <2>4. ASSUME NEW o, RunSimulation(o) PROVE StreamEffect
    BY <2>4, <1>n, <1>r, <1>t DEF RunSimulation, Ask, StreamEffect, Restarts
  <2>5. QED
    BY <1>4, <2>1, <2>2, <2>3, <2>4, GetStepEffect DEF HandlerStep
<1>5. CASE Simulation
  BY <1>5, <1>n DEF Simulation, StreamEffect, Restarts, historyVars, httpVars
<1>6. CASE UNCHANGED vars
  BY <1>6, <1>n DEF vars, StreamEffect, Restarts, historyVars, httpVars
<1>7. QED
  BY <1>1, <1>2, <1>3, <1>4, <1>5, <1>6 DEF Next, Poll

GapsInv == Total(Gaps, Conns) <= refusals

LEMMA GapsType ==
  ASSUME IsFiniteSet(Conns), ObservationInv
  PROVE  /\ Gaps \in [Conns -> Int] /\ Total(Gaps, Conns) \in Int
         /\ \A c \in Conns : Gaps[c] = Gap(sent[c]) /\ Gaps[c] \in Nat
<1>1. \A c \in Conns : Gap(sent[c]) \in Nat
  BY GapType DEF ObservationInv, ShapeOK
<1>2. PICK f : f = Gaps
  OBVIOUS
<1>3. f \in [Conns -> Int] /\ \A c \in Conns : f[c] = Gap(sent[c]) /\ f[c] \in Nat
  BY <1>1, <1>2 DEF Gaps
<1>4. Total(f, Conns) \in Int
  BY <1>3, ConnsTotalType
<1>5. QED
  BY <1>2, <1>3, <1>4

LEMMA NextGaps ==
  ASSUME IsFiniteSet(Conns), ObservationInv, ObservationInv', GapsInv, [Next]_vars
  PROVE  GapsInv'
<1>1. PICK f, g : f = Gaps /\ g = Gaps'
  OBVIOUS
<1>2. /\ f \in [Conns -> Int] /\ Total(f, Conns) \in Int
      /\ \A c \in Conns : f[c] = Gap(sent[c]) /\ f[c] \in Nat
  BY <1>1, GapsType
<1>3. /\ g \in [Conns -> Int] /\ Total(g, Conns) \in Int
      /\ \A c \in Conns : g[c] = Gap(sent'[c]) /\ g[c] \in Nat
  <2>1. (/\ Gaps \in [Conns -> Int] /\ Total(Gaps, Conns) \in Int
         /\ \A c \in Conns : Gaps[c] = Gap(sent[c]) /\ Gaps[c] \in Nat)'
    BY GapsType, PTL
  <2>2. QED
    BY <1>1, <2>1
<1>4. Total(f, Conns) <= refusals /\ refusals \in Nat /\ refusals' \in Nat
  BY <1>1 DEF GapsInv, ObservationInv, ShapeOK, HttpTypeOK, BudgetAssumption
<1>5. CASE Restarts
  <2>1. \A c \in Conns : g[c] <= f[c]
    BY <1>2, <1>3, <1>5, GapOfNothing DEF Restarts
  <2>2. Total(g, Conns) <= Total(f, Conns)
    BY <1>2, <1>3, <2>1, ConnsTotalMonotone
  <2>3. QED
    BY <1>1, <1>2, <1>3, <1>4, <1>5, <2>2 DEF GapsInv, Restarts
<1>6. ASSUME NEW c \in Conns, NEW x, Sends(c, x)
      PROVE  GapsInv'
  <2> USE <1>6 DEF Sends
  <2>1. sent \in [Conns -> Seq(Sent)]
    BY DEF ObservationInv, ShapeOK
  <2>2. g[c] = f[c] + (IF x = Missing THEN 1 ELSE 0)
    <3>1. Gap(Append(sent[c], x)) = Gap(sent[c]) + (IF x = Missing THEN 1 ELSE 0)
      BY <2>1, GapAppend
    <3>2. QED
      BY <1>2, <1>3, <1>6, <2>1, <3>1
  <2>3. \A d \in Conns \ {c} : g[d] = f[d]
    BY <1>2, <1>3, <1>6, <2>1
  <2>4. Total(g, Conns) = Total(f, Conns) + (g[c] - f[c])
    BY <1>2, <1>3, <2>3, ConnsTotalChanged
  <2>5. QED
    BY <1>1, <1>2, <1>3, <1>4, <1>6, <2>2, <2>4 DEF GapsInv
<1>7. QED
  BY <1>5, <1>6, NextStream DEF StreamEffect

LEMMA InitGaps == ASSUME IsFiniteSet(Conns), Init PROVE GapsInv
<1>1. ObservationInv
  BY InitObservation
<1>2. PICK f : f = Gaps
  OBVIOUS
<1>3. f \in [Conns -> Int] /\ \A c \in Conns : f[c] = 0
  BY <1>2, GapOfNothing DEF Init, Gaps
<1>4. \A c \in Conns : f[c] = 0 * f[c]
  BY <1>3
<1>5. Total(f, Conns) = 0 * Total(f, Conns) /\ Total(f, Conns) \in Int
  BY <1>3, <1>4, TotalScaled, TotalType
<1>6. \A n \in Int : n = 0 * n => n = 0
  OBVIOUS
<1>7. QED
  BY <1>2, <1>5, <1>6 DEF Init, HttpInit, GapsInv

\* A step that a player was due is passed over only where its request was refused:
\* over all players together, the gaps are no more than the refusals (see
\* GapsAreRefusals).
THEOREM GapsAlwaysHaveACause == ASSUME IsFiniteSet(Conns) PROVE Spec => []GapsAreRefusals
<1>1. Init => GapsInv
  BY InitGaps
<1>2. ObservationInv /\ ObservationInv' /\ GapsInv /\ [Next]_vars => GapsInv'
  BY NextGaps
<1>3. ObservationInv /\ GapsInv => GapsAreRefusals
  <2>1. GapSum = Total(Gaps, Conns)
    BY GapSumIsTotal
  <2>2. QED
    BY <2>1 DEF GapsInv, GapsAreRefusals, GapSum
<1>4. QED
  BY <1>1, <1>2, <1>3, ObservationInvariant, PTL DEF Spec
=============================================================================
