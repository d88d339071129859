------------------------ MODULE CreatureObservation ------------------------
(* The creature observation service with its sessions and the simulation       *)
(* server, and what a player who watches creatures relies on.                  *)
EXTENDS CreatureObservationService, FiniteSetsExt

vars == <<httpVars, simulationVars, sessionVars, mConnections, handlerVars,
          historyVars>>

Init ==
    /\ HttpInit /\ SimulationInit
    /\ process = "down" /\ conns = {}
    /\ simId = [c \in Conns |-> SIM_SERVER_ID_INVALID]
    /\ mConnections = NoConnections
    /\ phase = "idle" /\ job = NoJob
    /\ asked = [c \in Conns |-> NotAsked] /\ sent = [c \in Conns |-> <<>>]

HandlerStep ==
    \/ PollReturn
    \/ \E o \in Outcomes :
          \/ Created(o) \/ NotCreated(o) \/ CreateBroken(o)
          \/ ListSpecies(o) \/ RunSimulation(o) \/ GetSpecies(o)
          \/ ReadAndReturn(o)
          \/ CountSteps(o) \/ GetStep(o)

\* The simulation server works on its own.
Simulation ==
    /\ \E r \in Runs : Load(r) \/ Produce(r)
    /\ UNCHANGED <<httpVars, sessionVars, mConnections, handlerVars, historyVars>>

Poll(c) == CreatureObservationEndpoint(c, "POLL", 0)

Next ==
    \/ \E o \in Outcomes : Start(o)
    \/ \E c \in Conns :
          \/ OnConnectionOpen(c) \/ OnConnectionClose(c)
          \/ Poll(c) \/ CreatureObservationEndpoint(c, "GET_STATS", 0)
          \/ \E e \in Epochs : CreatureObservationEndpoint(c, "GO_TO_EPOCH", e)
    \/ HandlerStep
    \/ Simulation

Spec == Init /\ [][Next]_vars

\* A handler that has started goes on: its calls are synchronous, and each ends.
FairSpec == Spec /\ WF_vars(HandlerStep)
-----------------------------------------------------------------------------
Phases == {"idle", "create", "list", "simulate", "species", "environment", "stats",
           "count", "steps"}

Sent == [epoch: Epochs, step: 0..RunLength, run: Runs] \cup {Missing}

TypeOK ==
    /\ HttpTypeOK /\ SimulationTypeOK
    /\ process \in {"down", "listening"} /\ conns \subseteq Conns
    /\ simId \in [Conns -> Sims \cup {SIM_SERVER_ID_INVALID}]
    /\ mConnections \in [Sims -> [Epoch: Nat, Step: 0..RunLength]]
    /\ phase \in Phases
    /\ job \in [conn: Conns \cup {None}, command: Commands, epoch: Nat,
                tries: 0..(MAX_RETRIES - 1), step: 0..RunLength, latest: 0..RunLength]
    /\ asked \in [Conns -> [epoch: Nat, run: 0..MaxRuns]]
    /\ \A c \in Conns : sent[c] \in Seq(Sent) /\ Len(sent[c]) <= RunLength

Obtained(c) == {i \in DOMAIN sent[c] : sent[c][i] # Missing}

\* Since its last GO_TO_EPOCH a player is sent the steps of one run in order from
\* the first, none of them twice, over however many POLLs: the position is reset
\* with the run and moves on with what was sent.
InOrder ==
    \A c \in Conns : \A i \in Obtained(c) :
        /\ sent[c][i].step = i - 1
        /\ \A k \in Obtained(c) : sent[c][k].run = sent[c][i].run

\* They are steps of the epoch he asked for, and of the run GO_TO_EPOCH started,
\* unless the simulation server was not reached and an earlier run is still there.
AsAsked ==
    \A c \in Conns : \A i \in Obtained(c) :
        /\ sent[c][i].epoch = asked[c].epoch
        /\ asked[c].run # 0 => sent[c][i].run = asked[c].run

\* A step is passed over without being obtained only where its request was
\* refused, or its answer could not be read: no step is asked for before it is
\* produced.
GapsAreRefusals ==
    MapThenSumSet(LAMBDA c : Len(sent[c]) - Cardinality(Obtained(c)), Conns) <= refusals

\* Between two commands the position kept for a player is the number of steps he
\* was sent: what he has not been sent yet will be, even after a POLL that was
\* refused and reads as SIM_DONE.
NothingSkipped ==
    phase = "idle" => \A c \in conns :
        simId[c] # SIM_SERVER_ID_INVALID => mConnections[simId[c]].Step = Len(sent[c])

\* Every command comes to its end, even while the epoch is never found: the
\* retries of GetSpecies are bounded.
ObservationCompletes == phase # "idle" ~> phase = "idle"

\* A player whose session stays on one run, and who goes on polling, is sent all
\* of it, also where some connections are refused; provided that the simulation
\* server goes on with the runs it accepted.
KeepsUp ==
    WF_vars(Simulation) =>
        \A c \in Conns, r \in Runs :
            <>[](asked[c].run = r) /\ []<><<Poll(c)>>_vars => <>(Len(sent[c]) = RunLength)
=============================================================================
