-------------------------- MODULE SimulationServer --------------------------
(* The simulation server, a process of its own that the creature observation   *)
(* service drives over HTTP; known only from how that service uses it. It      *)
(* gives out simulations by number. A simulation runs epochs: a run is loaded  *)
(* some time after it was asked for (until then its species are not found) and *)
(* from then on it produces its steps one by one.                              *)
EXTENDS HttpClient

CONSTANTS Sims,         \* the numbers of the simulations it can give out
          Epochs,       \* the epochs a player asks for
          RunLength,    \* the steps of a run, 100 in RunSimulation
          MaxRuns       \* bound of the model: runs in a behaviour

ASSUME SimulationAssumption ==
    /\ Sims \subseteq Nat /\ Epochs \subseteq Nat
    /\ RunLength \in Nat /\ MaxRuns \in Nat

VARIABLES issued,       \* the simulations given out; none is ever taken back
          run,          \* run[s][e]: the latest run of epoch e, 0 if there is none
          started,      \* the runs so far are 1..started
          loaded,       \* the runs that have been loaded
          produced      \* produced[r]: the steps run r has produced

simulationVars == <<issued, run, started, loaded, produced>>

Runs == 1..MaxRuns

\* POST /simulations/add
AddSimulation(s) ==
    /\ s \in Sims \ issued
    /\ issued' = issued \cup {s}
    /\ UNCHANGED <<run, started, loaded, produced>>

\* POST /simulations/<s>/epochs/simulate, with ForceRestart: the epoch is run
\* again from the start, and the run it replaces is gone.
Simulate(s, e) ==
    /\ started < MaxRuns
    /\ started' = started + 1
    /\ run' = [run EXCEPT ![s] = [run[s] EXCEPT ![e] = started + 1]]
    /\ UNCHANGED <<issued, loaded, produced>>

\* The run that requests on epoch e of simulation s are about.
RunOf(s, e) == IF s \in Sims /\ e \in Epochs THEN run[s][e] ELSE 0

\* What GET .../epochs/<e> says of its steps; nothing while it is not loaded.
StepsOf(s, e) == IF RunOf(s, e) \in loaded THEN produced[RunOf(s, e)] ELSE 0

Current(r) == \E s \in Sims, e \in Epochs : run[s][e] = r

Load(r) ==
    /\ r \in 1..started /\ r \notin loaded /\ Current(r)
    /\ loaded' = loaded \cup {r}
    /\ UNCHANGED <<issued, run, started, produced>>

Produce(r) ==
    /\ r \in loaded /\ Current(r) /\ produced[r] < RunLength
    /\ produced' = [produced EXCEPT ![r] = produced[r] + 1]
    /\ UNCHANGED <<issued, run, started, loaded>>

SimulationInit ==
    /\ issued = {} /\ started = 0 /\ loaded = {}
    /\ run = [s \in Sims |-> [e \in Epochs |-> 0]]
    /\ produced = [r \in Runs |-> 0]

SimulationTypeOK ==
    /\ issued \subseteq Sims
    /\ started \in 0..MaxRuns
    /\ run \in [Sims -> [Epochs -> 0..MaxRuns]]
    /\ loaded \subseteq Runs
    /\ produced \in [Runs -> 0..RunLength]
=============================================================================
