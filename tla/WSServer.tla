------------------------------ MODULE WSServer ------------------------------
(* The websocket server: one thread runs the event loop, a handler runs to     *)
(* completion, and every connection has a SessionData in mConnections. A       *)
(* handler is cut here at its requests to the Almanac: "phase" is the request  *)
(* it makes next, "job" the values it still holds, and while phase is not      *)
(* "idle" no other handler runs.                                               *)
EXTENDS Audit

CONSTANTS Conns,        \* connection handles
          Garbage       \* what an uninitialised BiomassAvailable may hold

ASSUME ServerAssumption == Garbage \subseteq Int /\ None \notin Conns

VARIABLES process,      \* "down", "listening", or "closed": up, but it accepts
                        \* no new connections
          conns,        \* the keys of mConnections
          user,         \* SessionData::UserName
          biomass,      \* SessionData::BiomassAvailable
          pos,          \* SessionData::Position
          phase,        \* the next request of the running handler
          job,          \* its local variables
          listed        \* the listing a deployment works through

sessionVars == <<conns, user, biomass, pos>>
handlerVars == <<phase, job, listed>>

Phases == {"idle", "warp_pay", "extract_put", "extract_delete", "extract_credit",
           "deploy_dilute", "deploy_pay", "deploy_post", "reload"}

Job(c, p, s, amount, rest) ==
    [conn |-> c, planet |-> p, name |-> s, amount |-> amount, rest |-> rest]
NoJob == Job(None, None, None, 0, 0)

\* The event loop is free to start a handler of connection c.
Free(c) == process # "down" /\ phase = "idle" /\ c \in conns

\* The handler goes on to the request ph; or it returns.
Await(ph, j) == phase' = ph /\ job' = j
Return == Await("idle", NoJob) /\ listed' = NoSpecies

\* The process is still there, with the same connections.
StayUp == UNCHANGED <<process, conns, user>>

\* An exception nothing catches, or the end of main: the memory of the process
\* and all its sessions are gone, the Almanac stays as it is.
Terminate ==
    /\ process' = "down"
    /\ conns' = {}
    /\ user' = [c \in Conns |-> None]
    /\ biomass' = [c \in Conns |-> 0]
    /\ pos' = [c \in Conns |-> None]
    /\ Return
    /\ ForgetPlanets

\* main: the constructors fill the planet manager, then RunServer listens.
Start ==
    /\ process = "down"
    /\ \E reached, unlisted \in SUBSET Planets :
          /\ LoadPlanets(reached, unlisted)
          /\ \/ reached = Planets /\ unlisted = {} /\ UNCHANGED refusals
             \/ /\ ~(reached = Planets /\ unlisted = {})
                /\ refusals < MaxRefusals /\ refusals' = refusals + 1
    /\ process' = "listening"
    /\ UNCHANGED <<failures, dbVars, auditVars, ops, sessionVars, handlerVars>>

\* A fresh SessionData: no name; balance and position are not initialised.
OnConnectionOpen(c) ==
    /\ process = "listening" /\ phase = "idle" /\ c \notin conns
    /\ conns' = conns \cup {c}
    /\ \E g \in Garbage : biomass' = [biomass EXCEPT ![c] = g]
    /\ \E d \in Places : pos' = [pos EXCEPT ![c] = d]
    /\ UNCHANGED <<process, user, handlerVars, planetVars, httpVars, dbVars,
                   auditVars, ops>>

OnConnectionClose(c) ==
    /\ Free(c)
    /\ conns' = conns \ {c}
    /\ user' = [user EXCEPT ![c] = None]
    /\ biomass' = [biomass EXCEPT ![c] = 0]
    /\ pos' = [pos EXCEPT ![c] = None]
    /\ UNCHANGED <<process, handlerVars, planetVars, httpVars, dbVars, auditVars, ops>>

\* ControlEndpoint: STOP_LISTENING closes the acceptor; asked a second time,
\* stop_listening throws out of the event loop.
StopListening(c) ==
    /\ Free(c)
    /\ \/ /\ process = "listening"
          /\ process' = "closed"
          /\ UNCHANGED <<sessionVars, handlerVars, planetVars>>
       \/ process = "closed" /\ Terminate
    /\ UNCHANGED <<httpVars, dbVars, auditVars, ops>>

\* With the acceptor closed and no connection left the event loop has no work:
\* run returns, and main with it.
RunOutOfWork ==
    /\ process = "closed" /\ conns = {} /\ phase = "idle"
    /\ Terminate
    /\ UNCHANGED <<httpVars, dbVars, auditVars, ops>>

\* What a command that is paid for leaves of the balance. A wrong variant first:
\* the payment is forgotten.
NoPayment == biomass[job.conn]
AfterPayment == biomass[job.conn] - job.amount

\* A wrong variant: the balance is saved before it is changed.
SaveEarly(o, c, balance) ==
    /\ Request(o)
    /\ PutBiomass(o, user[c], biomass[c])
    /\ NoteWrite(o, user[c])

\* GameDBUtils::SaveBiomassValue: the whole balance of the session is written, not the change.
SaveBiomass(o, c, balance) ==
    /\ Request(o)
    /\ PutBiomass(o, user[c], balance)
    /\ NoteWrite(o, user[c])

ServerInit ==
    /\ process = "down"
    /\ conns = {}
    /\ user = [c \in Conns |-> None]
    /\ biomass = [c \in Conns |-> 0]
    /\ pos = [c \in Conns |-> None]
    /\ phase = "idle" /\ job = NoJob /\ listed = NoSpecies

Jobs == [conn: Conns \cup {None}, planet: Planets \cup {None},
         name: Species \cup {None}, amount: Int, rest: Int]

ServerTypeOK ==
    /\ process \in {"down", "listening", "closed"}
    /\ conns \subseteq Conns
    /\ user \in [Conns -> Users \cup {None}]
    /\ biomass \in [Conns -> Int]
    /\ pos \in [Conns -> Places \cup {None}]
    /\ phase \in Phases
    /\ job \in Jobs
    /\ listed \in [Species -> Percentages]
=============================================================================
