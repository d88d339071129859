-------------------------- MODULE GameServer_proofs --------------------------
(* Proofs about GameServer, for every value of its constants: the types; the   *)
(* planets (the shares of the species, the server's copy of them, how a        *)
(* species disappears, and how much there is of them together); and the        *)
(* accounts (the balances are never overdrawn nor minted, a sound account is   *)
(* written through, a failure costs at most the command it interrupts, and     *)
(* every account moves as an Account does).                                    *)
EXTENDS GameServer, FiniteSums

\* Dividing by w, and rounding down.

LEMMA QuotientNat == ASSUME NEW w \in Nat \ {0}, NEW a \in Nat PROVE a \div w \in Nat
  OBVIOUS

LEMMA QuotientRoundsDown ==
  ASSUME NEW w \in Nat \ {0}, NEW a \in Nat PROVE (a \div w) * w <= a
  OBVIOUS

LEMMA QuotientAtMost ==
  ASSUME NEW w \in Nat \ {0}, NEW a \in Nat, NEW n \in Nat, a <= n * w
  PROVE  a \div w <= n
  OBVIOUS

LEMMA PartOfProduct ==
  ASSUME NEW v \in Nat, NEW w \in Nat, NEW b \in 0..w
  PROVE  v * (w - b) \in Nat /\ v * (w - b) <= v * w
  OBVIOUS

\* Products, for the sums of weights.

LEMMA ProductBelow ==
  ASSUME NEW c \in Nat, NEW v \in Int, NEW w \in Int, v <= w
  PROVE  c * v <= c * w /\ c * v \in Int /\ c * w \in Int
  OBVIOUS

LEMMA ProductCancels ==
  ASSUME NEW c \in Nat \ {0}, NEW v \in Int, NEW w \in Int, c * v <= c * w
  PROVE  v <= w
<1>1. CASE v >= w + 1
  <2>1. c * v >= c * (w + 1)
    BY <1>1, ProductBelow
  <2>2. c * (w + 1) = c * w + c /\ c * w \in Int /\ c * v \in Int
    OBVIOUS
  <2>3. QED
    BY <2>1, <2>2
<1>2. QED
  BY <1>1

LEMMA ProductInt == ASSUME NEW a \in Int, NEW b \in Int PROVE a * b \in Int /\ a * b = b * a
  OBVIOUS

\* The sum over the species, when one of them changes.
LEMMA SpeciesTotalChanged ==
  ASSUME IsFiniteSet(Species), NEW f, NEW g, NEW s \in Species,
         f \in [Species -> Int], g \in [Species -> Int],
         \A r \in Species \ {s} : g[r] = f[r]
  PROVE  Total(g, Species) = Total(f, Species) + (g[s] - f[s])
  BY TotalChanged

\* And when all are multiplied.
LEMMA SpeciesTotalScaled ==
  ASSUME IsFiniteSet(Species), NEW f, NEW g, NEW c \in Int, f \in [Species -> Int],
         \A r \in Species : g[r] = c * f[r]
  PROVE  Total(g, Species) = c * Total(f, Species) /\ Total(f, Species) \in Int
<1>1. Total(g, Species) = c * Total(f, Species)
  BY TotalScaled
<1>2. Total(f, Species) \in Int
  BY TotalType
<1>3. QED
  BY <1>1, <1>2

USE BudgetAssumption, AlmanacAssumption, OpsAssumption, ServerAssumption,
    CostAssumption, OrbitalAssumption

ExtractPhases == {"extract_put", "extract_delete", "extract_credit"}
DeployPhases  == {"deploy_dilute", "deploy_pay", "deploy_post"}

\* What a handler that awaits ph holds in its variables j: a live connection and
\* the values its command was accepted with.
Fits(ph, j) ==
    /\ j.conn \in conns
    /\ ph # "warp_pay" => j.planet \in Planets /\ j.name \in Species
    /\ ph \in ExtractPhases => j.amount \in ExtractAmounts
    /\ ph \in DeployPhases => j.amount \in DeployAmounts
    /\ ph = "warp_pay" => j.amount \in Fares

JobOK == phase # "idle" => process # "down" /\ Fits(phase, job)

\* Only live connections are logged in, and each of them is somewhere.
SessionsOK ==
    /\ process = "down" => conns = {}
    /\ \A c \in Conns : user[c] # None => c \in conns
    /\ \A c \in conns : pos[c] \in Places

\* The inductive invariant behind TypeOK, in two halves: what survives the
\* process, and the memory of the process.
StoreOK  == HttpTypeOK /\ AlmanacTypeOK /\ AuditTypeOK
MemoryOK == PlanetTypeOK /\ ServerTypeOK /\ JobOK /\ SessionsOK
TypeInv  == StoreOK /\ MemoryOK
-----------------------------------------------------------------------------
LEMMA InitTypeInv == Init => TypeInv
<1> SUFFICES ASSUME Init PROVE TypeInv
  OBVIOUS
<1> USE DEF Init
<1>1. HttpTypeOK
  BY DEF HttpInit, HttpTypeOK, BudgetAssumption
<1>2. AlmanacTypeOK
  BY DEF AlmanacInit, AlmanacTypeOK, AlmanacAssumption, Percentages
<1>3. PlanetTypeOK
  BY DEF PlanetInit, PlanetTypeOK, NoCache, NoSpecies, Percentages
<1>4. AuditTypeOK
  BY DEF AuditInit, AuditTypeOK, OpsAssumption
<1>5. ServerTypeOK
  BY DEF ServerInit, ServerTypeOK, NoJob, Job, Jobs, NoSpecies, Percentages, Phases
<1>6. JobOK /\ SessionsOK
  BY DEF ServerInit, JobOK, SessionsOK
<1>7. QED
  BY <1>1, <1>2, <1>3, <1>4, <1>5, <1>6 DEF TypeInv, StoreOK, MemoryOK

-----------------------------------------------------------------------------
\* The steps all handlers are made of keep the types.

LEMMA RequestType ==
  ASSUME HttpTypeOK, NEW o, Request(o)
  PROVE  HttpTypeOK'
  BY DEF HttpTypeOK, Request, BudgetAssumption, Outcomes, Returns, ReadsEmpty

LEMMA PutBiomassType ==
  ASSUME AlmanacTypeOK, NEW o, NEW u \in Users \cup {None}, NEW b \in Int,
         PutBiomass(o, u, b), UNCHANGED <<dbPos, shares>>
  PROVE  AlmanacTypeOK'
  BY DEF AlmanacTypeOK, PutBiomass

LEMMA PutPositionType ==
  ASSUME AlmanacTypeOK, NEW o, NEW u \in Users \cup {None}, NEW d \in Places,
         PutPosition(o, u, d), UNCHANGED <<dbBiomass, hasBiomass, shares>>
  PROVE  AlmanacTypeOK'
  BY DEF AlmanacTypeOK, PutPosition

LEMMA SetShareType ==
  ASSUME AlmanacTypeOK, NEW p \in Planets, NEW s \in Species, NEW v \in Percentages,
         SetShare(p, s, v), UNCHANGED <<dbBiomass, hasBiomass, dbPos>>
  PROVE  AlmanacTypeOK'
  BY DEF AlmanacTypeOK, SetShare

LEMMA TallyType ==
  ASSUME NEW book \in [Users -> Nat], NEW u \in Users \cup {None}, NEW n \in Nat
  PROVE  Tally(book, u, n) \in [Users -> Nat]
  BY DEF Tally

\* A deployment has a price or a credit, and never both.
LEMMA PriceType ==
  ASSUME NEW b \in Int
  PROVE  Price(b) \in Nat /\ Credit(b) \in Nat /\ b = Price(b) - Credit(b)
  BY DEF Price, Credit
LEMMA ListingType ==
  ASSUME AlmanacTypeOK, NEW o, NEW p \in Planets
  PROVE  Listing(o, p) \in [Species -> Percentages]
  BY DEF AlmanacTypeOK, Listing, NoSpecies, Percentages

\* The end of the process leaves its memory as it was at first.
LEMMA TerminateType ==
  ASSUME Terminate
  PROVE  MemoryOK'
<1>1. PlanetTypeOK'
  BY DEF Terminate, ForgetPlanets, PlanetTypeOK, NoCache, NoSpecies, Percentages
<1>2. ServerTypeOK'
  BY DEF Terminate, Return, Await, ServerTypeOK, NoJob, Job, Jobs, NoSpecies, Percentages, Phases
<1>3. JobOK' /\ SessionsOK'
  BY DEF Terminate, Return, Await, JobOK, SessionsOK
<1>4. QED
  BY <1>1, <1>2, <1>3 DEF MemoryOK

\* A handler that goes on to a request it has the values for.
LEMMA AwaitType ==
  ASSUME TypeInv, process # "down",
         NEW ph \in Phases \ {"idle"}, NEW j \in Jobs, Fits(ph, j), Await(ph, j),
         StayUp, UNCHANGED planetVars,
         biomass' \in [Conns -> Int], pos' \in [Conns -> Places \cup {None}],
         \A c \in conns : pos'[c] \in Places,
         listed' \in [Species -> Percentages]
  PROVE  MemoryOK'
<1> USE DEF TypeInv, MemoryOK, StayUp, Await
<1>1. PlanetTypeOK'
  BY DEF PlanetTypeOK, planetVars
<1>2. ServerTypeOK'
  BY DEF ServerTypeOK
<1>3. JobOK'
  BY DEF JobOK, Fits
<1>4. SessionsOK'
  BY DEF SessionsOK
<1>5. QED
  BY <1>1, <1>2, <1>3, <1>4

\* A handler that returns.
LEMMA ReturnType ==
  ASSUME TypeInv, process # "down", Return, StayUp, PlanetTypeOK',
         biomass' \in [Conns -> Int], UNCHANGED pos
  PROVE  MemoryOK'
<1> USE DEF TypeInv, MemoryOK, StayUp, Await, Return
<1>1. ServerTypeOK'
  BY DEF ServerTypeOK, NoJob, Job, Jobs, NoSpecies, Percentages, Phases
<1>2. JobOK' /\ SessionsOK'
  BY DEF JobOK, SessionsOK
<1>3. QED
  BY <1>1, <1>2
-----------------------------------------------------------------------------
\* Every action keeps the type invariant.

LEMMA LifecycleType == TypeInv /\ Lifecycle => TypeInv'
<1> SUFFICES ASSUME TypeInv, Lifecycle PROVE TypeInv'
  OBVIOUS
<1> USE DEF TypeInv
<1>1. CASE Start
  <2>1. StoreOK'
    BY <1>1 DEF Start, StoreOK, HttpTypeOK, AlmanacTypeOK, AuditTypeOK, dbVars, auditVars,
             BudgetAssumption
  <2>2. PlanetTypeOK'
    BY <1>1 DEF Start, LoadPlanets, PlanetTypeOK, StoreOK, AlmanacTypeOK, NoSpecies,
             Percentages
  <2>3. ServerTypeOK' /\ JobOK' /\ SessionsOK'
    BY <1>1 DEF Start, MemoryOK, ServerTypeOK, JobOK, SessionsOK, Fits, sessionVars,
             handlerVars
  <2>4. QED
    BY <2>1, <2>2, <2>3 DEF MemoryOK
<1>2. CASE RunOutOfWork
  <2>1. StoreOK'
    BY <1>2 DEF RunOutOfWork, StoreOK, HttpTypeOK, AlmanacTypeOK, AuditTypeOK, httpVars,
             dbVars, auditVars
  <2>2. QED
    BY <1>2, <2>1, TerminateType DEF RunOutOfWork
<1>3. ASSUME NEW c \in Conns, OnConnectionOpen(c) PROVE TypeInv'
  <2>1. StoreOK' /\ PlanetTypeOK'
    BY <1>3 DEF OnConnectionOpen, StoreOK, HttpTypeOK, AlmanacTypeOK, AuditTypeOK, httpVars,
             dbVars, auditVars, planetVars, MemoryOK, PlanetTypeOK
  <2>2. ServerTypeOK'
    BY <1>3 DEF OnConnectionOpen, MemoryOK, ServerTypeOK, handlerVars, ServerAssumption
  <2>3. JobOK' /\ SessionsOK'
    BY <1>3 DEF OnConnectionOpen, MemoryOK, ServerTypeOK, JobOK, SessionsOK, handlerVars
  <2>4. QED
    BY <2>1, <2>2, <2>3 DEF MemoryOK
<1>4. ASSUME NEW c \in Conns, OnConnectionClose(c) PROVE TypeInv'
  <2>1. StoreOK' /\ PlanetTypeOK'
    BY <1>4 DEF OnConnectionClose, StoreOK, HttpTypeOK, AlmanacTypeOK, AuditTypeOK, httpVars,
             dbVars, auditVars, planetVars, MemoryOK, PlanetTypeOK
  <2>2. ServerTypeOK'
    BY <1>4 DEF OnConnectionClose, MemoryOK, ServerTypeOK, handlerVars
  <2>3. JobOK' /\ SessionsOK'
    BY <1>4 DEF OnConnectionClose, Free, MemoryOK, ServerTypeOK, JobOK, SessionsOK,
             handlerVars, ServerAssumption
  <2>4. QED
    BY <2>1, <2>2, <2>3 DEF MemoryOK
<1>5. ASSUME NEW c \in Conns, StopListening(c) PROVE TypeInv'
  <2>1. StoreOK'
    BY <1>5 DEF StopListening, StoreOK, HttpTypeOK, AlmanacTypeOK, AuditTypeOK, httpVars,
             dbVars, auditVars
  <2>2. CASE Terminate
    BY <2>1, <2>2, TerminateType
  <2>3. CASE process' = "closed" /\ UNCHANGED <<sessionVars, handlerVars, planetVars>>
    BY <1>5, <2>1, <2>3 DEF Free, StopListening, MemoryOK, PlanetTypeOK, ServerTypeOK, JobOK, Fits,
             SessionsOK, sessionVars, handlerVars, planetVars
  <2>4. QED
    BY <1>5, <2>2, <2>3 DEF StopListening
<1>6. QED
  BY <1>1, <1>2, <1>3, <1>4, <1>5 DEF Lifecycle

LEMMA UserEndpointType ==
  ASSUME TypeInv, NEW c \in Conns, NEW u \in Users, NEW o, UserEndpoint(c, u, o)
  PROVE  TypeInv'
<1> USE DEF TypeInv
<1>1. StoreOK'
  <2>1. HttpTypeOK'
    BY RequestType DEF UserEndpoint, StoreOK
  <2>2. AlmanacTypeOK' /\ AuditTypeOK'
    BY DEF UserEndpoint, StoreOK, AlmanacTypeOK, AuditTypeOK, dbVars
  <2>3. QED
    BY <2>1, <2>2 DEF StoreOK
<1>2. CASE o = "answered"
  <2>1. biomass' \in [Conns -> Int]
    <3>1. BalanceRead(c, u) \in Int
      BY DEF BalanceRead, StoreOK, AlmanacTypeOK, MemoryOK, ServerTypeOK
    <3>2. biomass' = [biomass EXCEPT ![c] = BalanceRead(c, u)]
      BY <1>2 DEF UserEndpoint, Returns, ReadsEmpty
    <3>3. QED
      BY <3>1, <3>2 DEF MemoryOK, ServerTypeOK
  <2>2. PlanetTypeOK' /\ ServerTypeOK'
    <3>1. /\ user' = [user EXCEPT ![c] = u]
          /\ UNCHANGED <<process, conns, pos, phase, job, listed, loaded, cache>>
      BY <1>2 DEF UserEndpoint, Returns, handlerVars, planetVars, ReadsEmpty
    <3>2. QED
      BY <2>1, <3>1 DEF MemoryOK, PlanetTypeOK, ServerTypeOK
  <2>3. JobOK' /\ SessionsOK'
    BY <1>2 DEF UserEndpoint, Free, Returns, MemoryOK, ServerTypeOK, JobOK, Fits, SessionsOK,
             handlerVars, ReadsEmpty
  <2>4. QED
    BY <1>1, <2>2, <2>3 DEF MemoryOK
<1>3. CASE ReadsEmpty(o)
  BY <1>1, <1>3 DEF UserEndpoint, Returns, MemoryOK, PlanetTypeOK, ServerTypeOK, JobOK, Fits,
             SessionsOK, sessionVars, handlerVars, planetVars, ReadsEmpty
<1>4. CASE ~Returns(o)
  BY <1>1, <1>4, TerminateType DEF UserEndpoint, Returns, ReadsEmpty
<1>5. QED
  BY <1>2, <1>3, <1>4 DEF UserEndpoint, Returns, ReadsEmpty

LEMMA MoveToType ==
  ASSUME TypeInv, NEW c \in Conns, NEW d \in Places, MoveTo(c, d)
  PROVE  TypeInv'
<1> USE DEF TypeInv
<1>1. StoreOK' /\ PlanetTypeOK'
  BY DEF MoveTo, StoreOK, HttpTypeOK, AlmanacTypeOK, AuditTypeOK, httpVars, dbVars,
         auditVars, planetVars, MemoryOK, PlanetTypeOK
<1>2. ServerTypeOK' /\ JobOK' /\ SessionsOK'
  BY DEF MoveTo, MemoryOK, ServerTypeOK, JobOK, Fits, SessionsOK, handlerVars
<1>3. QED
  BY <1>1, <1>2 DEF MemoryOK

LEMMA AttemptWarpType ==
  ASSUME TypeInv, NEW c \in Conns, NEW d \in Places, NEW o, AttemptWarp(c, d, o)
  PROVE  TypeInv'
<1> USE DEF TypeInv
<1>1. c \in conns /\ process # "down" /\ user[c] \in Users \cup {None}
      /\ Fare(c, d) \in Nat /\ Fare(c, d) \in Fares
  BY DEF AttemptWarp, Free, CanWarp, Fare, Fares, MemoryOK, ServerTypeOK, SessionsOK,
         CostAssumption
<1>2. StoreOK'
  <2>1. HttpTypeOK'
    BY RequestType DEF AttemptWarp, StoreOK
  <2>2. AlmanacTypeOK'
    BY <1>1, PutPositionType DEF AttemptWarp, StoreOK
  <2>3. flown' \in [Users -> Nat]
    BY <1>1, TallyType DEF AttemptWarp, StoreOK, AuditTypeOK
  <2>4. AuditTypeOK'
    BY <2>3 DEF AttemptWarp, StoreOK, AuditTypeOK, NoteWrite, AcceptCommand, OpsAssumption
  <2>5. QED
    BY <2>1, <2>2, <2>4 DEF StoreOK
<1>3. CASE Returns(o)
  <2> DEFINE j == Job(c, None, None, Fare(c, d), 0)
  <2>1. j \in Jobs /\ Fits("warp_pay", j) /\ "warp_pay" \in Phases \ {"idle"}
    BY <1>1 DEF Job, Jobs, Fits, ExtractPhases, DeployPhases, Phases
  <2>2. Await("warp_pay", j) /\ StayUp /\ UNCHANGED planetVars
    BY <1>3 DEF AttemptWarp, Terminate
  <2>3. /\ biomass' \in [Conns -> Int] /\ pos' \in [Conns -> Places \cup {None}]
        /\ \A e \in conns : pos'[e] \in Places
        /\ listed' \in [Species -> Percentages]
    <3>1. pos' = [pos EXCEPT ![c] = d] /\ UNCHANGED <<biomass, listed>>
      BY <1>3 DEF AttemptWarp
    <3>2. QED
      BY <3>1 DEF MemoryOK, ServerTypeOK, SessionsOK
  <2>4. MemoryOK'
    BY <1>1, <2>1, <2>2, <2>3, AwaitType
  <2>5. QED
    BY <1>2, <2>4
<1>4. CASE ~Returns(o)
  BY <1>2, <1>4, TerminateType DEF AttemptWarp
<1>5. QED
  BY <1>3, <1>4

LEMMA SavePositionType ==
  ASSUME TypeInv, NEW c \in Conns, NEW d \in Places, NEW o, SavePosition(c, d, o)
  PROVE  TypeInv'
<1> USE DEF TypeInv
<1>1. StoreOK'
  <2>1. HttpTypeOK' /\ user[c] \in Users \cup {None}
    BY RequestType DEF SavePosition, StoreOK, MemoryOK, ServerTypeOK
  <2>2. AlmanacTypeOK'
    BY <2>1, PutPositionType DEF SavePosition, StoreOK
  <2>3. AuditTypeOK'
    BY DEF SavePosition, StoreOK, AuditTypeOK, NoteWrite
  <2>4. QED
    BY <2>1, <2>2, <2>3 DEF StoreOK
<1>2. CASE Returns(o)
  <2>1. UNCHANGED <<process, sessionVars, handlerVars, planetVars>>
    BY <1>2 DEF SavePosition
  <2>2. MemoryOK'
    BY <2>1 DEF MemoryOK, PlanetTypeOK, ServerTypeOK, JobOK, Fits, SessionsOK, sessionVars,
            handlerVars, planetVars
  <2>3. QED
    BY <1>1, <2>2
<1>3. QED
  BY <1>1, <1>2, TerminateType DEF SavePosition

\* Saving a balance, with the history variables that go with it.
LEMMA SaveBiomassType ==
  ASSUME StoreOK, NEW o, NEW c, user[c] \in Users \cup {None}, NEW b \in Int,
         SaveBiomass(o, c, b), UNCHANGED <<dbPos, shares, planted, flown, outsized, ops>>,
         granted' \in [Users -> Nat]
  PROVE  StoreOK'
<1>1. HttpTypeOK'
  BY RequestType DEF SaveBiomass, StoreOK
<1>2. AlmanacTypeOK'
  BY PutBiomassType DEF SaveBiomass, StoreOK
<1>3. AuditTypeOK'
  BY DEF SaveBiomass, StoreOK, AuditTypeOK, NoteWrite
<1>4. QED
  BY <1>1, <1>2, <1>3 DEF StoreOK

\* The running handler and its session.
LEMMA RunningType ==
  ASSUME TypeInv, phase # "idle"
  PROVE  /\ process # "down"
         /\ job \in Jobs /\ job.conn \in conns /\ job.conn \in Conns
         /\ user[job.conn] \in Users \cup {None}
         /\ biomass[job.conn] \in Int
         /\ job.amount \in Int
         /\ Fits(phase, job)
  BY DEF TypeInv, MemoryOK, JobOK, Fits, ServerTypeOK, Jobs

LEMMA WarpPayType ==
  ASSUME TypeInv, NEW o, WarpPay(o)
  PROVE  TypeInv'
<1> USE DEF TypeInv
<1>1. phase # "idle" /\ AfterPayment \in Int
  BY RunningType DEF WarpPay, AfterPayment
<1>2. StoreOK'
  <2>1. granted' \in [Users -> Nat]
    BY DEF WarpPay, StoreOK, AuditTypeOK
  <2>2. QED
    BY <1>1, <2>1, RunningType, SaveBiomassType DEF WarpPay
<1>3. CASE Returns(o)
  <2>1. /\ biomass' = [biomass EXCEPT ![job.conn] = AfterPayment]
        /\ Return /\ StayUp /\ UNCHANGED <<pos, planetVars>>
    BY <1>3 DEF WarpPay
  <2>2. PlanetTypeOK' /\ biomass' \in [Conns -> Int]
    BY <1>1, <2>1 DEF MemoryOK, PlanetTypeOK, ServerTypeOK, planetVars
  <2>3. QED
    BY <1>1, <1>2, <2>1, <2>2, RunningType, ReturnType
<1>4. QED
  BY <1>2, <1>3, TerminateType DEF WarpPay

LEMMA DeployPayType ==
  ASSUME TypeInv, NEW o, DeployPay(o)
  PROVE  TypeInv'
<1> USE DEF TypeInv
<1>1. phase = "deploy_pay" /\ AfterPayment \in Int
  BY RunningType DEF DeployPay, AfterPayment
<1>2. StoreOK'
  <2>1. granted' \in [Users -> Nat]
    BY <1>1, RunningType, PriceType, TallyType DEF DeployPay, StoreOK, AuditTypeOK
  <2>2. QED
    BY <1>1, <2>1, RunningType, SaveBiomassType DEF DeployPay
<1>3. CASE Returns(o)
  <2>1. /\ biomass' = [biomass EXCEPT ![job.conn] = AfterPayment]
        /\ Await("deploy_post", job) /\ StayUp /\ UNCHANGED <<pos, listed, planetVars>>
    BY <1>3 DEF DeployPay
  <2>2. /\ biomass' \in [Conns -> Int] /\ pos' \in [Conns -> Places \cup {None}]
        /\ \A e \in conns : pos'[e] \in Places
        /\ listed' \in [Species -> Percentages]
    BY <1>1, <2>1 DEF MemoryOK, ServerTypeOK, SessionsOK
  <2>3. Fits("deploy_post", job) /\ "deploy_post" \in Phases \ {"idle"}
    BY <1>1, RunningType DEF Fits, DeployPhases, ExtractPhases, Phases
  <2>4. QED
    BY <1>1, <1>2, <2>1, <2>2, <2>3, RunningType, AwaitType
<1>4. QED
  BY <1>2, <1>3, TerminateType DEF DeployPay

LEMMA ExtractCreditType ==
  ASSUME TypeInv, NEW o, ExtractCredit(o)
  PROVE  TypeInv'
<1> USE DEF TypeInv
<1>1. phase = "extract_credit" /\ Yield[job.amount] \in Nat
  BY RunningType DEF ExtractCredit, Fits, ExtractPhases, OrbitalAssumption
<1>2. biomass[job.conn] + Yield[job.amount] \in Int
  BY <1>1, RunningType
<1>3. StoreOK'
  <2>1. granted' \in [Users -> Nat]
    BY <1>1, RunningType, TallyType DEF ExtractCredit, StoreOK, AuditTypeOK
  <2>2. QED
    BY <1>1, <1>2, <2>1, RunningType, SaveBiomassType DEF ExtractCredit
<1>4. CASE Returns(o)
  <2>1. /\ biomass' = [biomass EXCEPT ![job.conn] = biomass[job.conn] + Yield[job.amount]]
        /\ Await("reload", job) /\ StayUp /\ UNCHANGED <<pos, listed, planetVars>>
    BY <1>4 DEF ExtractCredit
  <2>2. /\ biomass' \in [Conns -> Int] /\ pos' \in [Conns -> Places \cup {None}]
        /\ \A e \in conns : pos'[e] \in Places
        /\ listed' \in [Species -> Percentages]
    BY <1>2, <2>1 DEF MemoryOK, ServerTypeOK, SessionsOK
  <2>3. Fits("reload", job) /\ "reload" \in Phases \ {"idle"}
    BY <1>1, RunningType DEF Fits, DeployPhases, ExtractPhases, Phases
  <2>4. QED
    BY <1>1, <1>3, <2>1, <2>2, <2>3, RunningType, AwaitType
<1>5. QED
  BY <1>3, <1>4, TerminateType DEF ExtractCredit

\* A step that ends the process and touches nothing else.
LEMMA EndType ==
  ASSUME TypeInv, Terminate, UNCHANGED <<httpVars, dbVars, auditVars, ops>>
  PROVE  TypeInv'
<1>1. StoreOK'
  BY DEF TypeInv, StoreOK, HttpTypeOK, AlmanacTypeOK, AuditTypeOK, httpVars, dbVars, auditVars
<1>2. QED
  BY <1>1, TerminateType DEF TypeInv

\* A step that goes on without touching a session.
LEMMA GoOnType ==
  ASSUME TypeInv, process # "down",
         NEW ph \in Phases \ {"idle"}, NEW j \in Jobs, Fits(ph, j), Await(ph, j),
         StayUp, UNCHANGED <<biomass, pos, planetVars>>,
         listed' \in [Species -> Percentages]
  PROVE  MemoryOK'
<1>1. /\ biomass' \in [Conns -> Int] /\ pos' \in [Conns -> Places \cup {None}]
      /\ \A c \in conns : pos'[c] \in Places
  BY DEF TypeInv, MemoryOK, ServerTypeOK, SessionsOK
<1>2. QED
  BY <1>1, AwaitType

\* A step whose only effect outside the process is on the shares.
LEMMA SharesStoreType ==
  ASSUME StoreOK, NEW o, Request(o), AlmanacTypeOK',
         granted' \in [Users -> Nat], planted' \in [Users -> Nat],
         flown' \in [Users -> Nat], sound' \subseteq Users, outsized' \subseteq Planets,
         ops' \in 0..MaxOps
  PROVE  StoreOK'
<1>1. HttpTypeOK'
  BY RequestType DEF StoreOK
<1>2. QED
  BY <1>1 DEF StoreOK, AuditTypeOK

LEMMA NoteType ==
  ASSUME AuditTypeOK, NEW o, NEW u, NoteWrite(o, u)
  PROVE  sound' \subseteq Users
  BY DEF AuditTypeOK, NoteWrite

LEMMA ExtractQueryType ==
  ASSUME TypeInv, NEW c \in Conns, NEW p \in Planets, NEW s \in Species,
         NEW x \in ExtractAmounts, NEW o, ExtractQuery(c, p, s, x, o)
  PROVE  TypeInv'
<1> USE DEF TypeInv
<1>1. c \in conns /\ process # "down"
  BY DEF ExtractQuery, Free
<1>2. StoreOK'
  <2>1. AlmanacTypeOK'
    BY DEF ExtractQuery, StoreOK, AlmanacTypeOK, dbVars
  <2>2. ops' \in 0..MaxOps
    BY DEF ExtractQuery, AcceptCommand, StoreOK, AuditTypeOK, OpsAssumption
  <2>3. QED
    BY <2>1, <2>2, SharesStoreType DEF ExtractQuery, StoreOK, AuditTypeOK, auditVars
<1>3. CASE Terminate
  BY <1>2, <1>3, TerminateType
<1>4. CASE UNCHANGED <<process, sessionVars, handlerVars, planetVars>>
  BY <1>2, <1>4 DEF MemoryOK, PlanetTypeOK, ServerTypeOK, JobOK, Fits, SessionsOK,
            sessionVars, handlerVars, planetVars
<1>5. CASE /\ Reading(o, p, s) # Null
           /\ Await("extract_put", Job(c, p, s, x, Reading(o, p, s) - x))
           /\ StayUp /\ UNCHANGED <<biomass, pos, listed, planetVars>>
  <2> DEFINE j == Job(c, p, s, x, Reading(o, p, s) - x)
  <2>1. Reading(o, p, s) \in Int
    BY <1>5 DEF Reading, StoreOK, AlmanacTypeOK, Percentages
  <2>2. x \in ExtractAmounts /\ x \in Int
    BY DEF OrbitalAssumption
  <2>3. j \in Jobs
    BY <2>1, <2>2 DEF Job, Jobs
  <2>4. Fits("extract_put", j) /\ "extract_put" \in Phases \ {"idle"}
    BY <1>1, <2>2 DEF Job, Fits, ExtractPhases, DeployPhases, Phases
  <2>5. listed' \in [Species -> Percentages]
    BY <1>5 DEF MemoryOK, ServerTypeOK
  <2> HIDE DEF j
  <2>6. Await("extract_put", j)
    BY <1>5 DEF j
  <2>7. QED
    BY <1>1, <1>2, <1>5, <2>3, <2>4, <2>5, <2>6, GoOnType
<1>6. QED
  BY <1>3, <1>4, <1>5 DEF ExtractQuery

LEMMA ExtractPutType ==
  ASSUME TypeInv, NEW o, ExtractPut(o)
  PROVE  TypeInv'
<1> USE DEF TypeInv
<1>1. phase = "extract_put"
  BY DEF ExtractPut
<1>2. job.planet \in Planets /\ job.name \in Species
  BY <1>1, RunningType DEF Fits
<1>3. AlmanacTypeOK'
  <2>1. CASE UNCHANGED shares
    BY <2>1 DEF ExtractPut, StoreOK, AlmanacTypeOK
  <2>2. CASE SetShare(job.planet, job.name, Null)
    BY <1>2, <2>2, SetShareType DEF ExtractPut, StoreOK, Percentages
  <2>3. QED
    BY <2>1, <2>2 DEF ExtractPut, PutNull, PutPercentage
<1>4. StoreOK'
  BY <1>3, NoteType, SharesStoreType DEF ExtractPut, StoreOK, AuditTypeOK
<1>5. CASE Returns(o)
  <2> DEFINE ph == IF Vanishing(job.rest) THEN "extract_delete" ELSE "extract_credit"
  <2>1. /\ Await(ph, job) /\ StayUp /\ UNCHANGED <<biomass, pos, listed, planetVars>>
    BY <1>5 DEF ExtractPut
  <2>2. Fits(ph, job) /\ ph \in Phases \ {"idle"}
    BY <1>1, RunningType DEF Fits, DeployPhases, ExtractPhases, Phases
  <2>3. listed' \in [Species -> Percentages]
    BY <2>1 DEF MemoryOK, ServerTypeOK
  <2> HIDE DEF ph
  <2>4. QED
    BY <1>1, <1>4, <2>1, <2>2, <2>3, RunningType, GoOnType
<1>6. QED
  BY <1>4, <1>5, TerminateType DEF ExtractPut

LEMMA ExtractDeleteType ==
  ASSUME TypeInv, NEW o, ExtractDelete(o)
  PROVE  TypeInv'
<1> USE DEF TypeInv
<1>1. phase = "extract_delete"
  BY DEF ExtractDelete
<1>2. job.planet \in Planets /\ job.name \in Species
  BY <1>1, RunningType DEF Fits
<1>3. AlmanacTypeOK'
  <2>1. CASE UNCHANGED shares
    BY <2>1 DEF ExtractDelete, StoreOK, AlmanacTypeOK
  <2>2. CASE SetShare(job.planet, job.name, Absent)
    BY <1>2, <2>2, SetShareType DEF ExtractDelete, StoreOK, Percentages
  <2>3. QED
    BY <2>1, <2>2 DEF ExtractDelete, DeleteSpecies
<1>4. StoreOK'
  BY <1>3, NoteType, SharesStoreType DEF ExtractDelete, StoreOK, AuditTypeOK
<1>5. CASE Returns(o)
  <2>1. Await("extract_credit", job) /\ StayUp /\ UNCHANGED <<biomass, pos, listed, planetVars>>
    BY <1>5 DEF ExtractDelete
  <2>2. Fits("extract_credit", job) /\ "extract_credit" \in Phases \ {"idle"}
    BY <1>1, RunningType DEF Fits, DeployPhases, ExtractPhases, Phases
  <2>3. listed' \in [Species -> Percentages]
    BY <2>1 DEF MemoryOK, ServerTypeOK
  <2>4. QED
    BY <1>1, <1>4, <2>1, <2>2, <2>3, RunningType, GoOnType
<1>6. QED
  BY <1>4, <1>5, TerminateType DEF ExtractDelete

LEMMA EditInPlanetType ==
  ASSUME TypeInv, NEW c \in Conns, NEW p \in Planets, NEW s \in Species, NEW o,
         EditInPlanet(c, p, s, o)
  PROVE  TypeInv'
<1> USE DEF TypeInv
<1>1. c \in conns /\ process # "down"
  BY DEF EditInPlanet, Free
<1>2. StoreOK'
  <2>1. AlmanacTypeOK'
    BY DEF EditInPlanet, StoreOK, AlmanacTypeOK, dbVars
  <2>2. QED
    BY <2>1, SharesStoreType DEF EditInPlanet, StoreOK, AuditTypeOK, auditVars
<1>3. CASE Returns(o)
  <2> DEFINE j == Job(c, p, s, 0, 0)
  <2>1. Await("reload", j) /\ StayUp /\ UNCHANGED <<biomass, pos, listed, planetVars>>
    BY <1>3 DEF EditInPlanet
  <2>2. j \in Jobs /\ Fits("reload", j) /\ "reload" \in Phases \ {"idle"}
    BY <1>1 DEF Job, Jobs, Fits, ExtractPhases, DeployPhases, Phases
  <2>3. listed' \in [Species -> Percentages]
    BY <2>1 DEF MemoryOK, ServerTypeOK
  <2> HIDE DEF j
  <2>4. QED
    BY <1>1, <1>2, <2>1, <2>2, <2>3, GoOnType
<1>4. QED
  BY <1>2, <1>3, TerminateType DEF EditInPlanet

LEMMA DeployQueryType ==
  ASSUME TypeInv, NEW c \in Conns, NEW p \in Planets, NEW s \in Species,
         NEW b \in DeployAmounts, NEW o, DeployQuery(c, p, s, b, o)
  PROVE  TypeInv'
<1> USE DEF TypeInv
<1>1. c \in conns /\ process # "down"
  BY DEF DeployQuery, Free
<1>2. StoreOK'
  <2>1. AlmanacTypeOK'
    BY DEF DeployQuery, StoreOK, AlmanacTypeOK, dbVars
  <2>2. ops' \in 0..MaxOps
    BY DEF DeployQuery, AcceptCommand, StoreOK, AuditTypeOK, OpsAssumption
  <2>3. outsized' \subseteq Planets
    BY DEF DeployQuery, StoreOK, AuditTypeOK
  <2>4. QED
    BY <2>1, <2>2, <2>3, SharesStoreType DEF DeployQuery, StoreOK, AuditTypeOK
<1>3. CASE Returns(o)
  <2> DEFINE j  == Job(c, p, s, b, 0)
             ph == IF Listing(o, p) = NoSpecies THEN "deploy_pay" ELSE "deploy_dilute"
  <2>1. /\ Await(ph, j) /\ StayUp /\ UNCHANGED <<biomass, pos, planetVars>>
        /\ listed' = Listing(o, p)
    BY <1>3 DEF DeployQuery
  <2>2. j \in Jobs
    BY DEF Job, Jobs, OrbitalAssumption
  <2>3. Fits(ph, j) /\ ph \in Phases \ {"idle"}
    BY <1>1 DEF Job, Fits, ExtractPhases, DeployPhases, Phases
  <2>4. listed' \in [Species -> Percentages]
    BY <2>1, ListingType DEF StoreOK
  <2> HIDE DEF j, ph
  <2>5. QED
    BY <1>1, <1>2, <2>1, <2>2, <2>3, <2>4, GoOnType
<1>4. QED
  BY <1>2, <1>3, TerminateType DEF DeployQuery

LEMMA DilutedType ==
  ASSUME NEW v \in Int, NEW b \in Int
  PROVE  Diluted(v, b) \in Int
<1>1. v * (Whole - b) \in Int
  BY DEF OrbitalAssumption
<1>2. QED
  BY <1>1 DEF Diluted, OrbitalAssumption

LEMMA DeployDiluteType ==
  ASSUME TypeInv, NEW s \in Species, NEW o, DeployDilute(s, o)
  PROVE  TypeInv'
<1> USE DEF TypeInv
<1>1. phase = "deploy_dilute"
  BY DEF DeployDilute
<1>2. job.planet \in Planets /\ Diluted(listed[s], job.amount) \in Percentages
  BY <1>1, RunningType, DilutedType DEF DeployDilute, Fits, MemoryOK, ServerTypeOK, Percentages
<1>3. AlmanacTypeOK'
  <2>1. CASE UNCHANGED shares
    BY <2>1 DEF DeployDilute, StoreOK, AlmanacTypeOK
  <2>2. CASE SetShare(job.planet, s, Diluted(listed[s], job.amount))
    BY <1>2, <2>2, SetShareType DEF DeployDilute, StoreOK
  <2>3. QED
    BY <2>1, <2>2 DEF DeployDilute, PutPercentage
<1>4. StoreOK'
  BY <1>3, NoteType, SharesStoreType DEF DeployDilute, StoreOK, AuditTypeOK
<1>5. CASE Returns(o)
  <2> DEFINE ph == IF LeftAfter(s) = NoSpecies THEN "deploy_pay" ELSE "deploy_dilute"
  <2>1. /\ Await(ph, job) /\ StayUp /\ UNCHANGED <<biomass, pos, planetVars>>
        /\ listed' = LeftAfter(s)
    BY <1>5 DEF DeployDilute
  <2>2. Fits(ph, job) /\ ph \in Phases \ {"idle"}
    BY <1>1, RunningType DEF Fits, DeployPhases, ExtractPhases, Phases
  <2>3. listed' \in [Species -> Percentages]
    BY <2>1 DEF LeftAfter, MemoryOK, ServerTypeOK, Percentages
  <2> HIDE DEF ph
  <2>4. QED
    BY <1>1, <1>4, <2>1, <2>2, <2>3, RunningType, GoOnType
<1>6. QED
  BY <1>4, <1>5, TerminateType DEF DeployDilute

LEMMA DeployPostType ==
  ASSUME TypeInv, NEW o, DeployPost(o)
  PROVE  TypeInv'
<1> USE DEF TypeInv
<1>1. phase = "deploy_post"
  BY DEF DeployPost
<1>2. /\ job.planet \in Planets /\ job.name \in Species
      /\ job.amount \in Int /\ Price(job.amount) \in Nat
      /\ user[job.conn] \in Users \cup {None}
  BY <1>1, RunningType, PriceType DEF Fits, DeployPhases
<1>3. AlmanacTypeOK'
  <2>1. CASE UNCHANGED shares
    BY <2>1 DEF DeployPost, StoreOK, AlmanacTypeOK
  <2>2. CASE SetShare(job.planet, job.name, job.amount)
    BY <1>2, <2>2, SetShareType DEF DeployPost, StoreOK, Percentages
  <2>3. QED
    BY <2>1, <2>2 DEF DeployPost, PostSpecies
<1>4. StoreOK'
  <2>1. planted' \in [Users -> Nat]
    BY <1>2, TallyType DEF DeployPost, StoreOK, AuditTypeOK
  <2>2. QED
    BY <1>3, <2>1, NoteType, SharesStoreType DEF DeployPost, StoreOK, AuditTypeOK
<1>5. CASE Returns(o)
  <2>1. Await("reload", job) /\ StayUp /\ UNCHANGED <<biomass, pos, listed, planetVars>>
    BY <1>5 DEF DeployPost
  <2>2. Fits("reload", job) /\ "reload" \in Phases \ {"idle"}
    BY <1>1, RunningType DEF Fits, DeployPhases, ExtractPhases, Phases
  <2>3. listed' \in [Species -> Percentages]
    BY <2>1 DEF MemoryOK, ServerTypeOK
  <2>4. QED
    BY <1>1, <1>4, <2>1, <2>2, <2>3, RunningType, GoOnType
<1>6. QED
  BY <1>4, <1>5, TerminateType DEF DeployPost

LEMMA ReloadType ==
  ASSUME TypeInv, NEW o, Reload(o)
  PROVE  TypeInv'
<1> USE DEF TypeInv
<1>1. phase = "reload"
  BY DEF Reload
<1>2. StoreOK'
  <2>1. AlmanacTypeOK'
    BY DEF Reload, StoreOK, AlmanacTypeOK, dbVars
  <2>2. QED
    BY <2>1, SharesStoreType DEF Reload, StoreOK, AuditTypeOK, auditVars
<1>3. CASE Terminate
  BY <1>2, <1>3, TerminateType
<1>4. CASE /\ SwapSpecies(job.planet, Listing(o, job.planet))
           /\ Return /\ StayUp /\ UNCHANGED <<biomass, pos>>
  <2>1. Listing(o, job.planet) \in [Species -> Percentages] /\ job.planet \in Planets
    BY <1>1, RunningType, ListingType DEF Fits, StoreOK
  <2>2. PlanetTypeOK'
    BY <1>4, <2>1 DEF SwapSpecies, MemoryOK, PlanetTypeOK
  <2>3. biomass' \in [Conns -> Int]
    BY <1>4 DEF MemoryOK, ServerTypeOK
  <2>4. QED
    BY <1>1, <1>2, <1>4, <2>2, <2>3, RunningType, ReturnType
<1>5. QED
  BY <1>3, <1>4 DEF Reload

LEMMA NextTypeInv == TypeInv /\ [Next]_vars => TypeInv'
<1> SUFFICES ASSUME TypeInv, [Next]_vars PROVE TypeInv'
  OBVIOUS
<1>1. CASE Lifecycle
  BY <1>1, LifecycleType
<1>2. CASE \E c \in Conns, d \in Places : MoveTo(c, d) \/ CalcWarpCost(c, d)
  BY <1>2, MoveToType, EndType DEF CalcWarpCost
<1>3. ASSUME NEW c \in Conns, Command(c) PROVE TypeInv'
  BY <1>3, UserEndpointType, AttemptWarpType, SavePositionType, ExtractQueryType,
     DeployQueryType, EditInPlanetType DEF Command
<1>4. CASE HandlerStep
  <2>1. CASE ExtractNotANumber
    BY <2>1, EndType DEF ExtractNotANumber
  <2>2. CASE DeployUnreadable
    BY <2>2, EndType DEF DeployUnreadable
  <2>3. QED
    BY <1>4, <2>1, <2>2, WarpPayType, ExtractPutType, ExtractDeleteType, ExtractCreditType,
       DeployDiluteType, DeployPayType, DeployPostType, ReloadType DEF HandlerStep
<1>5. CASE UNCHANGED vars
  BY <1>5 DEF vars, TypeInv, StoreOK, HttpTypeOK, AlmanacTypeOK, AuditTypeOK, MemoryOK,
         PlanetTypeOK, ServerTypeOK, JobOK, Fits, SessionsOK, httpVars, dbVars, planetVars,
         auditVars, sessionVars, handlerVars
<1>6. QED
  BY <1>1, <1>2, <1>3, <1>4, <1>5 DEF Next

LEMMA TypeInvariant == Spec => []TypeInv
  BY InitTypeInv, NextTypeInv, PTL DEF Spec

\* Every variable keeps its type, for all constants that meet the assumptions.
THEOREM TypeCorrect == Spec => []TypeOK
<1>1. TypeInv => TypeOK
  BY DEF TypeInv, StoreOK, MemoryOK, TypeOK
<1>2. QED
  BY <1>1, TypeInvariant, PTL
-----------------------------------------------------------------------------
\* The phases of the handlers that work on job.planet and read it again at the end.
PlanetPhases == ExtractPhases \cup DeployPhases \cup {"reload"}

\* What the Almanac has and what a handler read of it, where a proof needs no more.
PlanetTypes ==
    /\ shares \in [Planets -> [Species -> Percentages]]
    /\ cache \in [Planets -> [Species -> Percentages]]
    /\ loaded \subseteq Planets
    /\ listed \in [Species -> Percentages]
    /\ job.amount \in Int /\ job.rest \in Int
    /\ phase \in Phases
    /\ phase \in PlanetPhases => job.planet \in Planets /\ job.name \in Species

LEMMA PlanetTyping == TypeInv => PlanetTypes
  BY DEF PlanetTypes, TypeInv, StoreOK, MemoryOK, AlmanacTypeOK, PlanetTypeOK, ServerTypeOK,
         JobOK, Fits, Jobs, PlanetPhases, ExtractPhases, DeployPhases
-----------------------------------------------------------------------------
\* What a step does to the records of the planets: nothing, or it sets one share
\* of the planet its handler works on to the value that its phase calls for.

Written(s, v) ==
    /\ SetShare(job.planet, s, v)
    /\ \/ phase = "extract_put" /\ v = Null
       \/ phase = "extract_delete" /\ v = Absent /\ s = job.name
       \/ /\ phase = "deploy_dilute" /\ listed[s] \in Int
          /\ v = Diluted(listed[s], job.amount)
       \/ phase = "deploy_post" /\ v = job.amount /\ s = job.name

ShareEffect ==
    UNCHANGED shares \/ \E s \in Species, v \in Percentages : Written(s, v)

\* And to the memory of the process: nothing; a handler starts, goes on, returns;
\* a planet or all of them are read; or the process ends.

Stays == UNCHANGED <<shares, planetVars, handlerVars>>

\* The reading that let an extraction pass its guard.
Passed(j) ==
    \E o \in Outcomes :
        j.amount <= Reading(o, j.planet, j.name)
        /\ j.rest = Reading(o, j.planet, j.name) - j.amount

Begins ==
    /\ phase = "idle" /\ UNCHANGED <<shares, planetVars>>
    /\ phase' # "extract_delete"
    /\ phase' = "extract_put" => Passed(job')
    /\ listed' \in {listed, NoSpecies} \cup {shares[p] : p \in Planets}
    /\ phase' \in DeployPhases =>
          /\ job'.planet \in Planets /\ listed' \in {NoSpecies, shares[job'.planet]}
          /\ job'.amount \in 0..Whole \/ job'.planet \in outsized'

Continues ==
    /\ phase \in PlanetPhases /\ phase' \in PlanetPhases \ {"extract_put"}
    /\ job' = job /\ UNCHANGED planetVars
    /\ phase' = "extract_delete" => phase = "extract_put" /\ Vanishing(job.rest)
    /\ phase' \in DeployPhases => phase \in DeployPhases
    /\ phase' = "deploy_dilute" => phase = "deploy_dilute"
    /\ listed' \in {listed} \cup {LeftAfter(s) : s \in Species}

Pays ==
    /\ phase = "warp_pay" /\ phase' = "idle"
    /\ listed' = NoSpecies /\ UNCHANGED <<shares, planetVars>>

Reloads ==
    /\ phase = "reload" /\ phase' = "idle"
    /\ \E o \in Outcomes : SwapSpecies(job.planet, Listing(o, job.planet))
    /\ listed' = NoSpecies /\ UNCHANGED shares

Starts ==
    /\ phase = "idle"
    /\ \E reached, unlisted \in SUBSET Planets : LoadPlanets(reached, unlisted)
    /\ UNCHANGED <<shares, handlerVars>>

PlanetEffect ==
    /\ ShareEffect
    /\ outsized \subseteq outsized'
    /\ Stays \/ Begins \/ Continues \/ Pays \/ Reloads \/ Starts \/ Terminate
-----------------------------------------------------------------------------
LEMMA LifecyclePlanets ==
  ASSUME TypeInv, Lifecycle
  PROVE  PlanetEffect
<1> USE DEF PlanetEffect, ShareEffect
<1>1. CASE Start
  <2>1. phase = "idle"
    BY <1>1 DEF Start, TypeInv, MemoryOK, JobOK
  <2>2. QED
    BY <1>1, <2>1 DEF Start, Starts, dbVars, auditVars
<1>2. CASE RunOutOfWork
  BY <1>2 DEF RunOutOfWork, dbVars, auditVars
<1>3. ASSUME NEW c \in Conns, OnConnectionOpen(c) \/ OnConnectionClose(c) PROVE PlanetEffect
  BY <1>3 DEF OnConnectionOpen, OnConnectionClose, Stays, dbVars, auditVars
<1>4. ASSUME NEW c \in Conns, StopListening(c) PROVE PlanetEffect
  BY <1>4 DEF StopListening, Stays, dbVars, auditVars
<1>5. QED
  BY <1>1, <1>2, <1>3, <1>4 DEF Lifecycle

LEMMA CommandPlanets ==
  ASSUME TypeInv, NEW c \in Conns, Command(c)
  PROVE  PlanetEffect
<1> USE DEF PlanetEffect, ShareEffect
<1>1. ASSUME NEW o \in Outcomes, NEW u \in Users, UserEndpoint(c, u, o) PROVE PlanetEffect
  BY <1>1 DEF UserEndpoint, Stays, dbVars
<1>2. ASSUME NEW o \in Outcomes, NEW d \in Places, AttemptWarp(c, d, o) PROVE PlanetEffect
  BY <1>2 DEF AttemptWarp, Free, Await, Begins, DeployPhases
<1>3. ASSUME NEW o \in Outcomes, NEW d \in Places, SavePosition(c, d, o) PROVE PlanetEffect
  BY <1>3 DEF SavePosition, Stays
<1>4. ASSUME NEW o \in Outcomes, NEW p \in Planets, NEW s \in Species,
             NEW x \in ExtractAmounts, ExtractQuery(c, p, s, x, o)
      PROVE  PlanetEffect
  <2>1. UNCHANGED <<shares, outsized>>
    BY <1>4 DEF ExtractQuery, dbVars, auditVars
  <2>2. CASE Terminate
    BY <2>1, <2>2
  <2>3. CASE UNCHANGED <<process, sessionVars, handlerVars, planetVars>>
    BY <2>1, <2>3 DEF Stays
  <2>4. CASE /\ Reading(o, p, s) >= x
             /\ Await("extract_put", Job(c, p, s, x, Reading(o, p, s) - x))
             /\ UNCHANGED <<listed, planetVars>>
    <3>1. /\ job'.planet = p /\ job'.name = s /\ job'.amount = x
          /\ job'.rest = Reading(o, p, s) - x
      BY <2>4 DEF Await, Job
    <3>2. Reading(o, p, s) >= x <=> x <= Reading(o, p, s)
      OBVIOUS
    <3>3. Passed(job')
      BY <2>4, <3>1, <3>2 DEF Passed
    <3>4. QED
      BY <1>4, <2>1, <2>4, <3>3 DEF ExtractQuery, Free, Await, Begins, DeployPhases, auditVars
  <2>5. QED
    BY <1>4, <2>2, <2>3, <2>4 DEF ExtractQuery
<1>5. ASSUME NEW o \in Outcomes, NEW p \in Planets, NEW s \in Species,
             NEW b \in DeployAmounts, DeployQuery(c, p, s, b, o)
      PROVE  PlanetEffect
  <2>1. UNCHANGED shares /\ outsized \subseteq outsized'
        /\ (b \in 0..Whole \/ p \in outsized')
    BY <1>5 DEF DeployQuery, dbVars
  <2>2. CASE Terminate
    BY <2>1, <2>2
  <2>3. CASE Returns(o)
    <3>1. /\ listed' = Listing(o, p) /\ UNCHANGED planetVars
          /\ Await(IF Listing(o, p) = NoSpecies THEN "deploy_pay" ELSE "deploy_dilute",
                   Job(c, p, s, b, 0))
      BY <1>5, <2>3 DEF DeployQuery
    <3>2. job'.planet = p /\ job'.amount = b /\ phase' \in {"deploy_pay", "deploy_dilute"}
      BY <3>1 DEF Await, Job
    <3>3. listed' \in {NoSpecies, shares[p]}
      BY <3>1 DEF Listing
    <3>4. phase = "idle"
      BY <1>5 DEF DeployQuery, Free
    <3>5. QED
      BY <2>1, <3>1, <3>2, <3>3, <3>4 DEF Begins
  <2>4. QED
    BY <1>5, <2>2, <2>3 DEF DeployQuery
<1>6. ASSUME NEW o \in Outcomes, NEW p \in Planets, NEW s \in Species,
             EditInPlanet(c, p, s, o)
      PROVE  PlanetEffect
  BY <1>6 DEF EditInPlanet, Free, Await, Begins, DeployPhases, dbVars, auditVars
<1>7. QED
  BY <1>1, <1>2, <1>3, <1>4, <1>5, <1>6 DEF Command

LEMMA HandlerPlanets ==
  ASSUME TypeInv, HandlerStep
  PROVE  PlanetEffect
<1> USE DEF PlanetPhases, ExtractPhases, DeployPhases
<1>t. PlanetTypes
  BY PlanetTyping
<1>1. ASSUME NEW o \in Outcomes, WarpPay(o) PROVE PlanetEffect
  BY <1>1 DEF WarpPay, Return, Await, PlanetEffect, ShareEffect, Pays
<1>2. ASSUME NEW o \in Outcomes, ExtractPut(o) PROVE PlanetEffect
  <2>1. ShareEffect
    <3>1. UNCHANGED shares \/ SetShare(job.planet, job.name, Null)
      BY <1>2 DEF ExtractPut, PutNull, PutPercentage
    <3>2. job.name \in Species /\ Null \in Percentages
      BY <1>t, <1>2 DEF ExtractPut, PlanetTypes, Percentages
    <3>3. QED
      BY <1>2, <3>1, <3>2 DEF ExtractPut, ShareEffect, Written
  <2>2. CASE Returns(o)
    BY <1>2, <2>1, <2>2 DEF ExtractPut, Await, Continues, PlanetEffect
  <2>3. QED
    BY <1>2, <2>1, <2>2 DEF ExtractPut, PlanetEffect
<1>3. ASSUME NEW o \in Outcomes, ExtractDelete(o) PROVE PlanetEffect
  <2>1. ShareEffect
    <3>1. UNCHANGED shares \/ SetShare(job.planet, job.name, Absent)
      BY <1>3 DEF ExtractDelete, DeleteSpecies
    <3>2. job.name \in Species /\ Absent \in Percentages
      BY <1>t, <1>3 DEF ExtractDelete, PlanetTypes, Percentages
    <3>3. QED
      BY <1>3, <3>1, <3>2 DEF ExtractDelete, ShareEffect, Written
  <2>2. CASE Returns(o)
    BY <1>3, <2>1, <2>2 DEF ExtractDelete, Await, Continues, PlanetEffect
  <2>3. QED
    BY <1>3, <2>1, <2>2 DEF ExtractDelete, PlanetEffect
<1>4. ASSUME NEW o \in Outcomes, ExtractCredit(o) PROVE PlanetEffect
  BY <1>4 DEF ExtractCredit, Await, PlanetEffect, ShareEffect, Continues
<1>5. ASSUME NEW o \in Outcomes, NEW s \in Species, DeployDilute(s, o) PROVE PlanetEffect
  <2>1. listed[s] \in Int /\ Diluted(listed[s], job.amount) \in Percentages
    BY <1>t, <1>5, DilutedType DEF DeployDilute, PlanetTypes, Percentages
  <2>2. ShareEffect
    BY <1>5, <2>1 DEF DeployDilute, PutPercentage, ShareEffect, Written
  <2>3. CASE Returns(o)
    BY <1>5, <2>2, <2>3 DEF DeployDilute, Await, Continues, PlanetEffect
  <2>4. QED
    BY <1>5, <2>2, <2>3 DEF DeployDilute, PlanetEffect
<1>6. ASSUME NEW o \in Outcomes, DeployPay(o) PROVE PlanetEffect
  BY <1>6 DEF DeployPay, Await, PlanetEffect, ShareEffect, Continues
<1>7. ASSUME NEW o \in Outcomes, DeployPost(o) PROVE PlanetEffect
  <2>1. ShareEffect
    <3>1. UNCHANGED shares \/ SetShare(job.planet, job.name, job.amount)
      BY <1>7 DEF DeployPost, PostSpecies
    <3>2. job.name \in Species /\ job.amount \in Percentages
      BY <1>t, <1>7 DEF DeployPost, PlanetTypes, Percentages
    <3>3. QED
      BY <1>7, <3>1, <3>2 DEF DeployPost, ShareEffect, Written
  <2>2. CASE Returns(o)
    BY <1>7, <2>1, <2>2 DEF DeployPost, Await, Continues, PlanetEffect
  <2>3. QED
    BY <1>7, <2>1, <2>2 DEF DeployPost, PlanetEffect
<1>8. ASSUME NEW o \in Outcomes, Reload(o) PROVE PlanetEffect
  BY <1>8 DEF Reload, Return, Await, PlanetEffect, ShareEffect, Reloads, dbVars, auditVars
<1>9. CASE ExtractNotANumber \/ DeployUnreadable
  BY <1>9 DEF ExtractNotANumber, DeployUnreadable, PlanetEffect, ShareEffect, dbVars, auditVars
<1>10. QED
  BY <1>1, <1>2, <1>3, <1>4, <1>5, <1>6, <1>7, <1>8, <1>9 DEF HandlerStep

LEMMA NextPlanets ==
  ASSUME TypeInv, [Next]_vars
  PROVE  PlanetEffect
<1>1. ASSUME NEW c \in Conns, NEW d \in Places, MoveTo(c, d) PROVE PlanetEffect
  BY <1>1 DEF MoveTo, PlanetEffect, ShareEffect, Stays, dbVars, auditVars
<1>c. ASSUME NEW c \in Conns, NEW d \in Places, CalcWarpCost(c, d) PROVE PlanetEffect
  BY <1>c DEF CalcWarpCost, PlanetEffect, ShareEffect, dbVars, auditVars
<1>2. CASE UNCHANGED vars
  BY <1>2 DEF vars, PlanetEffect, ShareEffect, Stays, dbVars, auditVars
<1>3. QED
  BY <1>1, <1>c, <1>2, LifecyclePlanets, CommandPlanets, HandlerPlanets DEF Next
-----------------------------------------------------------------------------
\* A share after a step: the old one, or what the running handler wrote.
LEMMA ShareAfter ==
  ASSUME TypeInv, NEW s \in Species, NEW v \in Percentages, Written(s, v)
  PROVE  /\ phase \in PlanetPhases /\ job.planet \in Planets
         /\ \A q \in Planets : q = job.planet \/ shares'[q] = shares[q]
         /\ \A q \in Planets, r \in Species :
               \/ q = job.planet /\ r = s /\ shares'[q][r] = v
               \/ shares'[q][r] = shares[q][r]
<1>1. PlanetTypes
  BY PlanetTyping
<1>2. phase \in PlanetPhases
  BY DEF Written, PlanetPhases, ExtractPhases, DeployPhases
<1>3. shares \in [Planets -> [Species -> Percentages]] /\ job.planet \in Planets
  BY <1>1, <1>2 DEF PlanetTypes
<1>4. shares' = [shares EXCEPT ![job.planet] = [shares[job.planet] EXCEPT ![s] = v]]
  BY DEF Written, SetShare
<1>5. \A q \in Planets :
         shares'[q] = IF q = job.planet THEN [shares[q] EXCEPT ![s] = v] ELSE shares[q]
  BY <1>3, <1>4
<1>6. \A q \in Planets : shares[q] \in [Species -> Percentages]
  BY <1>3
<1>7. ASSUME NEW q \in Planets, NEW r \in Species
      PROVE  \/ q = job.planet /\ r = s /\ shares'[q][r] = v
             \/ shares'[q][r] = shares[q][r]
  BY <1>5, <1>6
<1>8. QED
  BY <1>2, <1>3, <1>5, <1>7
-----------------------------------------------------------------------------
\* The server's copy of a planet may differ from the record only while a handler
\* works on that planet.
CacheInv ==
    \A p \in loaded :
        \/ cache[p] = shares[p] \/ cache[p] = NoSpecies
        \/ phase \in PlanetPhases /\ p = job.planet

LEMMA InitCache == Init => CacheInv
  BY DEF Init, PlanetInit, CacheInv

LEMMA NextCache ==
  ASSUME TypeInv, CacheInv, [Next]_vars
  PROVE  CacheInv'
<1>t. PlanetTypes
  BY PlanetTyping
<1>e. PlanetEffect
  BY NextPlanets
<1> USE DEF planetVars, handlerVars
<1>0. "idle" \notin PlanetPhases /\ "warp_pay" \notin PlanetPhases
  BY DEF PlanetPhases, ExtractPhases, DeployPhases
<1>1. ASSUME UNCHANGED <<shares, cache, loaded>>,
             phase \in PlanetPhases => phase' \in PlanetPhases /\ job' = job
      PROVE  CacheInv'
  BY <1>1 DEF CacheInv
<1>2. CASE Stays
  BY <1>1, <1>2 DEF Stays
<1>3. CASE Begins
  BY <1>0, <1>1, <1>3 DEF Begins
<1>4. CASE Continues
  <2>1. CASE UNCHANGED shares
    BY <1>1, <1>4, <2>1 DEF Continues
  <2>2. ASSUME NEW s \in Species, NEW v \in Percentages, Written(s, v) PROVE CacheInv'
    <3>1. \A q \in Planets : q = job.planet \/ shares'[q] = shares[q]
      BY <2>2, ShareAfter
    <3>2. loaded \subseteq Planets
      BY <1>t DEF PlanetTypes
    <3>3. QED
      BY <1>4, <3>1, <3>2 DEF Continues, CacheInv
  <2>3. QED
    BY <1>e, <2>1, <2>2 DEF PlanetEffect, ShareEffect
<1>5. CASE Pays
  BY <1>0, <1>1, <1>5 DEF Pays
<1>6. CASE Reloads
  <2>1. PICK o \in Outcomes : SwapSpecies(job.planet, Listing(o, job.planet))
    BY <1>6 DEF Reloads
  <2>2. Listing(o, job.planet) \in {shares[job.planet], NoSpecies}
    BY DEF Listing
  <2>3. loaded' = loaded /\ UNCHANGED shares /\ loaded \subseteq Planets
        /\ cache \in [Planets -> [Species -> Percentages]]
    BY <1>t, <1>6, <2>1 DEF Reloads, SwapSpecies, PlanetTypes
  <2>4. ASSUME NEW p \in loaded
        PROVE  cache'[p] = IF p = job.planet THEN Listing(o, job.planet) ELSE cache[p]
    BY <2>1, <2>3 DEF SwapSpecies
  <2>5. QED
    BY <2>2, <2>3, <2>4 DEF CacheInv
<1>7. CASE Starts
  BY <1>7 DEF Starts, LoadPlanets, CacheInv
<1>8. CASE Terminate
  BY <1>8 DEF Terminate, ForgetPlanets, CacheInv
<1>9. QED
  BY <1>e, <1>2, <1>3, <1>4, <1>5, <1>6, <1>7, <1>8 DEF PlanetEffect

\* No handler that changed a planet returns without reading it again: between two
\* handlers the server's copy is the record, or empty (see CacheFaithful).
THEOREM CopyStaysFaithful == Spec => []CacheFaithful
<1>1. CacheInv => CacheFaithful
  BY DEF CacheInv, CacheFaithful, PlanetPhases, ExtractPhases, DeployPhases
<1>2. TypeInv /\ CacheInv /\ [Next]_vars => CacheInv'
  BY NextCache
<1>3. QED
  BY <1>1, <1>2, InitCache, TypeInvariant, PTL DEF Spec
-----------------------------------------------------------------------------
\* An extraction of something works with what was there when it was read: until
\* the PUT, and after it if it was ignored, the rest is the share less the amount.
ExtractInv ==
    phase \in {"extract_put", "extract_delete"} =>
        /\ phase = "extract_delete" => Vanishing(job.rest)
        /\ job.amount > 0 /\ shares[job.planet][job.name] \in Int
             => job.rest = shares[job.planet][job.name] - job.amount

LEMMA InitExtract == Init => ExtractInv
  BY DEF Init, ServerInit, ExtractInv

LEMMA PassedReads ==
  ASSUME NEW j, Passed(j), j.amount \in Int, j.amount > 0,
         shares[j.planet][j.name] \in Int
  PROVE  j.rest = shares[j.planet][j.name] - j.amount
<1>1. PICK o \in Outcomes :
         /\ j.amount <= Reading(o, j.planet, j.name)
         /\ j.rest = Reading(o, j.planet, j.name) - j.amount
  BY DEF Passed
<1>2. Reading(o, j.planet, j.name) # 0
  BY <1>1
<1>3. Reading(o, j.planet, j.name) = shares[j.planet][j.name]
  BY <1>2 DEF Reading
<1>4. QED
  BY <1>1, <1>3

LEMMA NextExtract ==
  ASSUME TypeInv, TypeInv', ExtractInv, [Next]_vars
  PROVE  ExtractInv'
<1>t. PlanetTypes /\ PlanetTypes'
  BY PlanetTyping, PTL
<1>e. PlanetEffect
  BY NextPlanets
<1>1. CASE Stays
  BY <1>1 DEF Stays, handlerVars, ExtractInv
<1>2. CASE Begins
  <2>1. SUFFICES ASSUME phase' = "extract_put" PROVE ExtractInv'
    BY <1>2 DEF Begins, ExtractInv
  <2>2. shares' = shares /\ Passed(job')
    BY <1>2, <2>1 DEF Begins
  <2>3. job'.amount \in Int
    BY <1>t DEF PlanetTypes
  <2>4. job'.amount > 0 /\ shares'[job'.planet][job'.name] \in Int
          => job'.rest = shares'[job'.planet][job'.name] - job'.amount
    BY <2>2, <2>3, PassedReads
  <2>5. QED
    BY <2>1, <2>4 DEF ExtractInv
<1>3. CASE Continues
  <2>1. SUFFICES ASSUME phase' = "extract_delete" PROVE ExtractInv'
    BY <1>3 DEF Continues, ExtractInv
  <2>2. phase = "extract_put" /\ Vanishing(job.rest) /\ job' = job
    BY <1>3, <2>1 DEF Continues
  <2>3. job.planet \in Planets /\ job.name \in Species
    BY <1>t, <2>2 DEF PlanetTypes, PlanetPhases, ExtractPhases
  <2>4. \/ shares'[job.planet][job.name] = shares[job.planet][job.name]
        \/ shares'[job.planet][job.name] = Null
    <3>1. CASE UNCHANGED shares
      BY <3>1
    <3>2. ASSUME NEW s \in Species, NEW v \in Percentages, Written(s, v)
          PROVE  \/ shares'[job.planet][job.name] = shares[job.planet][job.name]
                 \/ shares'[job.planet][job.name] = Null
      <4>1. v = Null
        BY <2>2, <3>2 DEF Written
      <4>2. \/ shares'[job.planet][job.name] = v
            \/ shares'[job.planet][job.name] = shares[job.planet][job.name]
        BY <2>3, <3>2, ShareAfter
      <4>3. QED
        BY <4>1, <4>2
    <3>3. QED
      BY <1>e, <3>1, <3>2 DEF PlanetEffect, ShareEffect
  <2>5. QED
    BY <2>1, <2>2, <2>4 DEF ExtractInv, Vanishing
<1>4. CASE Pays \/ Reloads \/ Terminate
  BY <1>4 DEF Pays, Reloads, Terminate, Return, Await, ExtractInv
<1>5. CASE Starts
  BY <1>5 DEF Starts, handlerVars, ExtractInv
<1>6. QED
  BY <1>e, <1>1, <1>2, <1>3, <1>4, <1>5 DEF PlanetEffect

LEMMA StepEarnsExtinction ==
  ASSUME TypeInv, ExtractInv, [Next]_vars,
         NEW p \in Planets, NEW n \in Species,
         shares[p][n] \in Int, shares'[p][n] = Absent, job.amount > 0
  PROVE  100 * (shares[p][n] - job.amount) < Whole
<1>1. PICK s \in Species, v \in Percentages : Written(s, v)
  BY NextPlanets DEF PlanetEffect, ShareEffect
<1>2. p = job.planet /\ n = s /\ v = Absent
  BY <1>1, ShareAfter
<1>3. Diluted(listed[s], job.amount) # Absent \/ listed[s] \notin Int
  <2>1. job.amount \in Int
    BY PlanetTyping DEF PlanetTypes
  <2>2. listed[s] \in Int => Diluted(listed[s], job.amount) \in Int
    BY <2>1, DilutedType
  <2>3. QED
    BY <2>2, AlmanacAssumption
<1>4. job.amount # Absent
  BY PlanetTyping DEF PlanetTypes
<1>5. phase = "extract_delete" /\ s = job.name
  BY <1>1, <1>2, <1>3, <1>4 DEF Written
<1>6. Vanishing(job.rest) /\ job.rest = shares[p][n] - job.amount
  BY <1>2, <1>5 DEF ExtractInv
<1>7. QED
  BY <1>6 DEF Vanishing

\* A species disappears only at the hands of a player who took all of it but less
\* than one percent of the planet (see ExtinctionIsEarned).
THEOREM ExtinctionIsAlwaysEarned == Spec => ExtinctionIsEarned
<1>1. TypeInv /\ TypeInv' /\ ExtractInv /\ [Next]_vars => ExtractInv'
  BY NextExtract
<1>2. TypeInv /\ ExtractInv /\ [Next]_vars =>
        [\A p \in Planets, s \in Species :
            shares[p][s] \in Int /\ shares'[p][s] = Absent /\ job.amount > 0
               => 100 * (shares[p][s] - job.amount) < Whole]_vars
  BY StepEarnsExtinction
<1>3. QED
  BY <1>1, <1>2, InitExtract, TypeInvariant, PTL DEF Spec, ExtinctionIsEarned
-----------------------------------------------------------------------------
\* No species the Almanac starts with makes more than a whole planet.
WithinAPlanet ==
    \A p \in Planets, s \in Species : InitialShares[p][s] \in 0..Whole \cup {Absent}

Proportions == 0..Whole \cup {Absent, Null}

\* Except where somebody deployed an amount that is none, what is on record, what a
\* deployment read of it and what it deploys are proportions.
ProportionInv ==
    /\ \A p \in Planets \ outsized, s \in Species : shares[p][s] \in Proportions
    /\ phase \in DeployPhases /\ job.planet \notin outsized => job.amount \in 0..Whole
    /\ phase = "deploy_dilute" /\ job.planet \notin outsized =>
          \A s \in Species : listed[s] \in Proportions

\* Dilution makes a proportion of a proportion, no larger than the exact one.
LEMMA DilutedBounds ==
  ASSUME NEW v \in 0..Whole, NEW b \in 0..Whole
  PROVE  /\ Diluted(v, b) \in 0..v
         /\ Diluted(v, b) * Whole <= v * (Whole - b)
<1> DEFINE a == v * (Whole - b)
<1>0. v \in Nat /\ Whole \in Nat \ {0}
  BY DEF OrbitalAssumption
<1>1. a \in Nat /\ a <= v * Whole
  BY <1>0, PartOfProduct
<1> HIDE DEF a
<1>2. a \div Whole \in Nat
  BY <1>0, <1>1, QuotientNat
<1>3. a \div Whole <= v
  BY <1>0, <1>1, QuotientAtMost
<1>4. (a \div Whole) * Whole <= a
  BY <1>0, <1>1, QuotientRoundsDown
<1>5. Diluted(v, b) = a \div Whole
  BY DEF Diluted, a
<1>6. QED
  BY <1>0, <1>2, <1>3, <1>4, <1>5 DEF a

LEMMA InitProportions == WithinAPlanet /\ Init => ProportionInv
  BY DEF WithinAPlanet, Init, AlmanacInit, ServerInit, ProportionInv, Proportions, DeployPhases

\* Whatever a handler writes there is a proportion.
LEMMA WrittenIsProportion ==
  ASSUME ProportionInv, job.planet \notin outsized,
         NEW s \in Species, NEW v \in Percentages, Written(s, v)
  PROVE  v \in Proportions
<1>1. phase \in DeployPhases => job.amount \in 0..Whole
  BY DEF ProportionInv
<1>2. CASE phase = "deploy_dilute"
  <2>1. listed[s] \in 0..Whole /\ job.amount \in 0..Whole
    BY <1>1, <1>2 DEF Written, ProportionInv, Proportions, DeployPhases
  <2>2. Diluted(listed[s], job.amount) \in 0..listed[s]
    BY <2>1, DilutedBounds
  <2>v. v = Diluted(listed[s], job.amount)
    BY <1>2 DEF Written
  <2>3. QED
    BY <2>1, <2>2, <2>v DEF Proportions, OrbitalAssumption
<1>3. CASE phase # "deploy_dilute"
  BY <1>1, <1>3 DEF Written, Proportions, DeployPhases
<1>4. QED
  BY <1>2, <1>3

LEMMA NextProportions ==
  ASSUME TypeInv, ProportionInv, [Next]_vars
  PROVE  ProportionInv'
<1>t. PlanetTypes
  BY PlanetTyping
<1>e. PlanetEffect
  BY NextPlanets
<1>g. outsized \subseteq outsized'
  BY <1>e DEF PlanetEffect
<1>1. ASSUME NEW p \in Planets \ outsized', NEW n \in Species
      PROVE  shares'[p][n] \in Proportions
  <2>0. shares[p][n] \in Proportions
    BY <1>g DEF ProportionInv
  <2>1. CASE UNCHANGED shares
    BY <2>0, <2>1
  <2>2. ASSUME NEW s \in Species, NEW v \in Percentages, Written(s, v)
        PROVE  shares'[p][n] \in Proportions
    <3>1. job.planet = p => v \in Proportions
      BY <1>g, <2>2, WrittenIsProportion
    <3>2. (p = job.planet /\ shares'[p][n] = v) \/ shares'[p][n] = shares[p][n]
      BY <2>2, ShareAfter
    <3>3. QED
      BY <2>0, <3>1, <3>2
  <2>3. QED
    BY <1>e, <2>1, <2>2 DEF PlanetEffect, ShareEffect
<1>2. CASE Begins
  <2>1. phase' \in DeployPhases =>
          /\ job'.planet \in Planets /\ listed' \in {NoSpecies, shares[job'.planet]}
          /\ job'.amount \in 0..Whole \/ job'.planet \in outsized'
    BY <1>2 DEF Begins
  <2>2. ASSUME phase' = "deploy_dilute", job'.planet \notin outsized', NEW n \in Species
        PROVE  listed'[n] \in Proportions
    <3>1. job'.planet \in Planets \ outsized /\ listed' \in {NoSpecies, shares[job'.planet]}
      BY <1>g, <2>1, <2>2 DEF DeployPhases
    <3>2. QED
      BY <3>1 DEF ProportionInv, NoSpecies, Proportions
  <2>3. QED
    BY <1>1, <2>1, <2>2 DEF ProportionInv
<1>3. CASE Continues
  <2>1. /\ job' = job /\ (phase' \in DeployPhases => phase \in DeployPhases)
        /\ phase' = "deploy_dilute" => phase = "deploy_dilute"
        /\ listed' \in {listed} \cup {LeftAfter(s) : s \in Species}
    BY <1>3 DEF Continues
  <2>2. ASSUME phase' = "deploy_dilute", job'.planet \notin outsized', NEW n \in Species
        PROVE  listed'[n] \in Proportions
    <3>1. listed[n] \in Proportions /\ Absent \in Proportions
      BY <1>g, <2>1, <2>2 DEF ProportionInv, Proportions
    <3>2. listed \in [Species -> Percentages]
      BY <1>t DEF PlanetTypes
    <3>3. QED
      BY <2>1, <3>1, <3>2 DEF LeftAfter
  <2>3. QED
    BY <1>1, <1>g, <2>1, <2>2 DEF ProportionInv
<1>4. CASE Stays \/ Starts
  BY <1>1, <1>g, <1>4 DEF ProportionInv, Stays, Starts, handlerVars
<1>5. CASE Pays \/ Reloads \/ Terminate
  BY <1>1, <1>5 DEF ProportionInv, DeployPhases, Pays, Reloads, Terminate, Return, Await
<1>6. QED
  BY <1>e, <1>2, <1>3, <1>4, <1>5 DEF PlanetEffect

LEMMA ProportionsHold == ASSUME WithinAPlanet PROVE Spec => []ProportionInv
<1>1. TypeInv /\ ProportionInv /\ [Next]_vars => ProportionInv'
  BY NextProportions
<1>2. Init => ProportionInv
  BY InitProportions
<1>3. QED
  BY <1>1, <1>2, TypeInvariant, PTL DEF Spec

\* A species makes between none and all of its planet, whatever fails and whatever
\* is deployed to other planets (see SharesAreProportions).
THEOREM SharesStayProportions == ASSUME WithinAPlanet PROVE Spec => []SharesAreProportions
<1>1. ProportionInv => SharesAreProportions
  BY DEF ProportionInv, Proportions, SharesAreProportions, Part, OrbitalAssumption
<1>2. QED
  BY <1>1, ProportionsHold, PTL
-----------------------------------------------------------------------------
\* What the species of p count for, as a function.
Parts(p) == [s \in Species |-> Part(shares[p][s])]

LEMMA PopulationIsTotal ==
  IsFiniteSet(Species) => \A p \in Planets : Population(p) = Total(Parts(p), Species)
<1> SUFFICES ASSUME IsFiniteSet(Species), NEW p \in Planets
             PROVE  Population(p) = Total(Parts(p), Species)
  OBVIOUS
<1> DEFINE Folds(h) ==
        h = [t \in SUBSET Species |->
               IF t = {} THEN 0
               ELSE Part(shares[p][CHOOSE x \in t : TRUE]) + h[t \ {CHOOSE x \in t : TRUE}]]
<1>1. ASSUME NEW h PROVE Folds(h) <=> IsFold(h, Parts(p), Species)
  <2>1. ASSUME NEW t \in SUBSET Species
        PROVE  FoldStep(h, Parts(p), t) =
               IF t = {} THEN 0
               ELSE Part(shares[p][CHOOSE x \in t : TRUE]) + h[t \ {CHOOSE x \in t : TRUE}]
    <3>1. CASE t = {}
      BY <3>1 DEF FoldStep
    <3>2. CASE t # {}
      <4>1. OneOf(t) \in Species
        BY <3>2 DEF OneOf
      <4>2. Parts(p)[OneOf(t)] = Part(shares[p][OneOf(t)])
        BY <4>1 DEF Parts
      <4>3. QED
        BY <3>2, <4>2 DEF FoldStep, OneOf, Others
    <3>3. QED
      BY <3>1, <3>2
  <2>2. QED
    BY <2>1 DEF IsFold
<1> HIDE DEF Folds
<1>2. \E h : Folds(h)
  BY <1>1, TotalFold
<1>3. \A h : Folds(h) => h[Species] = Total(Parts(p), Species)
  BY <1>1, TotalFold
<1>4. QED
  BY <1>2, <1>3, Zenon DEF Population, MapThenSumSet, MapThenFoldSet, Folds

LEMMA PopulationIsTotalNext ==
  IsFiniteSet(Species) => \A p \in Planets : Population(p)' = Total(Parts(p)', Species)
<1>1. (IsFiniteSet(Species) => \A p \in Planets : Population(p) = Total(Parts(p), Species))'
  BY PopulationIsTotal, PTL
<1>2. QED
  BY <1>1

\* The weights of the species while a deployment dilutes them: one that is still
\* to be diluted counts for what will be left of it.
Weights ==
    [s \in Species |->
        IF listed[s] \in {Absent, Null}
        THEN Whole * Part(shares[job.planet][s])
        ELSE (Whole - job.amount) * Part(shares[job.planet][s])]

\* The inductive invariant: the room for the new species is made before it is paid.
PopulationInv ==
    refusals = 0 =>
        /\ \A p \in Planets \ outsized : Population(p) <= Whole
        /\ phase = "deploy_dilute" /\ job.planet \notin outsized =>
              /\ \A s \in Species : listed[s] \in {Absent, shares[job.planet][s]}
              /\ Total(Weights, Species) <= Whole * (Whole - job.amount)
        /\ phase \in {"deploy_pay", "deploy_post"} /\ job.planet \notin outsized =>
              Population(job.planet) <= Whole - job.amount

LEMMA PartType == ASSUME NEW v \in Proportions PROVE Part(v) \in 0..Whole
  BY DEF Proportions, Part, OrbitalAssumption

LEMMA PartsType ==
  ASSUME ProportionInv, NEW p \in Planets \ outsized
  PROVE  \A s \in Species : Parts(p)[s] \in 0..Whole /\ Parts(p)[s] = Part(shares[p][s])
  BY PartType DEF ProportionInv, Parts

LEMMA PopulationType ==
  ASSUME IsFiniteSet(Species), ProportionInv, NEW p \in Planets \ outsized
  PROVE  Population(p) \in Int
<1>1. Parts(p) \in [Species -> Int]
  BY PartsType DEF Parts, OrbitalAssumption
<1>2. QED
  BY <1>1, PopulationIsTotal, TotalType

\* What a handler writes changes the population of its planet by that much.
LEMMA PopulationChanged ==
  ASSUME IsFiniteSet(Species), TypeInv, ProportionInv, NEW p \in Planets \ outsized,
         NEW s \in Species, NEW v \in Proportions, SetShare(p, s, v)
  PROVE  /\ Population(p)' = Population(p) + (Part(v) - Part(shares[p][s]))
         /\ \A q \in Planets \ {p} : Population(q)' = Population(q)
         /\ shares'[p][s] = v /\ \A r \in Species \ {s} : shares'[p][r] = shares[p][r]
<1>1. PlanetTypes
  BY PlanetTyping
<1>2. \A q \in Planets :
         shares'[q] = IF q = p THEN [shares[p] EXCEPT ![s] = v] ELSE shares[q]
  BY <1>1 DEF SetShare, PlanetTypes
<1>3. shares[p] \in [Species -> Percentages]
  BY <1>1 DEF PlanetTypes
<1>4. shares'[p][s] = v /\ \A r \in Species \ {s} : shares'[p][r] = shares[p][r]
  BY <1>2, <1>3
<1>5. \A q \in Planets \ {p} : Parts(q)' = Parts(q)
  BY <1>2 DEF Parts
<1>6. PICK f, g : f = Parts(p) /\ g = Parts(p)'
  OBVIOUS
<1>7. \A r \in Species : g[r] = Part(shares'[p][r])
  BY <1>6 DEF Parts
<1>8. \A r \in Species : f[r] \in Int /\ f[r] = Part(shares[p][r])
  BY <1>6, PartsType DEF OrbitalAssumption
<1>9. Part(v) \in Int
  BY PartType DEF OrbitalAssumption
<1>10. g[s] = Part(v) /\ \A r \in Species \ {s} : g[r] = f[r]
  BY <1>4, <1>7, <1>8
<1>11. \A r \in Species : g[r] \in Int
  BY <1>8, <1>9, <1>10
<1>12. Total(g, Species) = Total(f, Species) + (g[s] - f[s])
  <2>1. f = [r \in Species |-> f[r]] /\ g = [r \in Species |-> g[r]]
        /\ DOMAIN f = Species /\ DOMAIN g = Species
    BY <1>6 DEF Parts
  <2>2. f \in [Species -> Int] /\ g \in [Species -> Int]
    BY <1>8, <1>11, <2>1
  <2>3. QED
    BY <1>10, <2>2, SpeciesTotalChanged
<1>13. Population(p)' = Total(g, Species) /\ Population(p) = Total(f, Species)
  BY <1>6, PopulationIsTotal, PopulationIsTotalNext
<1>14. Population(p)' = Population(p) + (Part(v) - Part(shares[p][s]))
  BY <1>8, <1>10, <1>12, <1>13
<1>15. \A q \in Planets \ {p} : Population(q)' = Population(q)
  BY <1>5, PopulationIsTotal, PopulationIsTotalNext
<1>16. QED
  BY <1>4, <1>14, <1>15

\* Where nothing is written the population stays what it is.
LEMMA PopulationElsewhere ==
  ASSUME IsFiniteSet(Species), NEW p \in Planets, shares'[p] = shares[p]
  PROVE  Population(p)' = Population(p)
<1>1. Parts(p)' = Parts(p)
  BY DEF Parts
<1>2. QED
  BY <1>1, PopulationIsTotal, PopulationIsTotalNext

LEMMA PopulationUnchanged ==
  ASSUME IsFiniteSet(Species), UNCHANGED shares
  PROVE  \A p \in Planets : Population(p)' = Population(p)
  BY PopulationElsewhere
-----------------------------------------------------------------------------
\* A request that returned nothing is counted, and the count is never lowered.
LEMMA RefusalsCounted ==
  ASSUME TypeInv, [Next]_vars, refusals' = 0
  PROVE  refusals = 0
<1>n. refusals \in Nat
  BY DEF TypeInv, StoreOK, HttpTypeOK, BudgetAssumption
<1>1. ASSUME NEW o, Request(o) PROVE refusals = 0
  BY <1>n, <1>1 DEF Request, ReadsEmpty
<1>2. CASE UNCHANGED httpVars
  BY <1>2 DEF httpVars
<1>3. CASE Start
  BY <1>n, <1>3 DEF Start
<1>4. CASE Lifecycle
  BY <1>2, <1>3, <1>4 DEF Lifecycle, RunOutOfWork, OnConnectionOpen, OnConnectionClose,
                        StopListening
<1>5. ASSUME NEW c \in Conns, Command(c) PROVE refusals = 0
  BY <1>1, <1>5 DEF Command, UserEndpoint, AttemptWarp, SavePosition, ExtractQuery,
                   DeployQuery, EditInPlanet
<1>6. CASE HandlerStep
  BY <1>1, <1>2, <1>6 DEF HandlerStep, ExtractNotANumber, DeployUnreadable, WarpPay,
                     SaveBiomass, ExtractPut, ExtractDelete, ExtractCredit, DeployDilute,
                     DeployPay, DeployPost, Reload
<1>7. QED
  BY <1>2, <1>4, <1>5, <1>6 DEF Next, MoveTo, CalcWarpCost, vars

\* A step that is not one of a deployment does nothing to one, or none is running
\* after it and it has written no more than a null or nothing over a share.
Withdraws ==
    /\ phase' \notin DeployPhases
    /\ \/ UNCHANGED shares
       \/ /\ job.planet \in Planets /\ job.name \in Species
          /\ SetShare(job.planet, job.name, Null) \/ SetShare(job.planet, job.name, Absent)

Deploys ==
    \E o \in Outcomes :
        \/ \E c \in Conns, p \in Planets, s \in Species, b \in DeployAmounts :
              DeployQuery(c, p, s, b, o)
        \/ \E s \in Species : DeployDilute(s, o)
        \/ DeployPay(o) \/ DeployPost(o)

LEMMA OtherSteps ==
  ASSUME TypeInv, [Next]_vars
  PROVE  UNCHANGED <<shares, handlerVars>> \/ Withdraws \/ Deploys
<1> USE DEF DeployPhases
<1>t. PlanetTypes
  BY PlanetTyping
<1>d. ASSUME Terminate, UNCHANGED shares PROVE Withdraws
  BY <1>d DEF Terminate, Return, Await, Withdraws
<1>1. CASE Lifecycle
  BY <1>1, <1>d DEF Lifecycle, Start, RunOutOfWork, OnConnectionOpen, OnConnectionClose,
                   StopListening, dbVars
<1>2. ASSUME NEW c \in Conns, Command(c)
      PROVE  UNCHANGED <<shares, handlerVars>> \/ Withdraws \/ Deploys
  <2>1. PICK o \in Outcomes :
        \/ \E u \in Users : UserEndpoint(c, u, o)
        \/ \E d \in Places : AttemptWarp(c, d, o) \/ SavePosition(c, d, o)
        \/ \E p \in Planets, s \in Species :
              \/ \E x \in ExtractAmounts : ExtractQuery(c, p, s, x, o)
              \/ \E b \in DeployAmounts : DeployQuery(c, p, s, b, o)
              \/ EditInPlanet(c, p, s, o)
    BY <1>2 DEF Command
  <2>2. CASE \E u \in Users : UserEndpoint(c, u, o)
    BY <1>d, <2>2 DEF UserEndpoint, dbVars
  <2>3. CASE \E d \in Places : AttemptWarp(c, d, o)
    BY <1>d, <2>3 DEF AttemptWarp, Await, Withdraws
  <2>4. CASE \E d \in Places : SavePosition(c, d, o)
    BY <1>d, <2>4 DEF SavePosition
  <2>5. CASE \E p \in Planets, s \in Species, x \in ExtractAmounts : ExtractQuery(c, p, s, x, o)
    BY <1>d, <2>5 DEF ExtractQuery, Await, Withdraws, dbVars
  <2>6. CASE \E p \in Planets, s \in Species : EditInPlanet(c, p, s, o)
    BY <1>d, <2>6 DEF EditInPlanet, Await, Withdraws, dbVars
  <2>7. CASE \E p \in Planets, s \in Species, b \in DeployAmounts : DeployQuery(c, p, s, b, o)
    BY <2>7 DEF Deploys
  <2>8. QED
    BY <2>1, <2>2, <2>3, <2>4, <2>5, <2>6, <2>7
<1>3. CASE HandlerStep
  <2>1. CASE ExtractNotANumber \/ DeployUnreadable
    BY <1>d, <2>1 DEF ExtractNotANumber, DeployUnreadable, dbVars
  <2>2. ASSUME NEW o \in Outcomes, WarpPay(o) \/ ExtractCredit(o) \/ Reload(o)
        PROVE  Withdraws
    BY <1>d, <2>2 DEF WarpPay, ExtractCredit, Reload, Return, Await, Withdraws, dbVars
  <2>3. ASSUME NEW o \in Outcomes, ExtractPut(o) PROVE Withdraws
    <3>1. phase' \notin DeployPhases
      BY <2>3 DEF ExtractPut, Await, Terminate, Return
    <3>2. UNCHANGED shares \/ SetShare(job.planet, job.name, Null)
      BY <2>3 DEF ExtractPut, PutNull, PutPercentage
    <3>3. job.planet \in Planets /\ job.name \in Species
      BY <1>t, <2>3 DEF ExtractPut, PlanetTypes, PlanetPhases, ExtractPhases
    <3>4. QED
      BY <3>1, <3>2, <3>3 DEF Withdraws
  <2>4. ASSUME NEW o \in Outcomes, ExtractDelete(o) PROVE Withdraws
    <3>1. phase' \notin DeployPhases
      BY <2>4 DEF ExtractDelete, Await, Terminate, Return
    <3>2. UNCHANGED shares \/ SetShare(job.planet, job.name, Absent)
      BY <2>4 DEF ExtractDelete, DeleteSpecies
    <3>3. job.planet \in Planets /\ job.name \in Species
      BY <1>t, <2>4 DEF ExtractDelete, PlanetTypes, PlanetPhases, ExtractPhases
    <3>4. QED
      BY <3>1, <3>2, <3>3 DEF Withdraws
  <2>5. ASSUME NEW o \in Outcomes,
               (\E s \in Species : DeployDilute(s, o)) \/ DeployPay(o) \/ DeployPost(o)
        PROVE  Deploys
    BY <2>5 DEF Deploys
  <2>6. QED
    BY <1>3, <2>1, <2>2, <2>3, <2>4, <2>5 DEF HandlerStep
<1>4. CASE \E c \in Conns, d \in Places : MoveTo(c, d) \/ CalcWarpCost(c, d)
  BY <1>4, <1>d DEF MoveTo, CalcWarpCost, dbVars
<1>5. CASE UNCHANGED vars
  BY <1>5 DEF vars, dbVars
<1>6. QED
  BY <1>1, <1>2, <1>3, <1>4, <1>5 DEF Next
-----------------------------------------------------------------------------
\* A planet whose listing is empty has no population.
LEMMA NoPopulation ==
  ASSUME IsFiniteSet(Species), ProportionInv, NEW p \in Planets \ outsized,
         shares[p] = NoSpecies
  PROVE  Population(p) = 0
<1>1. Parts(p) \in [Species -> Int]
  BY PartsType DEF Parts, OrbitalAssumption
<1>2. \A s \in Species : Parts(p)[s] = 0 * Parts(p)[s]
  <2> SUFFICES ASSUME NEW s \in Species PROVE Parts(p)[s] = 0 * Parts(p)[s]
    OBVIOUS
  <2>1. Parts(p)[s] = 0
    BY DEF Parts, NoSpecies, Part
  <2>2. QED
    BY <2>1
<1>3. Total(Parts(p), Species) = 0 * Total(Parts(p), Species)
  BY <1>1, <1>2, TotalScaled
<1>4. \A n \in Int : n = 0 * n => n = 0
  OBVIOUS
<1>5. Total(Parts(p), Species) = 0
  BY <1>1, <1>3, <1>4, TotalType
<1>6. QED
  BY <1>5, PopulationIsTotal

\* The population is bounded after a step that only takes from the planets.
LEMMA WithdrawalsKeep ==
  ASSUME IsFiniteSet(Species), TypeInv, ProportionInv, PopulationInv, [Next]_vars,
         refusals' = 0, Withdraws
  PROVE  \A p \in Planets \ outsized : Population(p)' <= Whole
<1>1. \A p \in Planets \ outsized : Population(p) <= Whole /\ Population(p) \in Int
  BY RefusalsCounted, PopulationType DEF PopulationInv
<1>2. CASE UNCHANGED shares
  BY <1>1, <1>2, PopulationUnchanged
<1>3. ASSUME NEW p \in Planets, NEW s \in Species, NEW v \in {Null, Absent},
             SetShare(p, s, v)
      PROVE  \A q \in Planets \ outsized : Population(q)' <= Whole
  <2>1. v \in Proportions /\ Part(v) = 0
    BY DEF Proportions, Part
  <2>2. ASSUME p \notin outsized PROVE Population(p)' <= Whole
    <3>1. Part(shares[p][s]) \in 0..Whole
      BY <2>2, PartType DEF ProportionInv
    <3>2. Population(p)' = Population(p) + (Part(v) - Part(shares[p][s]))
      BY <1>3, <2>1, <2>2, PopulationChanged
    <3>3. QED
      BY <1>1, <2>1, <2>2, <3>1, <3>2 DEF OrbitalAssumption
  <2>3. ASSUME NEW q \in Planets \ outsized, q # p PROVE Population(q)' <= Whole
    <3>1. shares'[q] = shares[q]
      BY <1>3, <2>3, PlanetTyping DEF SetShare, PlanetTypes
    <3>2. QED
      BY <1>1, <3>1, PopulationElsewhere
  <2>4. QED
    BY <2>2, <2>3
<1>4. QED
  BY <1>2, <1>3 DEF Withdraws
-----------------------------------------------------------------------------
\* When the planet has been listed, a species weighs what its dilution leaves of it.
LEMMA WeightsListed ==
  ASSUME IsFiniteSet(Species), ProportionInv, NEW p \in Planets \ outsized, NEW b \in 0..Whole,
         UNCHANGED shares, listed' = shares[p], job'.planet = p, job'.amount = b,
         Population(p) <= Whole
  PROVE  Total(Weights', Species) <= Whole * (Whole - b)
<1> DEFINE k == Whole - b
<1>k. k \in Nat /\ Whole \in Int /\ Whole * k = k * Whole
  BY DEF OrbitalAssumption
<1>1. Parts(p) \in [Species -> Int]
  BY PartsType DEF Parts, OrbitalAssumption
<1>2. ASSUME NEW s \in Species PROVE Weights'[s] = k * Parts(p)[s]
  <2>1. Parts(p)[s] = Part(shares[p][s])
    BY DEF Parts
  <2>2. Weights'[s] = IF shares[p][s] \in {Absent, Null}
                      THEN Whole * Part(shares[p][s]) ELSE k * Part(shares[p][s])
    BY DEF Weights
  <2>3. CASE shares[p][s] \in {Absent, Null}
    <3>1. Part(shares[p][s]) = 0
      BY <2>3 DEF Part
    <3>2. Whole * 0 = k * 0
      BY <1>k
    <3>3. QED
      BY <2>1, <2>2, <2>3, <3>1, <3>2
  <2>4. QED
    BY <2>1, <2>2, <2>3
<1> HIDE DEF k
<1>3. Total(Weights', Species) = k * Total(Parts(p), Species)
  <2>1. PICK f, g : f = Parts(p) /\ g = Weights'
    OBVIOUS
  <2>2. f \in [Species -> Int] /\ k \in Int /\ \A s \in Species : g[s] = k * f[s]
    BY <1>k, <1>1, <1>2, <2>1
  <2>3. Total(g, Species) = k * Total(f, Species)
    BY <2>2, SpeciesTotalScaled
  <2>4. QED
    BY <2>1, <2>3
<1>4. Total(Parts(p), Species) = Population(p) /\ Population(p) \in Int
  BY PopulationIsTotal, PopulationType
<1>5. k * Population(p) <= k * Whole
  BY <1>k, <1>4, ProductBelow
<1>6. QED
  BY <1>k, <1>3, <1>4, <1>5 DEF k

LEMMA QueryKeepsBound ==
  ASSUME IsFiniteSet(Species), TypeInv, ProportionInv, PopulationInv,
         refusals = 0, refusals' = 0,
         NEW c \in Conns, NEW p \in Planets, NEW n \in Species, NEW b \in DeployAmounts,
         NEW o \in Outcomes, DeployQuery(c, p, n, b, o)
  PROVE  PopulationInv'
<1>1. UNCHANGED shares
  BY DEF DeployQuery, dbVars
<1>o. outsized \subseteq outsized' /\ (p \notin outsized' => b \in 0..Whole)
  BY DEF DeployQuery
<1>2. \A q \in Planets \ outsized : Population(q)' = Population(q) /\ Population(q) <= Whole
  BY <1>1, PopulationUnchanged DEF PopulationInv
<1>b. \A q \in Planets \ outsized' : Population(q)' <= Whole
  BY <1>o, <1>2
<1>4. CASE Terminate
  <2>1. phase' = "idle"
    BY <1>4 DEF Terminate, Return, Await
  <2>2. QED
    BY <1>b, <2>1 DEF PopulationInv
<1>5. CASE Returns(o)
  <2>1. o = "answered"
    BY <1>5 DEF Returns, DeployQuery, Request, ReadsEmpty
  <2>2. /\ listed' = shares[p] /\ job'.planet = p /\ job'.amount = b
        /\ phase' = IF shares[p] = NoSpecies THEN "deploy_pay" ELSE "deploy_dilute"
    BY <1>5, <2>1 DEF DeployQuery, Listing, Await, Job, Terminate, Returns, ReadsEmpty
  <2>3. CASE p \in outsized'
    BY <1>b, <2>2, <2>3 DEF PopulationInv
  <2>p. ASSUME p \notin outsized' PROVE b \in 0..Whole /\ p \in Planets \ outsized
    BY <1>o, <2>p
  <2>4. CASE p \notin outsized' /\ shares[p] = NoSpecies
    <3>1. Population(p) = 0
      BY <2>p, <2>4, NoPopulation
    <3>2. Population(p)' <= Whole - b
      BY <1>2, <2>p, <2>4, <3>1 DEF OrbitalAssumption
    <3>3. QED
      BY <1>b, <2>2, <2>4, <3>2 DEF PopulationInv
  <2>5. CASE p \notin outsized' /\ shares[p] # NoSpecies
    <3>1. Total(Weights', Species) <= Whole * (Whole - b)
      BY <1>1, <1>2, <2>p, <2>5, <2>2, WeightsListed
    <3>2. \A s \in Species : listed'[s] = shares'[p][s]
      BY <1>1, <2>2
    <3>3. QED
      BY <1>b, <2>2, <2>5, <3>1, <3>2 DEF PopulationInv
  <2>6. QED
    BY <2>3, <2>4, <2>5
<1>6. QED
  BY <1>4, <1>5 DEF DeployQuery

\* The weight of each species is a number.
LEMMA WeightType ==
  ASSUME ProportionInv, NEW p \in Planets \ outsized, NEW b \in 0..Whole,
         job.planet = p, job.amount = b
  PROVE  \A s \in Species : Weights[s] \in Int
<1> SUFFICES ASSUME NEW s \in Species PROVE Weights[s] \in Int
  OBVIOUS
<1>1. Part(shares[p][s]) \in Int /\ Whole \in Int /\ Whole - b \in Int
  BY PartType DEF ProportionInv, OrbitalAssumption
<1>2. Whole * Part(shares[p][s]) \in Int /\ (Whole - b) * Part(shares[p][s]) \in Int
  BY <1>1, ProductInt
<1>3. QED
  BY <1>2 DEF Weights

\* A dilution takes from the weight what it rounds away; when nothing is left to
\* dilute, the weight is that of the population.
LEMMA WeightsDiluted ==
  ASSUME IsFiniteSet(Species), TypeInv, ProportionInv, ProportionInv',
         NEW p \in Planets \ outsized, NEW b \in 0..Whole, NEW s \in Species,
         UNCHANGED outsized, job.planet = p, job.amount = b, job' = job,
         listed[s] \in 0..Whole, listed[s] = shares[p][s], listed' = LeftAfter(s),
         SetShare(p, s, Diluted(listed[s], b)),
         Total(Weights, Species) <= Whole * (Whole - b)
  PROVE  /\ Total(Weights', Species) <= Whole * (Whole - b)
         /\ LeftAfter(s) = NoSpecies => Population(p)' <= Whole - b
<1>t. PlanetTypes /\ Whole \in Int /\ Whole - b \in Nat
  BY PlanetTyping DEF OrbitalAssumption
<1>v. PICK v \in 0..Whole, old \in 0..Whole :
         /\ old = listed[s] /\ v = Diluted(old, b) /\ v * Whole <= old * (Whole - b)
  <2>1. Diluted(listed[s], b) \in 0..listed[s]
        /\ Diluted(listed[s], b) * Whole <= listed[s] * (Whole - b)
    BY DilutedBounds
  <2>2. Diluted(listed[s], b) \in 0..Whole
    BY <2>1 DEF OrbitalAssumption
  <2>3. QED
    BY <2>1, <2>2
<1>p. Part(v) = v /\ Part(old) = old /\ v \in Int /\ old \in Int /\ old \notin {Absent, Null}
  BY DEF Part, OrbitalAssumption
<1>1. shares'[p][s] = v /\ \A r \in Species \ {s} : shares'[p][r] = shares[p][r]
  BY <1>t, <1>v DEF SetShare, PlanetTypes
<1>2. listed'[s] = Absent /\ \A r \in Species \ {s} : listed'[r] = listed[r]
  BY <1>t DEF LeftAfter, PlanetTypes
<1>3. PICK f, g : f = Weights /\ g = Weights'
  OBVIOUS
<1>4. f = [r \in Species |-> f[r]] /\ g = [r \in Species |-> g[r]]
      /\ DOMAIN f = Species /\ DOMAIN g = Species
  BY <1>3 DEF Weights
<1>5. f[s] = (Whole - b) * old /\ g[s] = Whole * v
  BY <1>p, <1>v, <1>1, <1>2, <1>3 DEF Weights
<1>6. \A r \in Species \ {s} : g[r] = f[r]
  BY <1>1, <1>2, <1>3 DEF Weights
<1>7. f[s] \in Int /\ g[s] \in Int /\ g[s] <= f[s]
  <2>1. Whole * v = v * Whole /\ (Whole - b) * old = old * (Whole - b)
        /\ Whole * v \in Int /\ (Whole - b) * old \in Int
    BY <1>t, <1>p, ProductInt
  <2>2. QED
    BY <1>v, <1>5, <2>1
<1>8. \A r \in Species : f[r] \in Int /\ g[r] \in Int
  BY <1>3, <1>6, <1>7, WeightType
<1>9. Total(g, Species) = Total(f, Species) + (g[s] - f[s])
  <2>1. f \in [Species -> Int] /\ g \in [Species -> Int]
    BY <1>4, <1>8
  <2>2. \A x \in Species : (\A r \in Species \ {x} : g[r] = f[r])
           => Total(g, Species) = Total(f, Species) + (g[x] - f[x])
    BY <2>1, SpeciesTotalChanged
  <2>3. QED
    BY <1>6, <2>2
<1>10. Total(f, Species) \in Int /\ Total(g, Species) \in Int /\ Whole * (Whole - b) \in Int
  <2>1. f \in [Species -> Int] /\ g \in [Species -> Int]
    BY <1>4, <1>8
  <2>2. QED
    BY <1>t, <2>1, TotalType, ProductInt
<1>11. Total(g, Species) <= Whole * (Whole - b)
  BY <1>3, <1>7, <1>9, <1>10
<1>12. ASSUME LeftAfter(s) = NoSpecies PROVE Population(p)' <= Whole - b
  <2>1. PICK h : h = Parts(p)'
    OBVIOUS
  <2>2. h = [r \in Species |-> Part(shares'[p][r])]
    BY <2>1 DEF Parts
  <2>3. ASSUME NEW r \in Species PROVE h[r] \in Int /\ g[r] = Whole * h[r]
    <3>1. h[r] = Part(shares'[p][r])
      BY <2>2
    <3>2. shares'[p][r] \in Proportions
      BY DEF ProportionInv
    <3>3. h[r] \in Int
      BY <3>1, <3>2, PartType DEF OrbitalAssumption
    <3>4. listed'[r] = Absent
      BY <1>12 DEF NoSpecies
    <3>5. g[r] = Whole * Part(shares'[p][r])
      BY <1>3, <3>4 DEF Weights
    <3>6. QED
      BY <3>1, <3>3, <3>5
  <2>4. h \in [Species -> Int]
    BY <2>2, <2>3
  <2>w. Whole \in Int /\ \A r \in Species : g[r] = Whole * h[r]
    BY <1>t, <2>3
  <2>5. Total(g, Species) = Whole * Total(h, Species) /\ Total(h, Species) \in Int
    BY <2>w, <2>4, SpeciesTotalScaled
  <2>6. Whole * Total(h, Species) <= Whole * (Whole - b)
    BY <1>11, <2>5
  <2>7. Total(h, Species) <= Whole - b
    BY <1>t, <2>5, <2>6, ProductCancels DEF OrbitalAssumption
  <2>8. QED
    BY <2>1, <2>7, PopulationIsTotalNext
<1>13. QED
  BY <1>3, <1>11, <1>12

\* A deployment of what is no proportion leaves the other planets alone.
LEMMA OutsizedKeepsBound ==
  ASSUME IsFiniteSet(Species), TypeInv, PopulationInv, [Next]_vars, refusals = 0,
         job.planet \in outsized, NEW o \in Outcomes,
         (\E s \in Species : DeployDilute(s, o)) \/ DeployPay(o) \/ DeployPost(o)
  PROVE  PopulationInv'
<1>1. outsized' = outsized
  BY DEF DeployDilute, DeployPay, DeployPost
<1>2. phase' \in {"idle", "reload"} \/ job' = job
  BY DEF DeployDilute, DeployPay, DeployPost, Await, Terminate, Return
<1>3. ASSUME NEW q \in Planets \ outsized PROVE Population(q)' <= Whole
  <2>1. shares'[q] = shares[q]
    <3>1. ShareEffect
      BY NextPlanets DEF PlanetEffect
    <3>2. QED
      BY <3>1, ShareAfter DEF ShareEffect
  <2>2. QED
    BY <2>1, PopulationElsewhere DEF PopulationInv
<1>4. QED
  BY <1>1, <1>2, <1>3 DEF PopulationInv

LEMMA DilutionKeepsBound ==
  ASSUME IsFiniteSet(Species), TypeInv, ProportionInv, ProportionInv',
         PopulationInv, refusals = 0, refusals' = 0, job.planet \notin outsized,
         NEW s \in Species, NEW o \in Outcomes, DeployDilute(s, o)
  PROVE  PopulationInv'
<1>0. phase = "deploy_dilute" /\ listed[s] \notin {Absent, Null}
  BY DEF DeployDilute
<1>o. outsized' = outsized
  BY DEF DeployDilute, DeployPay, DeployPost
<1>1. PICK p \in Planets \ outsized, b \in 0..Whole : p = job.planet /\ b = job.amount
  BY <1>0, RunningType DEF Fits, DeployPhases, ProportionInv
<1>2. listed[s] = shares[p][s] /\ listed[s] \in 0..Whole
  BY <1>0, <1>1 DEF PopulationInv, ProportionInv, Proportions
<1>3. \A q \in Planets \ outsized : Population(q) <= Whole /\ Population(q) \in Int
  BY PopulationType DEF PopulationInv
<1>4. PICK v \in Percentages : v = Diluted(listed[s], b) /\ v \in 0..listed[s]
  <2>1. Diluted(listed[s], b) \in 0..listed[s]
    BY <1>2, DilutedBounds
  <2>2. QED
    BY <1>2, <2>1 DEF Percentages
<1>5. UNCHANGED shares \/ SetShare(p, s, v)
  BY <1>1, <1>4 DEF DeployDilute, PutPercentage
<1>6. \A q \in Planets \ outsized : Population(q)' <= Whole
  <2>1. CASE UNCHANGED shares
    BY <1>3, <2>1, PopulationUnchanged
  <2>2. CASE SetShare(p, s, v)
    <3>1. v \in Proportions /\ Part(v) = v /\ Part(shares[p][s]) = listed[s]
          /\ v \in Int /\ listed[s] \in Int /\ v <= listed[s]
      BY <1>2, <1>4 DEF Proportions, Part, OrbitalAssumption
    <3>2. /\ Population(p)' = Population(p) + (Part(v) - Part(shares[p][s]))
          /\ \A q \in Planets \ {p} : Population(q)' = Population(q)
      BY <2>2, <3>1, PopulationChanged
    <3>3. Population(p)' <= Whole
      BY <1>3, <3>1, <3>2 DEF OrbitalAssumption
    <3>4. ASSUME NEW q \in Planets \ outsized PROVE Population(q)' <= Whole
      BY <1>3, <3>2, <3>3
    <3>5. QED
      BY <3>4
  <2>3. QED
    BY <1>5, <2>1, <2>2
<1>7. CASE Terminate
  <2>1. phase' = "idle"
    BY <1>7 DEF Terminate, Return, Await
  <2>2. QED
    BY <1>o, <1>6, <2>1 DEF PopulationInv
<1>8. CASE Returns(o)
  <2>1. o = "answered"
    BY <1>8 DEF Returns, DeployDilute, Request, ReadsEmpty
  <2>2. SetShare(p, s, Diluted(listed[s], b))
    BY <1>0, <1>1, <1>2, <2>1 DEF DeployDilute, PutPercentage, Applied
  <2>3. /\ listed' = LeftAfter(s) /\ job' = job
        /\ phase' = IF LeftAfter(s) = NoSpecies THEN "deploy_pay" ELSE "deploy_dilute"
    BY <1>8, <2>1 DEF DeployDilute, Await, Returns, ReadsEmpty
  <2>4. Total(Weights, Species) <= Whole * (Whole - b)
    BY <1>0, <1>1 DEF PopulationInv
  <2>5. /\ Total(Weights', Species) <= Whole * (Whole - b)
        /\ LeftAfter(s) = NoSpecies => Population(p)' <= Whole - b
    BY <1>o, <1>1, <1>2, <2>2, <2>3, <2>4, WeightsDiluted
  <2>6. \A r \in Species : listed'[r] \in {Absent, shares'[p][r]}
    <3>1. PlanetTypes
      BY PlanetTyping
    <3>2. \A r \in Species \ {s} : shares'[p][r] = shares[p][r]
      BY <2>2, <3>1 DEF SetShare, PlanetTypes
    <3>3. \A r \in Species : listed[r] \in {Absent, shares[p][r]}
      BY <1>0, <1>1 DEF PopulationInv
    <3>4. QED
      BY <2>3, <3>1, <3>2, <3>3 DEF LeftAfter, PlanetTypes
  <2>7. job'.planet = p /\ job'.amount = b
    BY <1>1, <2>3
  <2>8. CASE LeftAfter(s) = NoSpecies
    BY <1>o, <1>6, <2>3, <2>5, <2>7, <2>8 DEF PopulationInv
  <2>9. CASE LeftAfter(s) # NoSpecies
    BY <1>o, <1>6, <2>3, <2>5, <2>6, <2>7, <2>9 DEF PopulationInv
  <2>10. QED
    BY <2>8, <2>9
<1>9. QED
  BY <1>7, <1>8 DEF DeployDilute

\* The payment touches no share, and the insertion takes up the room it was paid for.
LEMMA InsertionKeepsBound ==
  ASSUME IsFiniteSet(Species), TypeInv, ProportionInv, PopulationInv, refusals = 0,
         job.planet \notin outsized, NEW o \in Outcomes, DeployPay(o) \/ DeployPost(o)
  PROVE  PopulationInv'
<1>0. phase \in {"deploy_pay", "deploy_post"}
  BY DEF DeployPay, DeployPost
<1>o. outsized' = outsized
  BY DEF DeployDilute, DeployPay, DeployPost
<1>1. PICK p \in Planets \ outsized, b \in 0..Whole : p = job.planet /\ b = job.amount
  BY <1>0, RunningType DEF Fits, DeployPhases, ProportionInv
<1>2. \A q \in Planets \ outsized : Population(q) <= Whole /\ Population(q) \in Int
  BY PopulationType DEF PopulationInv
<1>3. Population(p) <= Whole - b
  BY <1>0, <1>1 DEF PopulationInv
<1>4. CASE DeployPay(o)
  <2>1. \A q \in Planets : Population(q)' = Population(q)
    BY <1>4, PopulationUnchanged DEF DeployPay
  <2>2. phase' = "idle" \/ (phase' = "deploy_post" /\ job' = job)
    BY <1>4 DEF DeployPay, Await, Terminate, Return
  <2>3. phase' = "deploy_post" => Population(p)' <= Whole - b /\ job'.planet = p /\ job'.amount = b
    BY <1>1, <1>3, <2>1, <2>2
  <2>4. QED
    BY <1>o, <1>2, <2>1, <2>2, <2>3 DEF PopulationInv
<1>5. CASE DeployPost(o)
  <2>1. phase' \in {"idle", "reload"}
    BY <1>5 DEF DeployPost, Await, Terminate, Return
  <2>2. PICK n \in Species : n = job.name
    BY <1>0, RunningType DEF Fits
  <2>3. UNCHANGED shares \/ SetShare(p, n, b)
    BY <1>1, <1>5, <2>2 DEF DeployPost, PostSpecies
  <2>4. \A q \in Planets \ outsized : Population(q)' <= Whole
    <3>1. CASE UNCHANGED shares
      BY <1>2, <3>1, PopulationUnchanged
    <3>2. CASE SetShare(p, n, b)
      <4>1. b \in Proportions /\ Part(b) = b /\ b \in Int
        BY DEF Proportions, Part, OrbitalAssumption
      <4>2. Part(shares[p][n]) \in 0..Whole
        BY PartType DEF ProportionInv
      <4>3. /\ Population(p)' = Population(p) + (Part(b) - Part(shares[p][n]))
            /\ \A q \in Planets \ {p} : Population(q)' = Population(q)
        BY <3>2, <4>1, PopulationChanged
      <4>4. Population(p)' <= Whole
        BY <1>2, <1>3, <4>1, <4>2, <4>3 DEF OrbitalAssumption
      <4>5. ASSUME NEW q \in Planets \ outsized PROVE Population(q)' <= Whole
        BY <1>2, <4>3, <4>4
      <4>6. QED
        BY <4>5
    <3>3. QED
      BY <2>3, <3>1, <3>2
  <2>5. QED
    BY <1>o, <2>1, <2>4 DEF PopulationInv
<1>6. QED
  BY <1>4, <1>5

LEMMA NextPopulation ==
  ASSUME IsFiniteSet(Species), TypeInv, ProportionInv, ProportionInv', PopulationInv,
         [Next]_vars
  PROVE  PopulationInv'
<1> SUFFICES ASSUME refusals' = 0 PROVE PopulationInv'
  BY DEF PopulationInv
<1>1. refusals = 0
  BY RefusalsCounted
<1>g. outsized \subseteq outsized'
  BY NextPlanets DEF PlanetEffect
<1>2. CASE UNCHANGED <<shares, handlerVars>>
  <2>1. \A p \in Planets : Population(p)' = Population(p)
    BY <1>2, PopulationUnchanged
  <2>2. Weights' = Weights
    BY <1>2 DEF Weights, handlerVars
  <2>3. shares' = shares /\ phase' = phase /\ job' = job /\ listed' = listed
    BY <1>2 DEF handlerVars
  <2>o. \A p \in Planets \ outsized' : Population(p)' <= Whole
    BY <1>1, <1>g, <2>1 DEF PopulationInv
  <2>4. CASE phase \in {"deploy_pay", "deploy_post"}
    <3>1. PICK p \in Planets : p = job.planet
      BY <2>4, RunningType DEF Fits
    <3>2. p \notin outsized' => Population(p)' <= Whole - job'.amount
      BY <1>1, <1>g, <2>1, <2>3, <2>4, <3>1 DEF PopulationInv
    <3>3. QED
      BY <2>o, <2>3, <2>4, <3>1, <3>2 DEF PopulationInv
  <2>5. CASE phase = "deploy_dilute"
    <3>1. job.planet \notin outsized' =>
            /\ \A s \in Species : listed'[s] \in {Absent, shares'[job'.planet][s]}
            /\ Total(Weights', Species) <= Whole * (Whole - job'.amount)
      BY <1>1, <1>g, <2>2, <2>3, <2>5 DEF PopulationInv
    <3>2. QED
      BY <2>o, <2>3, <2>5, <3>1 DEF PopulationInv
  <2>6. CASE phase \notin {"deploy_dilute", "deploy_pay", "deploy_post"}
    BY <2>o, <2>3, <2>6 DEF PopulationInv
  <2>7. QED
    BY <2>4, <2>5, <2>6
<1>3. CASE Withdraws
  <2>1. \A p \in Planets \ outsized' : Population(p)' <= Whole
    BY <1>3, <1>g, WithdrawalsKeep
  <2>2. QED
    BY <1>3, <2>1 DEF PopulationInv, Withdraws, DeployPhases
<1>4. CASE Deploys
  BY <1>1, <1>4, QueryKeepsBound, OutsizedKeepsBound, DilutionKeepsBound,
     InsertionKeepsBound DEF Deploys
<1>5. QED
  BY <1>2, <1>3, <1>4, OtherSteps

\* As long as every request is answered or breaks no planet is more than full: the
\* others are diluted before the new species is inserted (see PopulationBounded).
THEOREM PopulationStaysBounded ==
  ASSUME WithinAPlanet, IsFiniteSet(Species)
  PROVE  Spec /\ (\A p \in Planets : Population(p) <= Whole) => []PopulationBounded
<1>1. Init /\ (\A p \in Planets : Population(p) <= Whole) => PopulationInv
  BY DEF Init, ServerInit, PopulationInv
<1>2. TypeInv /\ ProportionInv /\ ProportionInv' /\ PopulationInv /\ [Next]_vars
        => PopulationInv'
  BY NextPopulation
<1>3. PopulationInv => PopulationBounded
  BY DEF PopulationInv, PopulationBounded
<1>4. QED
  BY <1>1, <1>2, <1>3, ProportionsHold, TypeInvariant, PTL DEF Spec
-----------------------------------------------------------------------------
(* The accounts.                                                             *)

PayPhases == {"warp_pay", "deploy_dilute", "deploy_pay"}

\* From the guard of a paid command to its payment the session can pay for it.
Affordable == phase \in PayPhases => job.amount <= biomass[job.conn]

\* A sound account has one session at most.
SoleSession ==
    \A u \in sound, c, d \in Conns : user[c] = u /\ user[d] = u => c = d

\* The inductive invariant behind the account properties.
AccountInv ==
    /\ Funded \subseteq hasBiomass
    /\ Affordable
    /\ SoleSession
    /\ \A u \in Funded :
          /\ dbBiomass[u] \in 0..(Opening[u] + granted[u])
          /\ \A c \in Conns : user[c] = u =>
                /\ biomass[c] \in 0..(Opening[u] + granted[u])
                /\ u \in sound => biomass[c] = dbBiomass[u]
-----------------------------------------------------------------------------
\* What a step can do to the accounts: nothing, but for an account that lapses
\* or sessions that end; or log a session in; or open or close one; or save the
\* balance of the running handler's session.

Quiet ==
    /\ UNCHANGED <<dbBiomass, hasBiomass, granted>>
    /\ \E u \in Users \cup {None} : sound' \in {sound, sound \ {u}}
    /\ \/ UNCHANGED <<user, biomass>>
       \/ \A c \in Conns : user'[c] = None

LoggedIn ==
    /\ UNCHANGED <<dbBiomass, hasBiomass, granted>>
    /\ \E c \in conns, u \in Users :
          /\ user' = [user EXCEPT ![c] = u]
          /\ biomass' = [biomass EXCEPT ![c] = BalanceRead(c, u)]
          /\ sound' = IF \E d \in conns \ {c} : user[d] = u THEN sound \ {u} ELSE sound

Reseated ==
    /\ UNCHANGED <<dbBiomass, hasBiomass, granted, sound>>
    /\ \E c \in Conns, b \in Int :
          /\ user' = [user EXCEPT ![c] = None]
          /\ biomass' = [biomass EXCEPT ![c] = b]

Grantable  == {Yield[x] : x \in ExtractAmounts} \cup {Credit(b) : b \in DeployAmounts} \cup {0}
Chargeable == Fares \cup {Price(b) : b \in DeployAmounts}

\* The session c of the running handler is given g, or pays its job; then its
\* balance is b, and is saved.
Saved(o, c, b, g) ==
    /\ c = job.conn
    /\ SaveBiomass(o, c, b)
    /\ granted' = IF o = "unsent" THEN granted ELSE Tally(granted, user[c], g)
    /\ \/ Returns(o) /\ UNCHANGED user /\ biomass' = [biomass EXCEPT ![c] = b]
       \/ ~Returns(o) /\ \A d \in Conns : user'[d] = None
    /\ \/ g \in Grantable /\ b = biomass[c] + g
       \/ g = 0 /\ \E a \in Chargeable : b = biomass[c] - a /\ a <= biomass[c]

SavedBy == \E o \in Outcomes, c \in conns, b \in Int, g \in Nat : Saved(o, c, b, g)

Effect == Quiet \/ LoggedIn \/ Reseated \/ SavedBy

LEMMA ChargeableNat == Chargeable \subseteq Nat /\ Grantable \subseteq Nat
<1>1. ASSUME NEW f \in Fares PROVE f \in Nat
  <2>1. PICK a \in Places, b \in Places : f = Cost[a][b] /\ f > 0
    BY <1>1 DEF Fares
  <2>2. Cost[a][b] \in Int
    BY DEF CostAssumption
  <2>3. QED
    BY <2>1, <2>2
<1>2. Chargeable \subseteq Nat
  BY <1>1, PriceType DEF Chargeable, OrbitalAssumption
<1>3. Grantable \subseteq Nat
  BY PriceType DEF Grantable, OrbitalAssumption
<1>4. QED
  BY <1>2, <1>3

LEMMA TerminateQuiet ==
  ASSUME Terminate
  PROVE  /\ \A c \in Conns : user'[c] = None
         /\ Affordable'
  BY DEF Terminate, Return, Await, Affordable, PayPhases

LEMMA NoteSound ==
  ASSUME TypeInv, NEW o, NEW u \in Users \cup {None}, NoteWrite(o, u)
  PROVE  \E v \in Users \cup {None} : sound' \in {sound, sound \ {v}}
  BY DEF NoteWrite

LEMMA TallyZero ==
  ASSUME NEW book \in [Users -> Nat], NEW u
  PROVE  u \in Users \cup {None} => Tally(book, u, 0) = book
  BY DEF Tally

LEMMA InitAccount == Init => AccountInv
<1> SUFFICES ASSUME Init PROVE AccountInv
  OBVIOUS
<1>1. /\ phase = "idle" /\ hasBiomass = Funded
      /\ user = [c \in Conns |-> None] /\ biomass = [c \in Conns |-> 0]
      /\ dbBiomass = Opening /\ granted = [u \in Users |-> 0]
  BY DEF Init, AlmanacInit, AuditInit, ServerInit
<1>2. ASSUME NEW c \in Conns, NEW u \in Users PROVE user[c] # u
  BY <1>1 DEF AlmanacAssumption
<1>3. SoleSession
  <2>1. sound \subseteq Users
    BY DEF Init, AuditInit
  <2>2. QED
    BY <1>2, <2>1 DEF SoleSession
<1>4. ASSUME NEW u \in Funded
      PROVE  dbBiomass[u] \in 0..(Opening[u] + granted[u])
  <2>1. Opening[u] \in Nat /\ dbBiomass[u] = Opening[u] /\ granted[u] = 0
    BY <1>1 DEF AlmanacAssumption
  <2>2. QED
    BY <2>1
<1>5. Affordable
  BY <1>1 DEF Affordable, PayPhases
<1>6. Funded \subseteq Users
  BY DEF AlmanacAssumption
<1>7. QED
  BY <1>1, <1>2, <1>3, <1>4, <1>5, <1>6 DEF AccountInv

-----------------------------------------------------------------------------
LEMMA LifecycleEffect ==
  ASSUME TypeInv, Affordable, Lifecycle
  PROVE  Effect /\ Affordable'
<1>1. CASE Start
  BY <1>1 DEF Start, Effect, Quiet, dbVars, auditVars, sessionVars, handlerVars, Affordable
<1>2. CASE RunOutOfWork
  BY <1>2, TerminateQuiet DEF RunOutOfWork, Effect, Quiet, dbVars, auditVars
<1>3. ASSUME NEW c \in Conns, OnConnectionOpen(c) PROVE Effect /\ Affordable'
  <2>1. user' = [user EXCEPT ![c] = None]
    BY <1>3 DEF OnConnectionOpen, TypeInv, MemoryOK, ServerTypeOK, SessionsOK
  <2>2. PICK b \in Garbage : biomass' = [biomass EXCEPT ![c] = b]
    BY <1>3 DEF OnConnectionOpen
  <2>3. Reseated
    <3>1. b \in Int
      BY DEF ServerAssumption
    <3>2. UNCHANGED <<dbBiomass, hasBiomass, granted, sound>>
      BY <1>3 DEF OnConnectionOpen, dbVars, auditVars
    <3>3. user' = [user EXCEPT ![c] = None] /\ biomass' = [biomass EXCEPT ![c] = b]
      BY <2>1, <2>2
    <3>4. QED
      BY <3>1, <3>2, <3>3, Zenon DEF Reseated
  <2>4. Affordable'
    BY <1>3 DEF OnConnectionOpen, Affordable, PayPhases, handlerVars
  <2>5. QED
    BY <2>3, <2>4 DEF Effect
<1>4. ASSUME NEW c \in Conns, OnConnectionClose(c) PROVE Effect /\ Affordable'
  <2>1. Reseated
    <3>1. /\ UNCHANGED <<dbBiomass, hasBiomass, granted, sound>>
          /\ user' = [user EXCEPT ![c] = None]
          /\ biomass' = [biomass EXCEPT ![c] = 0]
      BY <1>4 DEF OnConnectionClose, dbVars, auditVars
    <3>2. 0 \in Int
      OBVIOUS
    <3>3. QED
      BY <3>1, <3>2 DEF Reseated
  <2>2. Affordable'
    BY <1>4 DEF OnConnectionClose, Free, Affordable, PayPhases, handlerVars
  <2>3. QED
    BY <2>1, <2>2 DEF Effect
<1>5. ASSUME NEW c \in Conns, StopListening(c) PROVE Effect /\ Affordable'
  BY <1>5, TerminateQuiet DEF StopListening, Effect, Quiet, dbVars, auditVars, sessionVars,
           handlerVars, Affordable
<1>6. QED
  BY <1>1, <1>2, <1>3, <1>4, <1>5 DEF Lifecycle

LEMMA CommandEffect ==
  ASSUME TypeInv, Affordable, NEW c \in Conns, Command(c)
  PROVE  Effect /\ Affordable'
<1> USE DEF Effect
<1>u. user[c] \in Users \cup {None}
  BY DEF TypeInv, MemoryOK, ServerTypeOK
<1>1. ASSUME NEW o \in Outcomes, NEW u \in Users, UserEndpoint(c, u, o)
      PROVE  Effect /\ Affordable'
  <2>1. CASE o = "answered"
    BY <1>1, <2>1 DEF UserEndpoint, Free, Returns, LoggedIn, dbVars, handlerVars, Affordable,
             PayPhases, ReadsEmpty
  <2>2. CASE o # "answered"
    BY <1>1, <2>2, TerminateQuiet DEF UserEndpoint, Quiet, dbVars, sessionVars, handlerVars,
             Affordable
  <2>3. QED
    BY <2>1, <2>2
<1>2. ASSUME NEW o \in Outcomes, NEW d \in Places, AttemptWarp(c, d, o)
      PROVE  Effect /\ Affordable'
  <2>1. Quiet
    BY <1>u, <1>2, NoteSound, TerminateQuiet DEF AttemptWarp, StayUp, Quiet
  <2>2. CASE Returns(o)
    <3>1. /\ job' = Job(c, None, None, Fare(c, d), 0)
          /\ biomass' = biomass /\ Fare(c, d) < biomass[c]
      BY <1>2, <2>2 DEF AttemptWarp, CanWarp, Await
    <3>2. job'.conn = c /\ job'.amount = Fare(c, d)
      BY <3>1 DEF Job
    <3>3. Fare(c, d) \in Int /\ biomass[c] \in Int
      BY <1>2 DEF AttemptWarp, Free, Fare, TypeInv, MemoryOK, ServerTypeOK, SessionsOK,
               CostAssumption
    <3>4. QED
      BY <2>1, <3>1, <3>2, <3>3 DEF Affordable
  <2>4. CASE ~Returns(o)
    BY <1>2, <2>1, <2>4, TerminateQuiet DEF AttemptWarp
  <2>3. QED
    BY <2>2, <2>4
<1>3. ASSUME NEW o \in Outcomes, NEW d \in Places, SavePosition(c, d, o)
      PROVE  Effect /\ Affordable'
  BY <1>u, <1>3, NoteSound, TerminateQuiet DEF SavePosition, Quiet, sessionVars, handlerVars,
           Affordable
<1>4. ASSUME NEW o \in Outcomes, NEW p \in Planets, NEW s \in Species,
             NEW x \in ExtractAmounts, ExtractQuery(c, p, s, x, o)
      PROVE  Effect /\ Affordable'
  BY <1>4, TerminateQuiet DEF ExtractQuery, StayUp, Await, Quiet, dbVars, auditVars,
           sessionVars, handlerVars, Affordable, PayPhases
<1>5. ASSUME NEW o \in Outcomes, NEW p \in Planets, NEW s \in Species,
             NEW b \in DeployAmounts, DeployQuery(c, p, s, b, o)
      PROVE  Effect /\ Affordable'
  BY <1>5, TerminateQuiet DEF DeployQuery, StayUp, Await, Job, Quiet, dbVars, auditVars,
           Affordable
<1>6. ASSUME NEW o \in Outcomes, NEW p \in Planets, NEW s \in Species,
             EditInPlanet(c, p, s, o)
      PROVE  Effect /\ Affordable'
  BY <1>6, TerminateQuiet DEF EditInPlanet, StayUp, Await, Quiet, dbVars, auditVars,
           Affordable, PayPhases
<1>7. QED
  BY <1>1, <1>2, <1>3, <1>4, <1>5, <1>6 DEF Command

-----------------------------------------------------------------------------
\* A handler that pays its job, or is granted g, saves its session's balance. A
\* fare, and a deployment of some biomass, is paid; one of less than nothing is
\* a grant.

LEMMA PaymentSaved ==
  ASSUME TypeInv, Affordable, phase \in {"warp_pay", "deploy_pay"},
         NEW o \in Outcomes, SaveBiomass(o, job.conn, AfterPayment),
         granted' = IF o = "unsent" THEN granted
                    ELSE Tally(granted, user[job.conn], Credit(job.amount)),
         \/ Returns(o) /\ UNCHANGED user
               /\ biomass' = [biomass EXCEPT ![job.conn] = AfterPayment]
         \/ ~Returns(o) /\ Terminate
  PROVE  SavedBy /\ Saved(o, job.conn, AfterPayment, Credit(job.amount))
<1> DEFINE c == job.conn  g == Credit(job.amount)
<1>1. /\ c \in conns /\ biomass[c] \in Int /\ job.amount \in Int
      /\ Fits(phase, job) /\ job.amount <= biomass[c]
  BY RunningType DEF Affordable, PayPhases
<1>2. g \in Nat /\ AfterPayment \in Int /\ AfterPayment = biomass[c] - job.amount
  BY <1>1, PriceType DEF AfterPayment
<1>3. \/ g \in Grantable /\ AfterPayment = biomass[c] + g
      \/ g = 0 /\ \E a \in Chargeable : AfterPayment = biomass[c] - a /\ a <= biomass[c]
  <2>1. CASE job.amount >= 0
    <3>1. g = 0 /\ job.amount \in Chargeable
      <4>1. CASE phase = "warp_pay"
        BY <1>1, <2>1, <4>1 DEF Fits, Chargeable, Credit
      <4>2. CASE phase = "deploy_pay"
        <5>1. job.amount \in DeployAmounts /\ Price(job.amount) = job.amount
          BY <1>1, <2>1, <4>2 DEF Fits, DeployPhases, Price
        <5>2. QED
          BY <1>1, <2>1, <5>1 DEF Chargeable, Credit
      <4>3. QED
        BY <4>1, <4>2
    <3>2. QED
      BY <1>1, <1>2, <3>1
  <2>2. CASE job.amount < 0
    <3>1. phase = "deploy_pay" /\ job.amount \in DeployAmounts
      BY <1>1, <2>2, ChargeableNat DEF Fits, DeployPhases, Chargeable
    <3>2. g \in Grantable /\ g = -job.amount
      BY <2>2, <3>1 DEF Grantable, Credit
    <3>3. QED
      BY <1>1, <1>2, <3>2
  <2>3. QED
    BY <1>1, <2>1, <2>2
<1>4. Saved(o, c, AfterPayment, g)
  BY <1>3, TerminateQuiet DEF Saved
<1>5. QED
  BY <1>1, <1>2, <1>4 DEF SavedBy

\* A fare is never a grant.
LEMMA FareSaved ==
  ASSUME TypeInv, Affordable, NEW o \in Outcomes, WarpPay(o)
  PROVE  SavedBy /\ Saved(o, job.conn, AfterPayment, 0)
<1>1. /\ user[job.conn] \in Users \cup {None} /\ Fits(phase, job) /\ phase = "warp_pay"
  BY RunningType DEF WarpPay
<1>2. Credit(job.amount) = 0
  BY <1>1, ChargeableNat DEF Fits, Chargeable, Credit
<1>3. granted' = IF o = "unsent" THEN granted
                 ELSE Tally(granted, user[job.conn], Credit(job.amount))
  BY <1>1, <1>2, TallyZero DEF WarpPay, TypeInv, StoreOK, AuditTypeOK
<1>4. QED
  BY <1>2, <1>3, PaymentSaved DEF WarpPay, StayUp

LEMMA CreditSaved ==
  ASSUME TypeInv, NEW o \in Outcomes, ExtractCredit(o)
  PROVE  SavedBy /\ Saved(o, job.conn, biomass[job.conn] + Yield[job.amount], Yield[job.amount])
<1>1. /\ job.conn \in conns /\ biomass[job.conn] \in Int /\ job.amount \in ExtractAmounts
  BY RunningType DEF ExtractCredit, Fits, ExtractPhases
<1> DEFINE c == job.conn  g == Yield[job.amount]  b == biomass[c] + g
<1>2. g \in Nat
  BY <1>1 DEF OrbitalAssumption
<1>u. g \in Grantable /\ b \in Int
  <2>1. g \in Grantable
    BY <1>1 DEF Grantable
  <2>2. QED
    BY <1>1, <1>2, <2>1
<1>3. /\ SaveBiomass(o, c, b)
      /\ granted' = IF o = "unsent" THEN granted ELSE Tally(granted, user[c], g)
      /\ \/ Returns(o) /\ UNCHANGED user /\ biomass' = [biomass EXCEPT ![c] = b]
         \/ ~Returns(o) /\ Terminate
  BY DEF ExtractCredit, StayUp
<1> HIDE DEF g, b
<1>4. Saved(o, c, b, g)
  BY <1>u, <1>3, TerminateQuiet DEF Saved, b
<1>5. QED
  BY <1>1, <1>2, <1>u, <1>4 DEF SavedBy, b, g

LEMMA HandlerEffect ==
  ASSUME TypeInv, Affordable, HandlerStep
  PROVE  Effect /\ Affordable'
<1> USE DEF Effect
<1>1. ASSUME NEW o \in Outcomes, WarpPay(o) PROVE Effect /\ Affordable'
  <2>1. SavedBy
    BY <1>1, FareSaved
  <2>2. Affordable'
    BY <1>1, TerminateQuiet DEF WarpPay, Return, Await, Affordable, PayPhases
  <2>3. QED
    BY <2>1, <2>2
<1>2. ASSUME NEW o \in Outcomes, DeployPay(o) PROVE Effect /\ Affordable'
  <2>1. SavedBy
    BY <1>2, PaymentSaved DEF DeployPay, StayUp
  <2>2. Affordable'
    BY <1>2, TerminateQuiet DEF DeployPay, Await, Affordable, PayPhases
  <2>3. QED
    BY <2>1, <2>2
<1>3. ASSUME NEW o \in Outcomes, ExtractCredit(o) PROVE Effect /\ Affordable'
  <2>1. SavedBy
    BY <1>3, CreditSaved
  <2>2. Affordable'
    BY <1>3, TerminateQuiet DEF ExtractCredit, Await, Affordable, PayPhases
  <2>3. QED
    BY <2>1, <2>2
<1>4. ASSUME NEW o \in Outcomes, ExtractPut(o) \/ ExtractDelete(o) \/ DeployPost(o)
      PROVE  Effect /\ Affordable'
  <2>1. user[job.conn] \in Users \cup {None}
    BY <1>4, RunningType DEF ExtractPut, ExtractDelete, DeployPost
  <2>2. Quiet
    BY <1>4, <2>1, NoteSound, TerminateQuiet DEF ExtractPut, ExtractDelete, DeployPost,
             StayUp, Quiet
  <2>3. Affordable'
    BY <1>4, TerminateQuiet DEF ExtractPut, ExtractDelete, DeployPost, Await, Affordable,
             PayPhases
  <2>4. QED
    BY <2>2, <2>3
<1>5. ASSUME NEW o \in Outcomes, NEW s \in Species, DeployDilute(s, o)
      PROVE  Effect /\ Affordable'
  <2>1. user[job.conn] \in Users \cup {None}
    BY <1>5, RunningType DEF DeployDilute
  <2>2. Quiet
    BY <1>5, <2>1, NoteSound, TerminateQuiet DEF DeployDilute, StayUp, Quiet
  <2>3. Affordable'
    BY <1>5, TerminateQuiet DEF DeployDilute, Await, Affordable, PayPhases
  <2>4. QED
    BY <2>2, <2>3
<1>6. ASSUME NEW o \in Outcomes, Reload(o) PROVE Effect /\ Affordable'
  BY <1>6, TerminateQuiet DEF Reload, Return, Await, StayUp, Quiet, dbVars, auditVars,
           Affordable, PayPhases
<1>7. CASE ExtractNotANumber \/ DeployUnreadable
  BY <1>7, TerminateQuiet DEF ExtractNotANumber, DeployUnreadable, Quiet, dbVars, auditVars
<1>8. QED
  BY <1>1, <1>2, <1>3, <1>4, <1>5, <1>6, <1>7 DEF HandlerStep

LEMMA NextEffect ==
  ASSUME TypeInv, Affordable, [Next]_vars
  PROVE  Effect /\ Affordable'
<1>1. CASE Lifecycle
  BY <1>1, LifecycleEffect
<1>2. ASSUME NEW c \in Conns, NEW d \in Places, MoveTo(c, d) PROVE Effect /\ Affordable'
  BY <1>2 DEF MoveTo, Effect, Quiet, dbVars, auditVars, handlerVars, Affordable
<1>3. CASE \E c \in Conns : Command(c)
  BY <1>3, CommandEffect
<1>4. CASE HandlerStep
  BY <1>4, HandlerEffect
<1>5. CASE UNCHANGED vars
  BY <1>5 DEF vars, Effect, Quiet, dbVars, auditVars, sessionVars, handlerVars, Affordable
<1>6. ASSUME NEW c \in Conns, NEW d \in Places, CalcWarpCost(c, d)
      PROVE  Effect /\ Affordable'
  BY <1>6, TerminateQuiet DEF CalcWarpCost, Effect, Quiet, dbVars, auditVars, sessionVars,
           handlerVars, Affordable
<1>7. QED
  BY <1>1, <1>2, <1>3, <1>4, <1>5, <1>6 DEF Next

-----------------------------------------------------------------------------
\* AccountInv survives each effect. What it says of one account:

Books(u) ==
    /\ dbBiomass[u] \in 0..(Opening[u] + granted[u])
    /\ \A c \in Conns : user[c] = u =>
          /\ biomass[c] \in 0..(Opening[u] + granted[u])
          /\ u \in sound => biomass[c] = dbBiomass[u]

LEMMA BooksInv ==
  AccountInv <=> /\ Funded \subseteq hasBiomass /\ Affordable /\ SoleSession
                 /\ \A u \in Funded : Books(u)
  BY DEF AccountInv, Books

LEMMA Typing ==
  ASSUME TypeInv
  PROVE  /\ dbBiomass \in [Users -> Int] /\ hasBiomass \subseteq Users
         /\ granted \in [Users -> Nat] /\ sound \subseteq Users
         /\ conns \subseteq Conns /\ user \in [Conns -> Users \cup {None}]
         /\ biomass \in [Conns -> Int]
         /\ \A c \in Conns : user[c] # None => c \in conns
  BY DEF TypeInv, StoreOK, MemoryOK, AlmanacTypeOK, AuditTypeOK, ServerTypeOK, SessionsOK

LEMMA QuietInv ==
  ASSUME TypeInv, AccountInv, Quiet, Affordable'
  PROVE  AccountInv'
<1>1. /\ dbBiomass' = dbBiomass /\ hasBiomass' = hasBiomass /\ granted' = granted
      /\ sound' \subseteq sound
  BY DEF Quiet
<1>2. CASE UNCHANGED <<user, biomass>>
  BY <1>1, <1>2 DEF AccountInv, SoleSession
<1>3. CASE \A c \in Conns : user'[c] = None
  <2>1. \A c \in Conns, u \in Users : user'[c] # u
    BY <1>3
  <2>2. SoleSession'
    BY <1>1, <2>1, Typing DEF SoleSession
  <2>3. QED
    BY <1>1, <2>1, <2>2 DEF AccountInv
<1>4. QED
  BY <1>2, <1>3 DEF Quiet

LEMMA LoggedInInv ==
  ASSUME TypeInv, AccountInv, LoggedIn, Affordable'
  PROVE  AccountInv'
<1>1. PICK c \in conns, v \in Users :
         /\ user' = [user EXCEPT ![c] = v]
         /\ biomass' = [biomass EXCEPT ![c] = BalanceRead(c, v)]
         /\ sound' = IF \E d \in conns \ {c} : user[d] = v THEN sound \ {v} ELSE sound
  BY DEF LoggedIn
<1>2. dbBiomass' = dbBiomass /\ hasBiomass' = hasBiomass /\ granted' = granted
  BY DEF LoggedIn
<1>3. SoleSession'
  <2>1. SUFFICES ASSUME NEW u \in sound', NEW d \in Conns, NEW e \in Conns,
                        user'[d] = u, user'[e] = u
                 PROVE  d = e
    BY DEF SoleSession
  <2>2. u \in sound /\ u \in Users
    BY <1>1, <2>1, Typing
  <2>3. CASE u = v
    <3>1. \A f \in conns \ {c} : user[f] # v
      BY <1>1, <2>1, <2>3
    <3>2. \A f \in Conns \ {c} : user[f] # v
      BY <3>1, Typing
    <3>3. QED
      BY <1>1, <2>1, <2>3, <3>2, Typing
  <2>4. CASE u # v
    BY <1>1, <2>1, <2>2, <2>4, Typing DEF AccountInv, SoleSession
  <2>5. QED
    BY <2>3, <2>4
<1>4. ASSUME NEW u \in Funded PROVE Books(u)'
  <2>1. Books(u) /\ u \in hasBiomass
    BY BooksInv
  <2>2. ASSUME NEW d \in Conns, user'[d] = u
        PROVE  /\ biomass'[d] \in 0..(Opening[u] + granted[u])
               /\ u \in sound' => biomass'[d] = dbBiomass[u]
    <3>1. CASE d = c
      <4>1. u = v /\ biomass'[d] = BalanceRead(c, v)
        BY <1>1, <2>2, <3>1, Typing
      <4>2. biomass'[d] = dbBiomass[u]
        BY <2>1, <4>1 DEF BalanceRead
      <4>3. QED
        BY <2>1, <4>2 DEF Books
    <3>2. CASE d # c
      <4>1. user[d] = u /\ biomass'[d] = biomass[d] /\ (u \in sound' => u \in sound)
        BY <1>1, <2>2, <3>2, Typing
      <4>2. QED
        BY <2>1, <4>1 DEF Books
    <3>3. QED
      BY <3>1, <3>2
  <2>3. QED
    BY <1>2, <2>1, <2>2 DEF Books
<1>5. QED
  BY <1>2, <1>3, <1>4 DEF AccountInv, Books

LEMMA ReseatedInv ==
  ASSUME TypeInv, AccountInv, Reseated, Affordable'
  PROVE  AccountInv'
<1>1. PICK c \in Conns, b \in Int :
         /\ user' = [user EXCEPT ![c] = None]
         /\ biomass' = [biomass EXCEPT ![c] = b]
  BY DEF Reseated
<1>2. UNCHANGED <<dbBiomass, hasBiomass, granted, sound>>
  BY DEF Reseated
<1>3. ASSUME NEW d \in Conns, NEW u \in Users, user'[d] = u
      PROVE  user[d] = u /\ biomass'[d] = biomass[d]
  BY <1>1, <1>3, Typing
<1>4. SoleSession'
  BY <1>2, <1>3, Typing DEF AccountInv, SoleSession
<1>5. QED
  BY <1>2, <1>3, <1>4 DEF AccountInv

\* What a save does, account by account and session by session.
LEMMA SaveFacts ==
  ASSUME TypeInv, NEW o \in Outcomes, NEW c \in conns, NEW b \in Int, NEW g \in Nat,
         Saved(o, c, b, g)
  PROVE  /\ hasBiomass \subseteq hasBiomass'
         /\ sound' \subseteq sound /\ (o = "refused" => user[c] \notin sound')
         /\ granted' \in [Users -> Nat] /\ dbBiomass' \in [Users -> Int]
         /\ \A u \in Users :
               /\ granted'[u] = IF u = user[c] /\ o # "unsent" THEN granted[u] + g
                                                              ELSE granted[u]
               /\ dbBiomass'[u] = IF u = user[c] /\ Applied(o) THEN b ELSE dbBiomass[u]
         /\ \/ /\ Returns(o)
               /\ \A d \in Conns : /\ user'[d] = user[d]
                                   /\ biomass'[d] = IF d = c THEN b ELSE biomass[d]
            \/ ~Returns(o) /\ \A d \in Conns : user'[d] = None
<1>1. user[c] \in Users \cup {None} /\ c \in Conns
  BY Typing
<1>2. granted' = IF o = "unsent" \/ user[c] = None THEN granted
                 ELSE [granted EXCEPT ![user[c]] = granted[user[c]] + g]
  BY DEF Saved, Tally
<1>3. IF Applied(o) /\ user[c] # None
      THEN /\ dbBiomass' = [dbBiomass EXCEPT ![user[c]] = b]
           /\ hasBiomass' = hasBiomass \cup {user[c]}
      ELSE UNCHANGED <<dbBiomass, hasBiomass>>
  BY DEF Saved, SaveBiomass, PutBiomass
<1>4. sound' = IF o = "refused" THEN sound \ {user[c]} ELSE sound
  BY DEF Saved, SaveBiomass, NoteWrite
<1>5. \/ Returns(o) /\ user' = user /\ biomass' = [biomass EXCEPT ![c] = b]
      \/ ~Returns(o) /\ \A d \in Conns : user'[d] = None
  BY DEF Saved
<1>6. granted' \in [Users -> Nat]
  BY <1>1, <1>2, Typing
<1>7. dbBiomass' \in [Users -> Int]
  BY <1>1, <1>3, Typing
<1>8. ASSUME NEW u \in Users
      PROVE  /\ granted'[u] = IF u = user[c] /\ o # "unsent" THEN granted[u] + g
                                                            ELSE granted[u]
             /\ dbBiomass'[u] = IF u = user[c] /\ Applied(o) THEN b ELSE dbBiomass[u]
  BY <1>1, <1>2, <1>3, Typing
<1>9. QED
  BY <1>1, <1>3, <1>4, <1>5, <1>6, <1>7, <1>8, Typing

\* The balance that is saved is covered by what the account was given.
LEMMA SaveCovered ==
  ASSUME TypeInv, AccountInv, NEW o \in Outcomes, NEW c \in conns, NEW b \in Int,
         NEW g \in Nat, Saved(o, c, b, g), user[c] \in Funded
  PROVE  b \in 0..(Opening[user[c]] + granted[user[c]] + g)
<1>1. /\ biomass[c] \in 0..(Opening[user[c]] + granted[user[c]])
      /\ Opening[user[c]] \in Nat /\ granted[user[c]] \in Nat
  BY Typing DEF AccountInv
<1>2. \/ b = biomass[c] + g
      \/ g = 0 /\ \E a \in Nat : b = biomass[c] - a /\ a <= biomass[c]
  BY ChargeableNat DEF Saved
<1>3. QED
  BY <1>1, <1>2

LEMMA SavedInv ==
  ASSUME TypeInv, AccountInv, SavedBy, Affordable'
  PROVE  AccountInv'
<1>1. PICK o \in Outcomes, c \in conns, b \in Int, g \in Nat : Saved(o, c, b, g)
  BY DEF SavedBy
<1>2. \/ \A d \in Conns : user'[d] = None
      \/ \A d \in Conns : /\ user'[d] = user[d]
                         /\ biomass'[d] = IF d = c THEN b ELSE biomass[d]
  BY <1>1, SaveFacts
<1>3. SoleSession'
  <2>1. SUFFICES ASSUME NEW u \in sound', NEW d \in Conns, NEW e \in Conns,
                        user'[d] = u, user'[e] = u
                 PROVE  d = e
    BY DEF SoleSession
  <2>2. u \in sound /\ u \in Users /\ u # None
    BY <1>1, SaveFacts, Typing
  <2>3. user'[d] # None
    BY <2>1, <2>2
  <2>4. user[d] = u /\ user[e] = u
    BY <1>1, <2>1, <2>3, SaveFacts
  <2>5. QED
    BY <2>2, <2>4 DEF AccountInv, SoleSession
<1>4. ASSUME NEW u \in Funded PROVE Books(u)'
  <2>1. Books(u) /\ u \in Users /\ Opening[u] \in Nat /\ granted[u] \in Nat
    BY BooksInv, Typing
  <2>2. CASE u # user[c]
    <3>1. granted'[u] = granted[u] /\ dbBiomass'[u] = dbBiomass[u] /\ sound' \subseteq sound
      BY <1>1, <2>1, <2>2, SaveFacts
    <3>2. ASSUME NEW d \in Conns, user'[d] = u
          PROVE  user[d] = u /\ biomass'[d] = biomass[d]
      <4>1. user'[d] # None
        BY <2>1, <3>2
      <4>2. QED
        BY <1>2, <2>2, <3>2, <4>1
    <3>3. u \in sound' => u \in sound
      BY <3>1
    <3>4. dbBiomass'[u] \in 0..(Opening[u] + granted'[u])
      BY <2>1, <3>1 DEF Books
    <3>5. ASSUME NEW d \in Conns, user'[d] = u
          PROVE  /\ biomass'[d] \in 0..(Opening[u] + granted'[u])
                 /\ u \in sound' => biomass'[d] = dbBiomass'[u]
      BY <2>1, <3>1, <3>2, <3>3, <3>5 DEF Books
    <3>6. QED
      BY <3>4, <3>5 DEF Books
  <2>3. CASE u = user[c] /\ ~Returns(o)
    <3>1. \A d \in Conns : user'[d] # u
      BY <1>1, <2>1, <2>3, SaveFacts
    <3>2. dbBiomass'[u] \in 0..(Opening[u] + granted'[u])
      <4>1. b \in 0..(Opening[u] + granted[u] + g)
        BY <1>1, <2>3, SaveCovered
      <4>2. CASE o = "unsent"
        <5>1. granted'[u] = granted[u] /\ dbBiomass'[u] = dbBiomass[u]
          BY <1>1, <2>1, <4>2, SaveFacts DEF Applied
        <5>2. QED
          BY <2>1, <5>1 DEF Books
      <4>3. CASE o # "unsent"
        <5>1. granted'[u] = granted[u] + g /\ dbBiomass'[u] = b
          BY <1>1, <2>1, <2>3, <4>3, SaveFacts DEF Applied, Returns, Outcomes, ReadsEmpty
        <5>2. QED
          BY <2>1, <4>1, <5>1
      <4>4. QED
        BY <4>2, <4>3
    <3>3. QED
      BY <3>1, <3>2 DEF Books
  <2>4. CASE u = user[c] /\ Returns(o)
    <3>1. b \in 0..(Opening[u] + granted[u] + g)
      BY <1>1, <2>4, SaveCovered
    <3>2. /\ granted'[u] = granted[u] + g
          /\ dbBiomass'[u] = IF Applied(o) THEN b ELSE dbBiomass[u]
          /\ ~Applied(o) => u \notin sound'
          /\ sound' \subseteq sound
          /\ \A d \in Conns : /\ user'[d] = user[d]
                              /\ biomass'[d] = IF d = c THEN b ELSE biomass[d]
      BY <1>1, <2>1, <2>4, SaveFacts DEF Applied, Returns, Outcomes, ReadsEmpty
    <3>3. dbBiomass'[u] \in 0..(Opening[u] + granted'[u])
      BY <2>1, <3>1, <3>2 DEF Books
    <3>4. ASSUME NEW d \in Conns, user'[d] = u
          PROVE  /\ biomass'[d] \in 0..(Opening[u] + granted'[u])
                 /\ u \in sound' => biomass'[d] = dbBiomass'[u]
      <4>1. CASE d = c
        BY <2>1, <3>1, <3>2, <4>1
      <4>2. CASE d # c
        <5>1. user[d] = u /\ biomass'[d] = biomass[d]
          BY <3>2, <3>4, <4>2
        <5>2. u \notin sound
          BY <2>4, <4>2, <5>1, Typing DEF AccountInv, SoleSession
        <5>3. biomass[d] \in 0..(Opening[u] + granted[u])
          BY <2>1, <5>1 DEF Books
        <5>4. biomass'[d] \in 0..(Opening[u] + granted'[u])
          BY <2>1, <3>2, <5>1, <5>3
        <5>5. QED
          BY <3>2, <5>2, <5>4
      <4>3. QED
        BY <4>1, <4>2
    <3>5. QED
      BY <3>3, <3>4 DEF Books
  <2>5. QED
    BY <2>2, <2>3, <2>4
<1>5. (Funded \subseteq hasBiomass)'
  BY <1>1, SaveFacts DEF AccountInv
<1>6. QED
  BY <1>3, <1>4, <1>5 DEF AccountInv, Books

LEMMA AccountInvariant == Spec => []AccountInv
<1>1. TypeInv /\ AccountInv /\ [Next]_vars => AccountInv'
  <2>1. SUFFICES ASSUME TypeInv, AccountInv, [Next]_vars PROVE AccountInv'
    OBVIOUS
  <2>2. Effect /\ Affordable'
    BY <2>1, NextEffect DEF AccountInv
  <2>3. QED
    BY <2>1, <2>2, QuietInv, LoggedInInv, ReseatedInv, SavedInv DEF Effect
<1>2. QED
  BY <1>1, InitAccount, TypeInvariant, PTL DEF Spec

-----------------------------------------------------------------------------
\* What the invariant says of the balances.

LEMMA Balances ==
  ASSUME TypeInv, AccountInv, NEW u \in Funded
  PROVE  /\ dbBiomass[u] \in 0..(Opening[u] + granted[u])
         /\ \A c \in Conns : Holds(c, u) =>
               /\ biomass[c] \in 0..(Opening[u] + granted[u])
               /\ u \in sound => biomass[c] = dbBiomass[u]
         /\ Opening[u] + granted[u] \in Nat
  BY Typing DEF AccountInv, Holds

\* No account and no session is ever overdrawn, however the requests of several
\* sessions fall and whichever of them fail (see Solvent).
THEOREM NeverOverdrawn == Spec => []Solvent
<1>1. TypeInv /\ AccountInv => Solvent
  BY Balances DEF Solvent
<1>2. QED
  BY <1>1, TypeInvariant, AccountInvariant, PTL

\* A session may undo another's payment, but no session and no record ever has
\* more than was granted (see NoMint).
THEOREM NeverMinted == Spec => []NoMint
<1>1. TypeInv /\ AccountInv => NoMint
  BY Balances DEF NoMint
<1>2. QED
  BY <1>1, TypeInvariant, AccountInvariant, PTL

\* The session of a sound account and its record never part (see WriteThrough).
THEOREM AlwaysWrittenThrough == Spec => []WriteThrough
<1>1. TypeInv /\ AccountInv => WriteThrough
  BY Balances DEF WriteThrough
<1>2. QED
  BY <1>1, TypeInvariant, AccountInvariant, PTL
-----------------------------------------------------------------------------
(* What a failure may cost.                                                    *)

\* The fares and the deployments have a largest one each, as they have where
\* there are finitely many of them.
LargestExist ==
    /\ \E m \in Fares \cup {0} : \A f \in Fares : f <= m
    /\ \E m \in DeployAmounts \cup {0} : \A b \in DeployAmounts \cup {0} : b <= m

\* What the record of an account, with the deployments and warps the Almanac has,
\* comes to beyond what the account was given.
Surplus(u) == dbBiomass[u] + planted[u] + flown[u] - (Opening[u] + granted[u])

\* The part of it that the running handler has still to settle: a fare after the
\* position is saved, a deployment, the other way, before the species is inserted.
Due(u) ==
    CASE phase = "warp_pay" /\ user[job.conn] = u    -> job.amount
      [] phase = "deploy_post" /\ user[job.conn] = u -> 0 - Price(job.amount)
      [] OTHER                                       -> 0

Unsettled(u) == Surplus(u) - Due(u)

\* The inductive invariant: what is off and not about to be settled is owed to
\* broken connections, one fare or one deployment for each.
RiskInv ==
    \A u \in Funded \cap sound :
        /\ Unsettled(u) <= MaxFare * failures
        /\ Unsettled(u) >= 0 - MaxDeploy * failures

\* A step leaves that as it is, or breaks one connection.
RiskStep ==
    /\ sound' \subseteq sound
    /\ failures' \in {failures, failures + 1}
    /\ \A u \in Funded \cap sound' :
          \/ Unsettled(u)' = Unsettled(u)
          \/ /\ failures' = failures + 1
             /\ Unsettled(u)' - Unsettled(u) \in (0 - MaxDeploy)..MaxFare

LEMMA LargestBound ==
  ASSUME LargestExist
  PROVE  /\ MaxFare \in Nat /\ \A f \in Fares : f <= MaxFare
         /\ MaxDeploy \in Nat /\ \A b \in DeployAmounts : Price(b) <= MaxDeploy
<1>1. MaxFare \in Fares \cup {0} /\ \A f \in Fares : f <= MaxFare
  BY DEF LargestExist, MaxFare
<1>2. /\ MaxDeploy \in DeployAmounts \cup {0}
      /\ \A b \in DeployAmounts \cup {0} : b <= MaxDeploy
  BY DEF LargestExist, MaxDeploy
<1>3. MaxFare \in Nat
  BY <1>1, ChargeableNat DEF Chargeable
<1>4. MaxDeploy \in Nat /\ \A b \in DeployAmounts : Price(b) <= MaxDeploy
  <2>1. DeployAmounts \subseteq Int
    BY DEF OrbitalAssumption
  <2>2. MaxDeploy \in Nat
    BY <1>2, <2>1
  <2>3. QED
    BY <1>2, <2>1, <2>2 DEF Price
<1>5. QED
  BY <1>1, <1>3, <1>4

LEMMA RiskTypes ==
  TypeInv => \A u \in Funded :
      /\ u \in Users /\ u # None
      /\ dbBiomass[u] \in Int /\ planted[u] \in Nat /\ flown[u] \in Nat
      /\ granted[u] \in Nat /\ Opening[u] \in Nat
      /\ Surplus(u) \in Int /\ Due(u) \in Int /\ failures \in Nat
<1> SUFFICES ASSUME TypeInv, NEW u \in Funded
             PROVE  /\ u \in Users /\ u # None
                    /\ dbBiomass[u] \in Int /\ planted[u] \in Nat /\ flown[u] \in Nat
                    /\ granted[u] \in Nat /\ Opening[u] \in Nat
                    /\ Surplus(u) \in Int /\ Due(u) \in Int /\ failures \in Nat
  OBVIOUS
<1>1. u \in Users /\ u # None
  BY DEF AlmanacAssumption
<1>2. /\ dbBiomass[u] \in Int /\ planted[u] \in Nat /\ flown[u] \in Nat
      /\ granted[u] \in Nat /\ Opening[u] \in Nat
  BY <1>1 DEF TypeInv, StoreOK, AuditTypeOK, AlmanacTypeOK, AlmanacAssumption
<1>3. failures \in Nat
  BY DEF TypeInv, StoreOK, HttpTypeOK, BudgetAssumption
<1>4. job.amount \in Int /\ Price(job.amount) \in Int
  BY PriceType DEF TypeInv, MemoryOK, ServerTypeOK, Jobs
<1>5. Surplus(u) \in Int
  BY <1>2 DEF Surplus
<1>6. Due(u) \in Int
  BY <1>4 DEF Due
<1>7. QED
  BY <1>1, <1>2, <1>3, <1>5, <1>6

\* The books are off by as much more as one of their entries grows.
LEMMA BooksShift ==
  \A d, p, f, o, g, k \in Int :
      LET off == d + p + f - (o + g)
      IN  /\ (d + k) + p + f - (o + g) = off + k
          /\ (d - k) + p + f - (o + g) = off - k
          /\ d + (p + k) + f - (o + g) = off + k
          /\ d + p + (f + k) - (o + g) = off + k
          /\ (d + k) + p + f - (o + (g + k)) = off
  OBVIOUS

LEMMA UnsettledType == TypeInv => \A u \in Funded : Unsettled(u) \in Int
  BY RiskTypes DEF Unsettled

LEMMA UnsettledNext == TypeInv' => (\A u \in Funded : Unsettled(u) \in Int)'
  BY UnsettledType, PTL

\* A payment that is lost, and one more that is: no more than the largest each.
LEMMA OneMore ==
  ASSUME NEW m \in Nat, NEW k \in Nat
  PROVE  m * (k + 1) = m * k + m /\ m * k \in Nat
  OBVIOUS

LEMMA RiskKept ==
  ASSUME TypeInv, TypeInv', LargestExist, RiskInv, RiskStep
  PROVE  RiskInv'
<1>1. SUFFICES ASSUME NEW u \in Funded, u \in sound'
               PROVE  /\ Unsettled(u)' <= MaxFare * failures'
                      /\ Unsettled(u)' >= 0 - MaxDeploy * failures'
  BY DEF RiskInv
<1>2. PICK F \in Nat : F = MaxFare
  BY LargestBound
<1>3. PICK D \in Nat : D = MaxDeploy
  BY LargestBound
<1>4. PICK k \in Nat : k = failures
  BY RiskTypes
<1>5. PICK a \in Int : a = Unsettled(u)
  BY RiskTypes DEF Unsettled
<1>6. PICK b \in Int : b = Unsettled(u)'
  BY UnsettledNext
<1>7. a <= F * k /\ a >= 0 - D * k
  BY <1>1, <1>2, <1>3, <1>4, <1>5 DEF RiskInv, RiskStep
<1>8. \/ b = a /\ failures' \in {k, k + 1}
      \/ failures' = k + 1 /\ b - a \in (0 - D)..F
  BY <1>1, <1>2, <1>3, <1>4, <1>5, <1>6 DEF RiskStep
<1>9. PICK fk \in Nat, dk \in Nat : fk = F * k /\ dk = D * k
  BY OneMore
<1>10. F * (k + 1) = fk + F /\ D * (k + 1) = dk + D
  BY <1>9, OneMore
<1>11. CASE failures' = k
  BY <1>2, <1>3, <1>6, <1>7, <1>8, <1>11
<1>12. CASE failures' = k + 1
  <2>1. a <= fk /\ a >= 0 - dk
    BY <1>7, <1>9
  <2>2. b <= fk + F /\ b >= 0 - (dk + D)
    BY <1>8, <2>1, <1>12
  <2>3. b <= F * (k + 1) /\ b >= 0 - D * (k + 1)
    BY <1>10, <2>2
  <2>4. QED
    BY <1>2, <1>3, <1>6, <1>12, <2>3
<1>13. QED
  BY <1>8, <1>11, <1>12
-----------------------------------------------------------------------------
\* Steps that leave the books of the record alone, where nothing is to be settled.
LEMMA Unbooked ==
  ASSUME UNCHANGED <<dbBiomass, granted, planted, flown>>, sound' \subseteq sound,
         failures' \in {failures, failures + 1},
         phase \notin {"warp_pay", "deploy_post"}, phase' \notin {"warp_pay", "deploy_post"}
  PROVE  RiskStep
<1>1. ASSUME NEW u \in Funded PROVE Unsettled(u)' = Unsettled(u)
  BY DEF Unsettled, Surplus, Due
<1>2. QED
  BY <1>1 DEF RiskStep

LEMMA TerminateIdle ==
  ASSUME Terminate
  PROVE  phase' = "idle" /\ \A u \in Funded : Due(u)' = 0
  BY DEF Terminate, Return, Await, Due

LEMMA RequestCount ==
  ASSUME NEW o, Request(o)
  PROVE  /\ o \in Outcomes
         /\ failures' = IF Returns(o) THEN failures ELSE failures + 1
  BY DEF Request, ReadsEmpty

LEMMA NoteRefused ==
  ASSUME NEW o, NEW u, NoteWrite(o, u)
  PROVE  sound' \subseteq sound /\ (o = "refused" => u \notin sound')
  BY DEF NoteWrite

LEMMA LifecycleRisk ==
  ASSUME TypeInv, Lifecycle
  PROVE  RiskStep
<1> USE DEF dbVars, auditVars, httpVars, sessionVars, handlerVars
<1>0. job \in Jobs /\ phase \in Phases
  BY DEF TypeInv, MemoryOK, ServerTypeOK
<1>1. CASE Start
  <2>1. phase' = phase /\ user' = user /\ job' = job /\ failures' = failures
    BY <1>1 DEF Start
  <2>2. UNCHANGED <<dbBiomass, granted, planted, flown, sound>>
    BY <1>1 DEF Start
  <2>3. QED
    BY <2>1, <2>2 DEF RiskStep, Unsettled, Surplus, Due
<1>2. CASE RunOutOfWork
  BY <1>2, TerminateIdle, Unbooked DEF RunOutOfWork
<1>3. ASSUME NEW c \in Conns, OnConnectionOpen(c) PROVE RiskStep
  BY <1>3, Unbooked DEF OnConnectionOpen
<1>4. ASSUME NEW c \in Conns, OnConnectionClose(c) PROVE RiskStep
  BY <1>4, Unbooked DEF OnConnectionClose, Free
<1>5. ASSUME NEW c \in Conns, StopListening(c) PROVE RiskStep
  BY <1>5, TerminateIdle, Unbooked DEF StopListening, Free
<1>6. QED
  BY <1>1, <1>2, <1>3, <1>4, <1>5 DEF Lifecycle
LEMMA WarpRisk ==
  ASSUME TypeInv, LargestExist, NEW c \in Conns, NEW d \in Places, NEW o \in Outcomes,
         AttemptWarp(c, d, o)
  PROVE  RiskStep
<1> DEFINE f == Fare(c, d)
<1>1. phase = "idle" /\ pos[c] \in Places /\ f > 0
  BY DEF AttemptWarp, Free, CanWarp, TypeInv, MemoryOK, SessionsOK
<1>2. f \in Fares /\ f \in 0..MaxFare
  <2>1. f = Cost[pos[c]][d]
    BY DEF Fare
  <2>2. f \in Fares
    BY <1>1, <2>1 DEF Fares
  <2>3. QED
    BY <2>2, ChargeableNat, LargestBound DEF Chargeable
<1>3. /\ failures' = IF Returns(o) THEN failures ELSE failures + 1
      /\ sound' \subseteq sound /\ (o = "refused" => user[c] \notin sound')
  BY RequestCount, NoteRefused DEF AttemptWarp
<1>4. UNCHANGED <<dbBiomass, granted, planted>>
  BY DEF AttemptWarp
<1>5. \/ /\ Returns(o) /\ phase' = "warp_pay" /\ user' = user
         /\ job'.conn = c /\ job'.amount = f
      \/ ~Returns(o) /\ \A u \in Funded : Due(u)' = 0
  BY TerminateIdle DEF AttemptWarp, Await, StayUp, Job
<1>6. flown' = IF Applied(o) THEN Tally(flown, user[c], f) ELSE flown
  BY DEF AttemptWarp
<1> HIDE DEF f
<1>7. ASSUME NEW u \in Funded, u \in sound'
      PROVE  \/ Unsettled(u)' = Unsettled(u)
             \/ /\ failures' = failures + 1
                /\ Unsettled(u)' - Unsettled(u) \in (0 - MaxDeploy)..MaxFare
  <2>1. /\ u \in Users /\ u # None /\ Due(u) = 0 /\ Surplus(u) \in Int
        /\ dbBiomass[u] \in Int /\ planted[u] \in Nat /\ flown[u] \in Nat
        /\ granted[u] \in Nat /\ Opening[u] \in Nat
    BY <1>1, RiskTypes DEF Due
  <2>2. flown'[u] = IF Applied(o) /\ u = user[c] THEN flown[u] + f ELSE flown[u]
    <3>1. flown \in [Users -> Nat] /\ f \in Nat
      BY <1>2, LargestBound DEF TypeInv, StoreOK, AuditTypeOK
    <3>2. Tally(flown, user[c], f)[u] = IF u = user[c] THEN flown[u] + f ELSE flown[u]
      BY <2>1, <3>1 DEF Tally
    <3>3. QED
      BY <1>6, <3>2
  <2>3. Surplus(u)' = IF Applied(o) /\ u = user[c] THEN Surplus(u) + f ELSE Surplus(u)
    <3>1. Surplus(u)' = dbBiomass[u] + planted'[u] + flown'[u] - (Opening[u] + granted[u])
      BY <1>4 DEF Surplus
    <3>2. f \in Nat /\ planted'[u] = planted[u]
      BY <1>2, <1>4, LargestBound
    <3>3. Surplus(u) = dbBiomass[u] + planted[u] + flown[u] - (Opening[u] + granted[u])
      BY DEF Surplus
    <3>4. CASE Applied(o) /\ u = user[c]
      <4>1. flown'[u] = flown[u] + f
        BY <2>2, <3>4
      <4>2. f \in Int /\ dbBiomass[u] \in Int /\ planted[u] \in Int /\ flown[u] \in Int
            /\ Opening[u] \in Int /\ granted[u] \in Int
        BY <2>1, <3>2
      <4>3. Surplus(u)' = Surplus(u) + f
        BY <3>1, <3>2, <3>3, <4>1, <4>2, BooksShift
      <4>4. QED
        BY <3>4, <4>3
    <3>5. CASE ~(Applied(o) /\ u = user[c])
      <4>1. flown'[u] = flown[u]
        BY <2>2, <3>5
      <4>2. QED
        BY <3>1, <3>2, <3>3, <3>5, <4>1
    <3>6. QED
      BY <3>4, <3>5
  <2>4. CASE Returns(o)
    <3>1. Due(u)' = IF u = user[c] THEN f ELSE 0
      BY <1>5, <2>4 DEF Due
    <3>2. u = user[c] => Applied(o)
      BY <1>3, <1>7, <2>4 DEF Returns, Applied, ReadsEmpty
    <3>3. QED
      BY <1>2, <2>1, <2>3, <3>1, <3>2 DEF Unsettled
  <2>5. CASE ~Returns(o)
    <3>1. Due(u)' = 0 /\ failures' = failures + 1
      BY <1>3, <1>5, <2>5
    <3>2. QED
      BY <1>2, <2>1, <2>3, <3>1, LargestBound DEF Unsettled
  <2>6. QED
    BY <2>4, <2>5
<1>8. QED
  BY <1>3, <1>7 DEF RiskStep

\* A payment: the account and the session part with the same amount.
LEMMA PaymentRisk ==
  ASSUME TypeInv, AccountInv, LargestExist,
         phase = "warp_pay" \/ (phase = "deploy_pay" /\ job.amount >= 0),
         NEW o \in Outcomes, Saved(o, job.conn, AfterPayment, 0),
         UNCHANGED <<planted, flown>>,
         \/ /\ Returns(o) /\ user' = user
            /\ \/ phase = "warp_pay" /\ phase' = "idle"
               \/ phase = "deploy_pay" /\ phase' = "deploy_post" /\ job' = job
         \/ ~Returns(o) /\ Terminate
  PROVE  RiskStep
<1> DEFINE c == job.conn  a == job.amount
<1>1. /\ c \in conns /\ c \in Conns /\ user[c] \in Users \cup {None}
      /\ biomass[c] \in Int /\ a \in Int /\ Fits(phase, job)
  BY RunningType
<1>2. /\ a \in Nat /\ (phase = "warp_pay" => a <= MaxFare)
      /\ (phase = "deploy_pay" => a <= MaxDeploy /\ Price(a) = a)
  BY <1>1, ChargeableNat, LargestBound DEF Fits, DeployPhases, Chargeable, Price
<1>3. AfterPayment = biomass[c] - a /\ AfterPayment \in Int
  BY <1>1 DEF AfterPayment
<1>4. /\ sound' \subseteq sound /\ (o = "refused" => user[c] \notin sound')
      /\ \A u \in Users :
            /\ granted'[u] = IF u = user[c] /\ o # "unsent" THEN granted[u] + 0
                                                            ELSE granted[u]
            /\ dbBiomass'[u] = IF u = user[c] /\ Applied(o) THEN AfterPayment
                                                            ELSE dbBiomass[u]
  BY <1>1, <1>3, SaveFacts
<1>5. failures' = IF Returns(o) THEN failures ELSE failures + 1
  BY RequestCount DEF Saved, SaveBiomass
<1> HIDE DEF c, a
<1>7. ASSUME NEW u \in Funded, u \in sound'
      PROVE  \/ Unsettled(u)' = Unsettled(u)
             \/ /\ failures' = failures + 1
                /\ Unsettled(u)' - Unsettled(u) \in (0 - MaxDeploy)..MaxFare
  <2>1. /\ u \in Users /\ u # None /\ Surplus(u) \in Int
        /\ dbBiomass[u] \in Int /\ planted[u] \in Nat /\ flown[u] \in Nat
        /\ granted[u] \in Nat /\ Opening[u] \in Nat
    BY RiskTypes
  <2>2. u = user[c] => biomass[c] = dbBiomass[u]
    BY <1>1, <1>4, <1>7 DEF AccountInv
  <2>3. /\ granted'[u] = granted[u]
        /\ dbBiomass'[u] = IF u = user[c] /\ Applied(o) THEN dbBiomass[u] - a
                                                        ELSE dbBiomass[u]
    BY <1>3, <1>4, <2>1, <2>2
  <2>4. Surplus(u)' = IF u = user[c] /\ Applied(o) THEN Surplus(u) - a ELSE Surplus(u)
    <3>1. Surplus(u)' = dbBiomass'[u] + planted[u] + flown[u] - (Opening[u] + granted[u])
      BY <1>3, <2>3 DEF Surplus
    <3>2. Surplus(u) = dbBiomass[u] + planted[u] + flown[u] - (Opening[u] + granted[u])
      BY DEF Surplus
    <3>3. CASE u = user[c] /\ Applied(o)
      <4>1. dbBiomass'[u] = dbBiomass[u] - a
        BY <2>3, <3>3
      <4>2. a \in Int /\ dbBiomass[u] \in Int /\ planted[u] \in Int /\ flown[u] \in Int
            /\ Opening[u] \in Int /\ granted[u] \in Int
        BY <1>2, <2>1
      <4>3. Surplus(u)' = Surplus(u) - a
        BY <3>1, <3>2, <4>1, <4>2, BooksShift
      <4>4. QED
        BY <3>3, <4>3
    <3>4. CASE ~(u = user[c] /\ Applied(o))
      <4>1. dbBiomass'[u] = dbBiomass[u]
        BY <2>3, <3>4
      <4>2. QED
        BY <3>1, <3>2, <3>4, <4>1
    <3>5. QED
      BY <3>3, <3>4
  <2>5. Due(u) = IF u = user[c] /\ phase = "warp_pay" THEN a ELSE 0
    BY DEF Due, c, a
  <2>6. CASE u # user[c]
    <3>1. Due(u)' = 0
      BY <2>6, TerminateIdle DEF Due, c
    <3>2. QED
      BY <2>4, <2>5, <2>6, <3>1 DEF Unsettled
  <2>7. CASE u = user[c] /\ Returns(o)
    <3>1. Applied(o)
      BY <1>4, <1>7, <2>7 DEF Applied, Returns, ReadsEmpty
    <3>2. Due(u)' = IF phase = "warp_pay" THEN 0 ELSE 0 - a
      BY <1>2, <2>7 DEF Due, c, a
    <3>3. QED
      BY <1>2, <2>1, <2>4, <2>5, <2>7, <3>1, <3>2 DEF Unsettled
  <2>8. CASE u = user[c] /\ ~Returns(o)
    <3>1. Due(u)' = 0 /\ failures' = failures + 1
      BY <1>5, <2>8, TerminateIdle
    <3>2. QED
      BY <1>2, <2>1, <2>4, <2>5, <2>8, <3>1, LargestBound DEF Unsettled
  <2>9. QED
    BY <2>6, <2>7, <2>8
<1>8. QED
  BY <1>4, <1>5, <1>7 DEF RiskStep

\* A credit: what the session is given is written down as a grant.
LEMMA GrantRisk ==
  ASSUME TypeInv, AccountInv, NEW o \in Outcomes, NEW c \in conns, NEW g \in Nat,
         Saved(o, c, biomass[c] + g, g), UNCHANGED <<planted, flown>>,
         \A u \in Funded : Due(u) = 0 /\ Due(u)' = 0
  PROVE  RiskStep
<1> DEFINE b == biomass[c] + g
<1>1. c \in Conns /\ user[c] \in Users \cup {None} /\ biomass[c] \in Int
  BY Typing
<1>2. b \in Int
  BY <1>1
<1>3. Saved(o, c, b, g)
  OBVIOUS
<1>4. /\ sound' \subseteq sound /\ (o = "refused" => user[c] \notin sound')
      /\ \A u \in Users :
            /\ granted'[u] = IF u = user[c] /\ o # "unsent" THEN granted[u] + g
                                                            ELSE granted[u]
            /\ dbBiomass'[u] = IF u = user[c] /\ Applied(o) THEN b ELSE dbBiomass[u]
  BY <1>1, <1>2, <1>3, SaveFacts
<1>5. failures' \in {failures, failures + 1}
  BY RequestCount DEF Saved, SaveBiomass
<1>7. ASSUME NEW u \in Funded, u \in sound'
      PROVE  Unsettled(u)' = Unsettled(u)
  <2>1. /\ u \in Users /\ u # None /\ Due(u) = 0 /\ Due(u)' = 0
        /\ dbBiomass[u] \in Int /\ planted[u] \in Nat /\ flown[u] \in Nat
        /\ granted[u] \in Nat /\ Opening[u] \in Nat
    BY RiskTypes
  <2>2. u = user[c] => biomass[c] = dbBiomass[u] /\ o # "refused"
    BY <1>1, <1>4, <1>7 DEF AccountInv
  <2>3. u = user[c] => (Applied(o) <=> o # "unsent")
    BY <2>2 DEF Applied, Outcomes
  <2>4. Surplus(u)' = Surplus(u)
    <3>1. Surplus(u)' = dbBiomass'[u] + planted[u] + flown[u] - (Opening[u] + granted'[u])
      BY DEF Surplus
    <3>2. CASE u = user[c] /\ o # "unsent"
      <4>1. dbBiomass'[u] = dbBiomass[u] + g /\ granted'[u] = granted[u] + g
        BY <1>4, <2>1, <2>2, <2>3, <3>2
      <4>2. Surplus(u) = dbBiomass[u] + planted[u] + flown[u] - (Opening[u] + granted[u])
        BY DEF Surplus
      <4>3. g \in Int /\ dbBiomass[u] \in Int /\ planted[u] \in Int /\ flown[u] \in Int
            /\ Opening[u] \in Int /\ granted[u] \in Int
        BY <1>2, <2>1
      <4>4. QED
        BY <3>1, <4>1, <4>2, <4>3, BooksShift
    <3>3. CASE ~(u = user[c] /\ o # "unsent")
      <4>1. dbBiomass'[u] = dbBiomass[u] /\ granted'[u] = granted[u]
        BY <1>4, <2>1, <2>3, <3>3
      <4>2. QED
        BY <3>1, <4>1 DEF Surplus
    <3>4. QED
      BY <3>2, <3>3
  <2>5. QED
    BY <2>1, <2>4 DEF Unsettled
<1>8. QED
  BY <1>4, <1>5, <1>7 DEF RiskStep

LEMMA CreditRisk ==
  ASSUME TypeInv, AccountInv, NEW o \in Outcomes, ExtractCredit(o)
  PROVE  RiskStep
<1>1. job.conn \in conns /\ job.amount \in ExtractAmounts
  BY RunningType DEF ExtractCredit, Fits, ExtractPhases
<1>2. Yield[job.amount] \in Nat
  BY <1>1 DEF OrbitalAssumption
<1>3. Saved(o, job.conn, biomass[job.conn] + Yield[job.amount], Yield[job.amount])
  BY CreditSaved
<1>4. phase = "extract_credit" /\ phase' \in {"idle", "reload"}
      /\ UNCHANGED <<planted, flown>>
  BY TerminateIdle DEF ExtractCredit, Await
<1>5. \A u \in Funded : Due(u) = 0 /\ Due(u)' = 0
  BY <1>4 DEF Due
<1>6. QED
  BY <1>1, <1>2, <1>3, <1>4, <1>5, GrantRisk

\* The payment of a deployment, or what one of less than nothing credits.
LEMMA DeployPayRisk ==
  ASSUME TypeInv, AccountInv, LargestExist, NEW o \in Outcomes, DeployPay(o)
  PROVE  RiskStep
<1>1. /\ job.conn \in conns /\ biomass[job.conn] \in Int /\ job.amount \in Int
      /\ phase = "deploy_pay"
  BY RunningType DEF DeployPay
<1>2. Saved(o, job.conn, AfterPayment, Credit(job.amount))
  BY PaymentSaved DEF DeployPay, StayUp, AccountInv
<1>3. CASE job.amount >= 0
  <2>1. Saved(o, job.conn, AfterPayment, 0)
    BY <1>1, <1>2, <1>3 DEF Credit
  <2>2. QED
    BY <1>1, <1>3, <2>1, PaymentRisk DEF DeployPay, StayUp, Await
<1>4. CASE job.amount < 0
  <2>1. /\ Credit(job.amount) \in Nat /\ Price(job.amount) = 0
        /\ AfterPayment = biomass[job.conn] + Credit(job.amount)
    <3>1. Price(job.amount) = 0 /\ Credit(job.amount) \in Nat
      BY <1>1, <1>4, PriceType DEF Price
    <3>2. job.amount = 0 - Credit(job.amount)
      BY <1>1, <3>1, PriceType
    <3>3. QED
      BY <1>1, <3>1, <3>2 DEF AfterPayment
  <2>2. UNCHANGED <<planted, flown>>
    BY DEF DeployPay
  <2>3. \A u \in Funded : Due(u) = 0
    BY <1>1 DEF Due
  <2>4. \A u \in Funded : Due(u)' = 0
    <3>1. CASE ~Returns(o)
      BY <3>1, TerminateIdle DEF DeployPay
    <3>2. CASE Returns(o)
      <4>1. phase' = "deploy_post" /\ job' = job
        BY <3>2 DEF DeployPay, Await
      <4>2. QED
        BY <2>1, <4>1 DEF Due
    <3>3. QED
      BY <3>1, <3>2
  <2>5. QED
    BY <1>1, <1>2, <2>1, <2>2, <2>3, <2>4, GrantRisk
<1>5. QED
  BY <1>1, <1>3, <1>4

\* The insertion of the species that was paid for.
LEMMA PostRisk ==
  ASSUME TypeInv, LargestExist, NEW o \in Outcomes, DeployPost(o)
  PROVE  RiskStep
<1> DEFINE c == job.conn  a == Price(job.amount)
<1>1. phase = "deploy_post"
  BY DEF DeployPost
<1>2. /\ a \in Nat /\ a <= MaxDeploy
  <2>1. job.amount \in DeployAmounts
    BY <1>1, RunningType DEF Fits, DeployPhases
  <2>2. QED
    BY <2>1, PriceType, LargestBound DEF OrbitalAssumption
<1>3. /\ failures' = IF Returns(o) THEN failures ELSE failures + 1
      /\ sound' \subseteq sound /\ (o = "refused" => user[c] \notin sound')
  BY RequestCount, NoteRefused DEF DeployPost
<1>4. UNCHANGED <<dbBiomass, granted, flown>>
  BY DEF DeployPost
<1>5. \A u \in Funded : Due(u)' = 0
  BY TerminateIdle DEF DeployPost, Await, Due
<1>6. planted' = IF Applied(o) THEN Tally(planted, user[c], a) ELSE planted
  BY DEF DeployPost
<1> HIDE DEF c, a
<1>7. ASSUME NEW u \in Funded, u \in sound'
      PROVE  \/ Unsettled(u)' = Unsettled(u)
             \/ /\ failures' = failures + 1
                /\ Unsettled(u)' - Unsettled(u) \in (0 - MaxDeploy)..MaxFare
  <2>1. /\ u \in Users /\ u # None /\ Surplus(u) \in Int
        /\ dbBiomass[u] \in Int /\ planted[u] \in Nat /\ flown[u] \in Nat
        /\ granted[u] \in Nat /\ Opening[u] \in Nat
    BY RiskTypes
  <2>2. planted'[u] = IF Applied(o) /\ u = user[c] THEN planted[u] + a ELSE planted[u]
    <3>1. planted \in [Users -> Nat] /\ a \in Nat
      BY <1>2, LargestBound DEF TypeInv, StoreOK, AuditTypeOK
    <3>2. Tally(planted, user[c], a)[u] = IF u = user[c] THEN planted[u] + a ELSE planted[u]
      BY <2>1, <3>1 DEF Tally
    <3>3. QED
      BY <1>6, <3>2
  <2>3. Surplus(u)' = IF Applied(o) /\ u = user[c] THEN Surplus(u) + a ELSE Surplus(u)
    <3>1. Surplus(u)' = dbBiomass[u] + planted'[u] + flown'[u] - (Opening[u] + granted[u])
      BY <1>4 DEF Surplus
    <3>2. a \in Nat /\ flown'[u] = flown[u]
      BY <1>2, <1>4, LargestBound
    <3>3. Surplus(u) = dbBiomass[u] + planted[u] + flown[u] - (Opening[u] + granted[u])
      BY DEF Surplus
    <3>4. CASE Applied(o) /\ u = user[c]
      <4>1. planted'[u] = planted[u] + a
        BY <2>2, <3>4
      <4>2. a \in Int /\ dbBiomass[u] \in Int /\ planted[u] \in Int /\ flown[u] \in Int
            /\ Opening[u] \in Int /\ granted[u] \in Int
        BY <2>1, <3>2
      <4>3. Surplus(u)' = Surplus(u) + a
        BY <3>1, <3>2, <3>3, <4>1, <4>2, BooksShift
      <4>4. QED
        BY <3>4, <4>3
    <3>5. CASE ~(Applied(o) /\ u = user[c])
      <4>1. planted'[u] = planted[u]
        BY <2>2, <3>5
      <4>2. QED
        BY <3>1, <3>2, <3>3, <3>5, <4>1
    <3>6. QED
      BY <3>4, <3>5
  <2>4. Due(u) = IF u = user[c] THEN 0 - a ELSE 0
    BY <1>1 DEF Due, c, a
  <2>5. CASE u # user[c] \/ Applied(o)
    BY <1>2, <1>5, <2>1, <2>3, <2>4, <2>5 DEF Unsettled
  <2>6. CASE u = user[c] /\ ~Applied(o)
    <3>1. failures' = failures + 1
      BY <1>3, <1>7, <2>6 DEF Applied, Returns, Outcomes, ReadsEmpty
    <3>2. QED
      BY <1>2, <1>5, <2>1, <2>3, <2>4, <2>6, <3>1, LargestBound DEF Unsettled
  <2>7. QED
    BY <2>5, <2>6
<1>8. QED
  BY <1>3, <1>7 DEF RiskStep
LEMMA CommandRisk ==
  ASSUME TypeInv, LargestExist, NEW c \in Conns, Command(c)
  PROVE  RiskStep
<1> USE DEF dbVars, auditVars, httpVars, sessionVars, handlerVars, Free, Await
<1>1. ASSUME NEW o \in Outcomes, NEW u \in Users, UserEndpoint(c, u, o) PROVE RiskStep
  <2>1. UNCHANGED <<dbBiomass, granted, planted, flown>> /\ phase = "idle"
    BY <1>1 DEF UserEndpoint
  <2>2. sound' \subseteq sound /\ phase' = "idle"
    BY <1>1, <2>1, TerminateIdle DEF UserEndpoint
  <2>3. failures' \in {failures, failures + 1}
    BY <1>1, RequestCount DEF UserEndpoint
  <2>4. QED
    BY <2>1, <2>2, <2>3, Unbooked
<1>2. ASSUME NEW o \in Outcomes, NEW d \in Places, AttemptWarp(c, d, o) PROVE RiskStep
  BY <1>2, WarpRisk
<1>3. ASSUME NEW o \in Outcomes, NEW d \in Places, SavePosition(c, d, o) PROVE RiskStep
  BY <1>3, RequestCount, NoteRefused, TerminateIdle, Unbooked DEF SavePosition
<1>4. ASSUME NEW o \in Outcomes, NEW p \in Planets, NEW s \in Species,
             NEW x \in ExtractAmounts, ExtractQuery(c, p, s, x, o)
      PROVE  RiskStep
  BY <1>4, RequestCount, TerminateIdle, Unbooked DEF ExtractQuery
<1>5. ASSUME NEW o \in Outcomes, NEW p \in Planets, NEW s \in Species,
             NEW b \in DeployAmounts, DeployQuery(c, p, s, b, o)
      PROVE  RiskStep
  BY <1>5, RequestCount, TerminateIdle, Unbooked DEF DeployQuery
<1>6. ASSUME NEW o \in Outcomes, NEW p \in Planets, NEW s \in Species,
             EditInPlanet(c, p, s, o)
      PROVE  RiskStep
  BY <1>6, RequestCount, TerminateIdle, Unbooked DEF EditInPlanet
<1>7. QED
  BY <1>1, <1>2, <1>3, <1>4, <1>5, <1>6 DEF Command

LEMMA HandlerRisk ==
  ASSUME TypeInv, AccountInv, LargestExist, HandlerStep
  PROVE  RiskStep
<1>0. Affordable
  BY DEF AccountInv
<1>1. ASSUME NEW o \in Outcomes, WarpPay(o) PROVE RiskStep
  <2>1. Saved(o, job.conn, AfterPayment, 0)
    BY <1>0, <1>1, FareSaved
  <2>2. phase = "warp_pay" /\ UNCHANGED <<planted, flown>>
    BY <1>1 DEF WarpPay
  <2>3. \/ /\ Returns(o) /\ user' = user
           /\ \/ phase = "warp_pay" /\ phase' = "idle"
              \/ phase = "deploy_pay" /\ phase' = "deploy_post" /\ job' = job
        \/ ~Returns(o) /\ Terminate
    BY <1>1 DEF WarpPay, StayUp, Return, Await
  <2>4. phase = "warp_pay" \/ (phase = "deploy_pay" /\ job.amount >= 0)
    BY <2>2
  <2>5. QED
    BY <1>1, <2>1, <2>2, <2>3, <2>4, PaymentRisk
<1>2. ASSUME NEW o \in Outcomes, DeployPay(o) PROVE RiskStep
  BY <1>2, DeployPayRisk
<1>3. ASSUME NEW o \in Outcomes, ExtractCredit(o) PROVE RiskStep
  BY <1>3, CreditRisk
<1>4. ASSUME NEW o \in Outcomes, DeployPost(o) PROVE RiskStep
  BY <1>4, PostRisk
<1>5. ASSUME NEW o \in Outcomes, ExtractPut(o) \/ ExtractDelete(o) PROVE RiskStep
  <2>1. UNCHANGED <<dbBiomass, granted, planted, flown>> /\ Request(o)
        /\ NoteWrite(o, user[job.conn]) /\ phase \in {"extract_put", "extract_delete"}
    BY <1>5 DEF ExtractPut, ExtractDelete
  <2>2. phase' \in {"idle", "extract_delete", "extract_credit"}
    BY <1>5, TerminateIdle DEF ExtractPut, ExtractDelete, Await
  <2>3. QED
    BY <2>1, <2>2, RequestCount, NoteRefused, Unbooked
<1>6. ASSUME NEW o \in Outcomes, NEW s \in Species, DeployDilute(s, o) PROVE RiskStep
  <2>1. UNCHANGED <<dbBiomass, granted, planted, flown>> /\ Request(o)
        /\ NoteWrite(o, user[job.conn]) /\ phase = "deploy_dilute"
    BY <1>6 DEF DeployDilute
  <2>2. phase' \in {"idle", "deploy_dilute", "deploy_pay"}
    BY <1>6, TerminateIdle DEF DeployDilute, Await
  <2>3. QED
    BY <2>1, <2>2, RequestCount, NoteRefused, Unbooked
<1>7. ASSUME NEW o \in Outcomes, Reload(o) PROVE RiskStep
  BY <1>7, RequestCount, TerminateIdle, Unbooked DEF Reload, Return, Await, dbVars, auditVars
<1>8. CASE ExtractNotANumber \/ DeployUnreadable
  BY <1>8, TerminateIdle, Unbooked DEF ExtractNotANumber, DeployUnreadable, dbVars, auditVars,
           httpVars
<1>9. QED
  BY <1>1, <1>2, <1>3, <1>4, <1>5, <1>6, <1>7, <1>8 DEF HandlerStep

LEMMA NextRisk ==
  ASSUME TypeInv, AccountInv, LargestExist, [Next]_vars
  PROVE  RiskStep
<1>1. ASSUME NEW c \in Conns, NEW d \in Places, MoveTo(c, d) PROVE RiskStep
  BY <1>1, Unbooked DEF MoveTo, Free, dbVars, auditVars, httpVars, handlerVars
<1>2. CASE UNCHANGED vars
  <2>1. /\ sound' = sound /\ failures' = failures
        /\ UNCHANGED <<dbBiomass, granted, planted, flown, phase, job, user>>
    BY <1>2 DEF vars, dbVars, auditVars, httpVars, sessionVars, handlerVars
  <2>2. QED
    BY <2>1 DEF RiskStep, Unsettled, Surplus, Due
<1>3. ASSUME NEW c \in Conns, NEW d \in Places, CalcWarpCost(c, d) PROVE RiskStep
  BY <1>3, TerminateIdle, Unbooked DEF CalcWarpCost, Free, dbVars, auditVars, httpVars
<1>4. QED
  BY <1>1, <1>2, <1>3, LifecycleRisk, CommandRisk, HandlerRisk DEF Next

LEMMA InitRisk == Init /\ LargestExist => RiskInv
<1> SUFFICES ASSUME Init, LargestExist, NEW u \in Funded
             PROVE  /\ Unsettled(u) <= MaxFare * failures
                    /\ Unsettled(u) >= 0 - MaxDeploy * failures
  BY DEF RiskInv
<1>1. /\ dbBiomass[u] = Opening[u] /\ planted[u] = 0 /\ flown[u] = 0 /\ granted[u] = 0
      /\ Opening[u] \in Nat
  BY DEF Init, AlmanacInit, AuditInit, AlmanacAssumption
<1>2. Due(u) = 0 /\ failures = 0
  BY DEF Init, HttpInit, ServerInit, Due
<1>3. Unsettled(u) = 0
  BY <1>1, <1>2 DEF Unsettled, Surplus
<1>4. MaxFare * 0 = 0 /\ MaxDeploy * 0 = 0
  BY LargestBound
<1>5. QED
  BY <1>2, <1>3, <1>4

\* A failure costs one command, whatever it interrupts: the books of a sound
\* account balance up to a fare, or a deployment, for each command at risk (see
\* OneCommandAtRisk). Where fares or deployments had no largest one there would be
\* no such bound to speak of.
THEOREM FailuresCostOneCommand == ASSUME LargestExist PROVE Spec => []OneCommandAtRisk
<1>1. TypeInv /\ TypeInv' /\ AccountInv /\ RiskInv /\ [Next]_vars => RiskInv'
  BY NextRisk, RiskKept
<1>2. TypeInv /\ AccountInv /\ RiskInv => OneCommandAtRisk
  <2> SUFFICES ASSUME TypeInv, RiskInv, NEW u \in Funded, u \in sound
               PROVE  LET given == Opening[u] + granted[u]
                          used  == dbBiomass[u] + planted[u] + flown[u]
                      IN  /\ used <= given + MaxFare * AtRisk
                          /\ used >= given - MaxDeploy * AtRisk
    BY DEF OneCommandAtRisk
  <2>1. PICK k \in Nat : k = failures
    BY RiskTypes
  <2>2. /\ Surplus(u) - Due(u) <= MaxFare * k /\ Surplus(u) - Due(u) >= 0 - MaxDeploy * k
        /\ Surplus(u) \in Int /\ Due(u) \in Int
    BY <2>1, RiskTypes DEF RiskInv, Unsettled
  <2>3. PICK F \in Nat, D \in Nat : F = MaxFare /\ D = MaxDeploy
    BY LargestBound
  <2>4. PICK fk \in Nat, dk \in Nat : fk = F * k /\ dk = D * k
    BY OneMore
  <2>5. F * (k + 1) = fk + F /\ D * (k + 1) = dk + D
    BY <2>4, OneMore
  <2>6. Surplus(u) <= F * AtRisk /\ Surplus(u) >= 0 - D * AtRisk
    <3>1. CASE phase = "idle"
      <4>1. AtRisk = k /\ Due(u) = 0
        BY <2>1, <3>1 DEF AtRisk, Due
      <4>2. QED
        BY <2>2, <2>3, <4>1
    <3>2. CASE phase # "idle"
      <4>1. AtRisk = k + 1
        BY <2>1, <3>2 DEF AtRisk
      <4>2. Due(u) \in (0 - D)..F
        <5>1. CASE phase = "warp_pay"
          BY <2>3, <5>1, RunningType, ChargeableNat, LargestBound DEF Due, Fits, Chargeable
        <5>2. CASE phase = "deploy_post"
          <6>1. job.amount \in DeployAmounts
            BY <5>2, RunningType DEF Fits, DeployPhases
          <6>2. Price(job.amount) \in 0..D
            <7>1. job.amount \in Int
              BY <6>1 DEF OrbitalAssumption
            <7>2. Price(job.amount) \in Nat /\ Price(job.amount) <= MaxDeploy
              BY <6>1, <7>1, PriceType, LargestBound
            <7>3. QED
              BY <2>3, <7>2
          <6>3. QED
            BY <2>3, <5>2, <6>2 DEF Due
        <5>3. QED
          BY <2>3, <5>1, <5>2 DEF Due
      <4>3. Surplus(u) <= fk + F /\ Surplus(u) >= 0 - (dk + D)
        BY <2>2, <2>3, <2>4, <4>2
      <4>4. QED
        BY <2>5, <4>1, <4>3
    <3>3. QED
      BY <3>1, <3>2
  <2>7. PICK fr \in Nat, dr \in Nat : fr = MaxFare * AtRisk /\ dr = MaxDeploy * AtRisk
    <3>1. AtRisk \in Nat
      BY <2>1 DEF AtRisk
    <3>2. QED
      BY <2>3, <3>1, OneMore
  <2>8. Surplus(u) <= fr /\ Surplus(u) >= 0 - dr
    BY <2>3, <2>6, <2>7
  <2>9. /\ dbBiomass[u] \in Int /\ planted[u] \in Nat /\ flown[u] \in Nat
        /\ granted[u] \in Nat /\ Opening[u] \in Nat
    BY RiskTypes
  <2> DEFINE given == Opening[u] + granted[u]
             used  == dbBiomass[u] + planted[u] + flown[u]
  <2>10. used <= given + fr /\ used >= given - dr
    BY <2>7, <2>8, <2>9 DEF Surplus
  <2> HIDE DEF given, used
  <2>11. used <= given + MaxFare * AtRisk /\ used >= given - MaxDeploy * AtRisk
    BY <2>7, <2>10, Zenon
  <2>12. QED
    BY <2>11, Zenon DEF given, used
<1>3. Init => RiskInv
  BY InitRisk
<1>4. QED
  BY <1>1, <1>2, <1>3, TypeInvariant, AccountInvariant, PTL DEF Spec

-----------------------------------------------------------------------------
(* GameServer implements Account: every step of the server is, for the        *)
(* accounts, a step of Account or none.                                        *)

\* The accounts as Account sees them.
Balance == [u \in Funded |-> dbBiomass[u]]
Earned  == [u \in Funded |-> granted[u]]
Kept    == Funded \cap sound

AccountStep == A!Next \/ UNCHANGED <<Balance, Earned, Kept>>

LEMMA AccountStepSuffices == AccountStep => [A!Next]_(A!accountVars)
  BY DEF AccountStep, A!accountVars, Balance, Earned, Kept

LEMMA AccountInit == Init => A!Init
<1> SUFFICES ASSUME Init PROVE A!Init
  OBVIOUS
<1>1. dbBiomass = Opening /\ granted = [u \in Users |-> 0] /\ sound = Users
  BY DEF Init, AlmanacInit, AuditInit
<1>2. \A u \in Funded : u \in Users /\ dbBiomass[u] = Opening[u] /\ granted[u] = 0
  BY <1>1
<1>3. Funded \cap sound = Funded
  BY <1>1
<1>4. QED
  BY <1>2, <1>3 DEF A!Init

\* The actions of Account, in terms of the server's state.

LEMMA LapseStep ==
  ASSUME TypeInv, NEW u \in Funded, NEW g \in Grantable,
         UNCHANGED Balance,
         Earned' = [Earned EXCEPT ![u] = granted[u] + g],
         Kept' = Kept \ {u}
  PROVE  AccountStep
<1>1. A!Lapse(u)
  BY DEF A!Lapse, A!Book, Balance, Earned, Kept, Grantable
<1>2. QED
  BY <1>1 DEF AccountStep, A!Next

LEMMA EarnStep ==
  ASSUME TypeInv, NEW u \in Kept, NEW g \in Grantable,
         Balance' = [Balance EXCEPT ![u] = dbBiomass[u] + g],
         Earned' = [Earned EXCEPT ![u] = granted[u] + g],
         Kept' = Kept
  PROVE  AccountStep
<1>1. A!Earn(u)
  BY DEF A!Earn, A!Book, Balance, Earned, Kept, Grantable
<1>2. QED
  BY <1>1 DEF AccountStep, A!Next, Kept

LEMMA PayStep ==
  ASSUME TypeInv, NEW u \in Kept, NEW a \in Chargeable, a <= dbBiomass[u],
         Balance' = [Balance EXCEPT ![u] = dbBiomass[u] - a],
         Earned' = Earned, Kept' = Kept
  PROVE  AccountStep
<1>1. A!Pay(u)
  BY DEF A!Pay, Balance, Earned, Kept, Chargeable
<1>2. QED
  BY <1>1 DEF AccountStep, A!Next, Kept

LEMMA DriftStep ==
  ASSUME TypeInv, NEW u \in Funded, u \notin Kept, NEW g \in Grantable,
         NEW b \in 0..(Opening[u] + granted[u] + g),
         Balance' = [Balance EXCEPT ![u] = b],
         Earned' = [Earned EXCEPT ![u] = granted[u] + g],
         Kept' = Kept
  PROVE  AccountStep
<1>1. A!Drift(u)
  BY DEF A!Drift, A!Book, Balance, Earned, Kept, Grantable
<1>2. QED
  BY <1>1 DEF AccountStep, A!Next

\* No account's books change; one may lapse.
LEMMA QuietStep ==
  ASSUME TypeInv, UNCHANGED <<dbBiomass, granted>>, NEW v \in Users \cup {None},
         sound' \in {sound, sound \ {v}}
  PROVE  AccountStep
<1>1. UNCHANGED <<Balance, Earned>>
  BY DEF Balance, Earned
<1>2. CASE Kept' = Kept
  BY <1>1, <1>2 DEF AccountStep
<1>3. CASE Kept' # Kept
  <2>1. v \in Funded /\ Kept' = Kept \ {v}
    BY <1>3 DEF Kept
  <2>2. granted[v] \in Nat
    BY <2>1, Typing
  <2>3. Earned' = [Earned EXCEPT ![v] = granted[v] + 0]
    BY <1>1, <2>1, <2>2 DEF Earned
  <2>4. 0 \in Grantable
    BY DEF Grantable
  <2>5. QED
    BY <1>1, <2>1, <2>3, <2>4, LapseStep
<1>4. QED
  BY <1>2, <1>3

\* A save, by the outcome of its request.
LEMMA SavedStep ==
  ASSUME TypeInv, AccountInv, SavedBy
  PROVE  AccountStep
<1>1. PICK o \in Outcomes, c \in conns, b \in Int, g \in Nat : Saved(o, c, b, g)
  BY DEF SavedBy
<1> DEFINE u == user[c]
<1>2. u \in Users \cup {None} /\ c \in Conns
  BY Typing
<1>3. g \in Grantable
  BY <1>1 DEF Saved, Grantable
<1>4. /\ granted' = IF o = "unsent" THEN granted ELSE Tally(granted, u, g)
      /\ sound' = IF o = "refused" THEN sound \ {u} ELSE sound
      /\ IF Applied(o) /\ u # None THEN dbBiomass' = [dbBiomass EXCEPT ![u] = b]
                                    ELSE UNCHANGED dbBiomass
  BY <1>1 DEF Saved, SaveBiomass, PutBiomass, NoteWrite
<1>5. \A v \in Funded \ {u} : granted'[v] = granted[v] /\ dbBiomass'[v] = dbBiomass[v]
  BY <1>4, Typing DEF Tally
<1>6. CASE u \notin Funded
  <2>1. Balance' = Balance /\ Earned' = Earned /\ Kept' = Kept
    BY <1>4, <1>5, <1>6 DEF Balance, Earned, Kept
  <2>2. QED
    BY <2>1 DEF AccountStep
<1>7. CASE u \in Funded /\ o = "unsent"
  <2>1. UNCHANGED <<dbBiomass, granted>> /\ sound' = sound
    BY <1>4, <1>7 DEF Applied
  <2>2. QED
    BY <1>2, <2>1, QuietStep
<1>8. CASE u \in Funded /\ o # "unsent"
  <2>1. u \in Users /\ u # None /\ granted[u] \in Nat
    BY <1>8, Typing
  <2>2. granted'[u] = granted[u] + g
    BY <1>4, <1>8, <2>1, Typing DEF Tally
  <2>3. Earned' = [Earned EXCEPT ![u] = granted[u] + g]
    BY <1>5, <1>8, <2>2 DEF Earned
  <2>4. CASE o = "refused"
    <3>1. Balance' = Balance /\ Kept' = Kept \ {u}
      BY <1>4, <2>4 DEF Applied, Balance, Kept
    <3>2. QED
      BY <1>3, <1>8, <2>3, <3>1, LapseStep
  <2>5. CASE o # "refused"
    <3>1. Applied(o)
      BY <1>8, <2>5 DEF Applied, Outcomes
    <3>2. dbBiomass'[u] = b /\ Kept' = Kept
      BY <1>4, <2>1, <2>5, <3>1, Typing DEF Kept
    <3>3. Balance' = [Balance EXCEPT ![u] = b]
      BY <1>5, <1>8, <3>2 DEF Balance
    <3>4. CASE u \notin Kept
      <4>1. b \in 0..(Opening[u] + granted[u] + g)
        BY <1>1, <1>8, SaveCovered
      <4>2. QED
        BY <1>3, <1>8, <2>3, <3>2, <3>3, <3>4, <4>1, DriftStep
    <3>5. CASE u \in Kept
      <4>1. biomass[c] = dbBiomass[u] /\ dbBiomass[u] \in Int
        BY <1>2, <2>1, <3>5, Typing DEF AccountInv, Kept
      <4>2. CASE b = biomass[c] + g
        BY <1>3, <2>3, <3>2, <3>3, <3>5, <4>1, <4>2, EarnStep
      <4>3. ASSUME g = 0, NEW a \in Chargeable, b = biomass[c] - a, a <= biomass[c]
            PROVE  AccountStep
        <5>1. Earned' = Earned
          <6>1. granted'[u] = granted[u]
            BY <2>1, <2>2, <4>3
          <6>2. QED
            BY <1>5, <6>1 DEF Earned
        <5>2. b = dbBiomass[u] - a /\ a <= dbBiomass[u]
          BY <4>1, <4>3
        <5>3. Balance' = [Balance EXCEPT ![u] = dbBiomass[u] - a]
          BY <3>3, <5>2
        <5> HIDE DEF u
        <5>4. QED
          BY <3>2, <3>5, <5>1, <5>2, <5>3, PayStep
      <4>4. QED
        BY <1>1, <4>2, <4>3 DEF Saved
    <3>6. QED
      BY <3>4, <3>5
  <2>6. QED
    BY <2>4, <2>5
<1>9. QED
  BY <1>6, <1>7, <1>8

LEMMA NextAccountStep ==
  ASSUME TypeInv, AccountInv, [Next]_vars
  PROVE  AccountStep
<1>1. Effect
  BY NextEffect DEF AccountInv
<1>2. CASE Quiet
  <2>1. PICK v \in Users \cup {None} : sound' \in {sound, sound \ {v}}
    BY <1>2 DEF Quiet
  <2>2. UNCHANGED <<dbBiomass, granted>>
    BY <1>2 DEF Quiet
  <2>3. QED
    BY <2>1, <2>2, QuietStep
<1>3. CASE LoggedIn
  <2>1. PICK v \in Users : sound' \in {sound, sound \ {v}}
    BY <1>3 DEF LoggedIn
  <2>2. UNCHANGED <<dbBiomass, granted>>
    BY <1>3 DEF LoggedIn
  <2>3. QED
    BY <2>1, <2>2, QuietStep
<1>4. CASE Reseated
  <2>1. UNCHANGED <<dbBiomass, granted>> /\ sound' = sound
    BY <1>4 DEF Reseated
  <2>2. QED
    BY <2>1, QuietStep
<1>5. CASE SavedBy
  BY <1>5, SavedStep
<1>6. QED
  BY <1>1, <1>2, <1>3, <1>4, <1>5 DEF Effect

\* The record of an account moves as an Account does: by whole grants and charges
\* while it is sound, and otherwise within what was put in, whatever the order of
\* commands, sessions and failures (see RefinesAccount).
THEOREM ImplementsAccount == Spec => RefinesAccount
<1>1. TypeInv /\ AccountInv /\ [Next]_vars => [A!Next]_(A!accountVars)
  BY NextAccountStep, AccountStepSuffices
<1>2. QED
  BY <1>1, AccountInit, TypeInvariant, AccountInvariant, PTL
     DEF Spec, RefinesAccount, A!Spec
=============================================================================
