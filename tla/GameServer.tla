----------------------------- MODULE GameServer -----------------------------
(* The game server: the services on one event loop, their shared sessions and  *)
(* planets, and the Almanac behind them. The properties of the whole follow    *)
(* the specification.                                                          *)
EXTENDS UserService, SpaceExplorationService, OrbitalInteractionsService, FiniteSetsExt

vars == <<httpVars, dbVars, planetVars, auditVars, ops, process, sessionVars,
          handlerVars>>

Init ==
    /\ HttpInit /\ AlmanacInit /\ PlanetInit /\ AuditInit /\ ServerInit

\* The event loop accepts, closes, stops; or a message starts a handler.
Lifecycle ==
    \/ Start
    \/ RunOutOfWork
    \/ \E c \in Conns : OnConnectionOpen(c) \/ OnConnectionClose(c) \/ StopListening(c)

Command(c) ==
    \E o \in Outcomes :
        \/ \E u \in Users : UserEndpoint(c, u, o)
        \/ \E d \in Places : AttemptWarp(c, d, o) \/ SavePosition(c, d, o)
        \/ \E p \in Planets, s \in Species :
              \/ \E x \in ExtractAmounts : ExtractQuery(c, p, s, x, o)
              \/ \E b \in DeployAmounts : DeployQuery(c, p, s, b, o)
              \/ EditInPlanet(c, p, s, o)

\* The running handler goes on to its next request.
HandlerStep ==
    \/ ExtractNotANumber
    \/ DeployUnreadable
    \/ \E o \in Outcomes :
          \/ WarpPay(o)
          \/ ExtractPut(o) \/ ExtractDelete(o) \/ ExtractCredit(o)
          \/ \E s \in Species : DeployDilute(s, o)
          \/ DeployPay(o) \/ DeployPost(o)
          \/ Reload(o)

Next ==
    \/ Lifecycle
    \/ \E c \in Conns, d \in Places : MoveTo(c, d) \/ CalcWarpCost(c, d)
    \/ \E c \in Conns : Command(c)
    \/ HandlerStep

Spec == Init /\ [][Next]_vars

\* A handler that has started goes on: the calls are synchronous, so this asks
\* only that the Almanac answers or its connection breaks.
FairSpec == Spec /\ WF_vars(HandlerStep)
-----------------------------------------------------------------------------
TypeOK ==
    HttpTypeOK /\ AlmanacTypeOK /\ PlanetTypeOK /\ AuditTypeOK /\ ServerTypeOK

\* The session of c is logged in to an account with a balance.
Holds(c, u) == c \in conns /\ user[c] = u

\* No account and no session is ever overdrawn: between the guard of a command
\* and its payment, however many requests later, nothing else spends the balance
\* (AttemptWarp and WarpPay, DeployQuery and DeployPay).
Solvent ==
    \A u \in Funded :
        /\ dbBiomass[u] >= 0
        /\ \A c \in Conns : Holds(c, u) => biomass[c] >= 0

\* Biomass has no other source than the commands that credit it: neither the
\* record nor any session of an account has more than the account opened with,
\* its extractions granted and its deployments of less than nothing credited
\* (DEPLOY has no lower bound), whichever of several sessions wrote last and
\* whatever requests were lost. Since the whole balance is written each time, a
\* stale session can undo a payment, but never add to what was granted.
NoMint ==
    \A u \in Funded :
        /\ dbBiomass[u] <= Opening[u] + granted[u]
        /\ \A c \in Conns : Holds(c, u) => biomass[c] <= Opening[u] + granted[u]

\* While an account is sound its session is a write-through cache of the record:
\* SaveBiomassValue leaves them equal even where the process ends right after.
WriteThrough ==
    \A u \in Funded, c \in Conns :
        u \in sound /\ Holds(c, u) => biomass[c] = dbBiomass[u]

Fares == {f \in {Cost[a][b] : a, b \in Places} : f > 0}
MaxFare == CHOOSE m \in Fares \cup {0} : \A f \in Fares : f <= m
MaxDeploy == CHOOSE m \in DeployAmounts \cup {0} : \A b \in DeployAmounts \cup {0} : b <= m

\* The commands whose requests may be done in part: the running one, and one for
\* each broken connection.
AtRisk == failures + (IF phase = "idle" THEN 0 ELSE 1)

\* A failure costs one command: the record of a sound account, with what the
\* Almanac has of its deployments and warps, is what the account was given, up to
\* a fare for each command at risk (the position is saved before it is paid for)
\* and down to a deployment (it is paid for before the species is inserted). What
\* a deployment of less than nothing credits counts as given.
OneCommandAtRisk ==
    \A u \in Funded \cap sound :
        LET given == Opening[u] + granted[u]
            used  == dbBiomass[u] + planted[u] + flown[u]
        IN  /\ used <= given + MaxFare * AtRisk
            /\ used >= given - MaxDeploy * AtRisk

\* The record of an account moves as an Account does.
A == INSTANCE Account WITH
        Holders <- Funded,
        Deposit <- [u \in Funded |-> Opening[u]],
        Grants  <- {Yield[x] : x \in ExtractAmounts} \cup {Credit(b) : b \in DeployAmounts}
                       \cup {0},
        Charges <- Fares \cup {Price(b) : b \in DeployAmounts},
        balance <- [u \in Funded |-> dbBiomass[u]],
        earned  <- [u \in Funded |-> granted[u]],
        kept    <- Funded \cap sound

RefinesAccount == A!Spec
-----------------------------------------------------------------------------
\* What a share counts for in the population of its planet.
Part(v) == IF v \in {Absent, Null} THEN 0 ELSE v

Population(p) == MapThenSumSet(LAMBDA s : Part(shares[p][s]), Species)

\* As long as every request is answered or breaks, the species of a planet never
\* make more than the whole of it, even where a deployment breaks off halfway: the
\* others are diluted before the new species is inserted. A planet to which
\* somebody deployed less than nothing is excluded: that raises the others.
PopulationBounded ==
    refusals = 0 => \A p \in Planets \ outsized : Population(p) <= Whole

\* A species makes between none and all of its planet, whatever fails and whatever
\* is deployed elsewhere, as long as nobody deploys less than nothing or more than
\* a whole planet to this one, which DEPLOY lets anybody do.
SharesAreProportions ==
    \A p \in Planets \ outsized, s \in Species : Part(shares[p][s]) \in 0..Whole

\* Between two handlers the server's copy of a planet is the record itself, or it
\* is empty because the listing had no answer: no handler that changed a planet
\* returns without reading it again.
CacheFaithful ==
    process # "down" /\ phase = "idle" =>
        \A p \in loaded : cache[p] = shares[p] \/ cache[p] = NoSpecies

\* A species disappears only when a player took all that was left of it but less
\* than one percent of the planet, not because a request failed: a species whose
\* reading had no answer reads as 0, which no extraction of a positive percentage
\* passes (one of zero or less does).
ExtinctionIsEarned ==
    [][\A p \in Planets, s \in Species :
          shares[p][s] \in Int /\ shares'[p][s] = Absent /\ job.amount > 0
             => 100 * (shares[p][s] - job.amount) < Whole]_vars

\* Every command that is started comes to its end, a reply or the end of the
\* process, whatever the Almanac answers.
HandlerCompletes == phase # "idle" ~> phase = "idle"

\* "We update the proportion of the species in the DB" (the comment on EXTRACT):
\* when the player is credited, what is left of the species is on record.
ExtractUpdatesProportion ==
    phase = "extract_credit" /\ ~Vanishing(job.rest) /\ refusals = 0
        => shares[job.planet][job.name] = job.rest
=============================================================================
