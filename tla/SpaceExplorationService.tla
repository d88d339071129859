---------------------- MODULE SpaceExplorationService ----------------------
(* The service "space_exploration": moving about, and warping, the command     *)
(* that is paid in biomass. A warp saves the new position first and the        *)
(* balance it is paid from second, in two requests.                            *)
EXTENDS WSServer

CONSTANTS Cost,         \* Cost[from][to]: CalcWarpCost, -1 when it is too far
          AtLimit       \* the <<from, to>> exactly MaxWarpDistance apart, where
                        \* GenericEval divides 0 by 0

ASSUME CostAssumption ==
    /\ Cost \in [Places -> [Places -> Int]]
    /\ AtLimit \subseteq Places \X Places

\* INIT and ATTEMPT_MOVE: the session is where the client says it is.
MoveTo(c, d) ==
    /\ Free(c)
    /\ pos' = [pos EXCEPT ![c] = d]
    /\ UNCHANGED <<process, conns, user, biomass, handlerVars, planetVars,
                   httpVars, dbVars, auditVars, ops>>

Fare(c, d) == Cost[pos[c]][d]

\* The fare is not a number: every comparison with it is false.
NotANumber(c, d) == <<pos[c], d>> \in AtLimit

\* CALC_WARP_COST changes nothing, but a fare that is not a number cannot be put
\* in the reply and throws.
CalcWarpCost(c, d) ==
    /\ Free(c) /\ NotANumber(c, d)
    /\ Terminate
    /\ UNCHANGED <<httpVars, dbVars, auditVars, ops>>

\* Wrong variants of the guard: without the balance, and off by one.
CanWarpUnchecked(c, d) == Fare(c, d) > 0
CanWarpOffByOne(c, d) == Fare(c, d) > 0 /\ biomass[c] >= Fare(c, d) - 1

CanWarp(c, d) == Fare(c, d) > 0 /\ biomass[c] > Fare(c, d)

\* ATTEMPT_WARP up to and including SavePositionOnDB; a warp that is too far or
\* too dear is answered with an error and changes nothing.
AttemptWarp(c, d, o) ==
    /\ Free(c) /\ ~NotANumber(c, d) /\ CanWarp(c, d)
    /\ AcceptCommand
    /\ Request(o)
    /\ PutPosition(o, user[c], d)
    /\ flown' = IF Applied(o) THEN Tally(flown, user[c], Fare(c, d)) ELSE flown
    /\ NoteWrite(o, user[c])
    /\ \/ /\ Returns(o)
          /\ pos' = [pos EXCEPT ![c] = d]
          /\ Await("warp_pay", Job(c, None, None, Fare(c, d), 0))
          /\ StayUp
          /\ UNCHANGED <<biomass, listed, planetVars>>
       \/ ~Returns(o) /\ Terminate
    /\ UNCHANGED <<dbBiomass, hasBiomass, shares, granted, planted, outsized>>

\* ATTEMPT_WARP from there on: the fare is taken and the balance saved.
WarpPay(o) ==
    /\ phase = "warp_pay"
    /\ SaveBiomass(o, job.conn, AfterPayment)
    /\ \/ /\ Returns(o)
          /\ biomass' = [biomass EXCEPT ![job.conn] = AfterPayment]
          /\ Return
          /\ StayUp
          /\ UNCHANGED <<pos, planetVars>>
       \/ ~Returns(o) /\ Terminate
    /\ UNCHANGED <<dbPos, shares, granted, planted, flown, outsized, ops>>

\* SAVE_POSITION: the record gets the client's position, the session does not.
SavePosition(c, d, o) ==
    /\ Free(c)
    /\ Request(o)
    /\ PutPosition(o, user[c], d)
    /\ NoteWrite(o, user[c])
    /\ \/ /\ Returns(o)
          /\ UNCHANGED <<process, sessionVars, handlerVars, planetVars>>
       \/ ~Returns(o) /\ Terminate
    /\ UNCHANGED <<dbBiomass, hasBiomass, shares, granted, planted, flown, outsized, ops>>
=============================================================================
