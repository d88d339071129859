--------------------- MODULE OrbitalInteractionsService ---------------------
(* The service "orbital_interactions": a player extracts part of a species     *)
(* from a planet for biomass, deploys biomass into a planet as a species, or   *)
(* edits one. Each command is a sequence of requests to the Almanac, one       *)
(* action each; there is no transaction around them.                           *)
EXTENDS WSServer

CONSTANTS Whole,         \* 100%, and the biomass that makes 100%
          Yield,         \* Yield[x]: GetPercentageToBiomass(x), 0 for x < 0
          NaNYields,     \* the percentages whose yield is not a number
          ExtractAmounts, \* the amounts clients name, of either sign
          DeployAmounts

ASSUME OrbitalAssumption ==
    /\ Whole \in Nat \ {0}
    /\ ExtractAmounts \subseteq Int /\ DeployAmounts \subseteq Int
    /\ Yield \in [ExtractAmounts -> Nat]
    /\ NaNYields \subseteq ExtractAmounts

\* newPercentage < 0.01; and the wrong variant where the bound is taken in percent.
VanishingAtOne(rest) == rest < Whole
Vanishing(rest) == 100 * rest < Whole

\* EXTRACT up to the guard: the species is read; a percentage that is missing
\* reads as 0, one that is null throws, one that is too small is an error.
ExtractQuery(c, p, s, x, o) ==
    /\ Free(c)
    /\ Request(o)
    /\ \/ /\ Returns(o) /\ Reading(o, p, s) # Null /\ Reading(o, p, s) < x
          /\ UNCHANGED <<process, sessionVars, handlerVars, planetVars, ops>>
       \/ /\ Returns(o) /\ Reading(o, p, s) # Null /\ Reading(o, p, s) >= x
          /\ AcceptCommand
          /\ Await("extract_put", Job(c, p, s, x, Reading(o, p, s) - x))
          /\ StayUp
          /\ UNCHANGED <<biomass, pos, listed, planetVars>>
       \/ /\ ~Returns(o) \/ Reading(o, p, s) = Null
          /\ Terminate
          /\ UNCHANGED ops
    /\ UNCHANGED <<dbVars, auditVars>>

\* The PUT of the species: its payload is picojson::value(), a null, and not
\* newPercentage.
ExtractPut(o) ==
    /\ phase = "extract_put"
    /\ Request(o)
    /\ IF Applied(o) THEN PutNull(o, job.planet, job.name) ELSE UNCHANGED shares
    /\ NoteWrite(o, user[job.conn])
    /\ \/ /\ Returns(o)
          /\ Await(IF Vanishing(job.rest) THEN "extract_delete" ELSE "extract_credit", job)
          /\ StayUp
          /\ UNCHANGED <<biomass, pos, listed, planetVars>>
       \/ ~Returns(o) /\ Terminate
    /\ UNCHANGED <<dbBiomass, hasBiomass, dbPos, granted, planted, flown, outsized, ops>>

ExtractDelete(o) ==
    /\ phase = "extract_delete"
    /\ Request(o)
    /\ DeleteSpecies(o, job.planet, job.name)
    /\ NoteWrite(o, user[job.conn])
    /\ \/ /\ Returns(o)
          /\ Await("extract_credit", job)
          /\ StayUp
          /\ UNCHANGED <<biomass, pos, listed, planetVars>>
       \/ ~Returns(o) /\ Terminate
    /\ UNCHANGED <<dbBiomass, hasBiomass, dbPos, granted, planted, flown, outsized, ops>>

\* The credit, then SaveBiomassValue, which throws before its request when the
\* balance is not a number. A grant is booked once the session or the Almanac
\* has it.
ExtractCredit(o) ==
    /\ phase = "extract_credit" /\ job.amount \notin NaNYields
    /\ LET c == job.conn  gain == Yield[job.amount] IN
          /\ SaveBiomass(o, c, biomass[c] + gain)
          /\ granted' = IF o = "unsent" THEN granted ELSE Tally(granted, user[c], gain)
          /\ \/ /\ Returns(o)
                /\ biomass' = [biomass EXCEPT ![c] = biomass[c] + gain]
                /\ Await("reload", job)
                /\ StayUp
                /\ UNCHANGED <<pos, listed, planetVars>>
             \/ ~Returns(o) /\ Terminate
    /\ UNCHANGED <<dbPos, shares, planted, flown, outsized, ops>>

ExtractNotANumber ==
    /\ phase = "extract_credit" /\ job.amount \in NaNYields
    /\ Terminate
    /\ UNCHANGED <<httpVars, dbVars, auditVars, ops>>

\* EDIT_IN_PLANET: the splices are replaced, which the state does not show; the
\* planet is read again.
EditInPlanet(c, p, s, o) ==
    /\ Free(c)
    /\ Request(o)
    /\ \/ /\ Returns(o)
          /\ Await("reload", Job(c, p, s, 0, 0))
          /\ StayUp
          /\ UNCHANGED <<biomass, pos, listed, planetVars>>
       \/ ~Returns(o) /\ Terminate
    /\ UNCHANGED <<dbVars, auditVars, ops>>

\* DEPLOY up to the listing of the planet. Only the balance limits the amount; one
\* below zero passes. With no answer the listing is empty: nothing is diluted.
DeployQuery(c, p, s, b, o) ==
    /\ Free(c) /\ b <= biomass[c]
    /\ AcceptCommand
    /\ outsized' = IF b \in 0..Whole THEN outsized ELSE outsized \cup {p}
    /\ Request(o)
    /\ \/ /\ Returns(o)
          /\ listed' = Listing(o, p)
          /\ Await(IF Listing(o, p) = NoSpecies THEN "deploy_pay" ELSE "deploy_dilute",
                   Job(c, p, s, b, 0))
          /\ StayUp
          /\ UNCHANGED <<biomass, pos, planetVars>>
       \/ ~Returns(o) /\ Terminate
    /\ UNCHANGED <<dbVars, granted, planted, flown, sound>>

\* Wrong variants of the dilution: none at all, and p subtracted unscaled.
Undiluted(old, b) == old
Subtracted(old, b) == old - b

\* old - old * p, in whole units, rounded down; p below zero makes it grow.
Diluted(old, b) == (old * (Whole - b)) \div Whole

\* What the loop has still to do after species s; and the wrong variant where the
\* loop does not advance.
StuckAt(s) == listed
LeftAfter(s) == [listed EXCEPT ![s] = Absent]

\* One turn of the loop over the listing: the percentage is the listed one, and
\* one that is null throws.
DeployDilute(s, o) ==
    /\ phase = "deploy_dilute" /\ listed[s] \notin {Absent, Null}
    /\ Request(o)
    /\ PutPercentage(o, job.planet, s, Diluted(listed[s], job.amount))
    /\ NoteWrite(o, user[job.conn])
    /\ \/ /\ Returns(o)
          /\ listed' = LeftAfter(s)
          /\ Await(IF LeftAfter(s) = NoSpecies THEN "deploy_pay" ELSE "deploy_dilute", job)
          /\ StayUp
          /\ UNCHANGED <<biomass, pos, planetVars>>
       \/ ~Returns(o) /\ Terminate
    /\ UNCHANGED <<dbBiomass, hasBiomass, dbPos, granted, planted, flown, outsized, ops>>

DeployUnreadable ==
    /\ phase = "deploy_dilute" /\ \E s \in Species : listed[s] = Null
    /\ Terminate
    /\ UNCHANGED <<httpVars, dbVars, auditVars, ops>>

\* What a deployment costs, or what one of less than nothing credits.
Price(b) == IF b > 0 THEN b ELSE 0
Credit(b) == IF b < 0 THEN -b ELSE 0

\* The payment, after a GET of the genetic payload that changes nothing: where
\* its connection breaks the outcome is that of a payment that was never sent.
\* A credit is booked as ExtractCredit books a grant.
DeployPay(o) ==
    /\ phase = "deploy_pay"
    /\ SaveBiomass(o, job.conn, AfterPayment)
    /\ granted' = IF o = "unsent" THEN granted
                  ELSE Tally(granted, user[job.conn], Credit(job.amount))
    /\ \/ /\ Returns(o)
          /\ biomass' = [biomass EXCEPT ![job.conn] = AfterPayment]
          /\ Await("deploy_post", job)
          /\ StayUp
          /\ UNCHANGED <<pos, listed, planetVars>>
       \/ ~Returns(o) /\ Terminate
    /\ UNCHANGED <<dbPos, shares, planted, flown, outsized, ops>>

\* The new species gets the percentage that its biomass makes, be it negative.
DeployPost(o) ==
    /\ phase = "deploy_post"
    /\ Request(o)
    /\ PostSpecies(o, job.planet, job.name, job.amount)
    /\ planted' = IF Applied(o) THEN Tally(planted, user[job.conn], Price(job.amount)) ELSE planted
    /\ NoteWrite(o, user[job.conn])
    /\ \/ /\ Returns(o)
          /\ Await("reload", job)
          /\ StayUp
          /\ UNCHANGED <<biomass, pos, listed, planetVars>>
       \/ ~Returns(o) /\ Terminate
    /\ UNCHANGED <<dbBiomass, hasBiomass, dbPos, granted, flown, outsized, ops>>

\* reloadPlanet: the planet is read again; an unreadable listing throws.
Reload(o) ==
    /\ phase = "reload"
    /\ Request(o)
    /\ \/ /\ Returns(o) /\ Readable(Listing(o, job.planet))
          /\ SwapSpecies(job.planet, Listing(o, job.planet))
          /\ Return
          /\ StayUp
          /\ UNCHANGED <<biomass, pos>>
       \/ /\ ~Returns(o) \/ ~Readable(Listing(o, job.planet))
          /\ Terminate
    /\ UNCHANGED <<dbVars, auditVars, ops>>
=============================================================================
