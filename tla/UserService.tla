---------------------------- MODULE UserService ----------------------------
(* The service "user": logging in. One GET of the user record; the session     *)
(* keeps the name and, when the record has one, the balance. Nothing stops two *)
(* connections from logging in as the same user, nor one connection from       *)
(* logging in twice.                                                           *)
EXTENDS WSServer

\* A wrong variant: the balance in the record is not read.
BalanceNotRead(c, u) == biomass[c]

\* The balance the session has after the record of u is read: a record without
\* Biomass leaves the session with whatever it held.
BalanceRead(c, u) == IF u \in hasBiomass THEN dbBiomass[u] ELSE biomass[c]

UserEndpoint(c, u, o) ==
    /\ Free(c)
    /\ Request(o)
    /\ \/ /\ o = "answered"
          /\ user' = [user EXCEPT ![c] = u]
          /\ biomass' = [biomass EXCEPT ![c] = BalanceRead(c, u)]
          /\ sound' = IF \E d \in conns \ {c} : user[d] = u
                      THEN sound \ {u} ELSE sound
          /\ UNCHANGED <<process, conns, pos, handlerVars, planetVars>>
       \/ /\ ReadsEmpty(o)
          /\ UNCHANGED <<process, sessionVars, handlerVars, planetVars, sound>>
       \/ ~Returns(o) /\ Terminate /\ UNCHANGED sound
    /\ UNCHANGED <<dbVars, granted, planted, flown, outsized, ops>>
=============================================================================
