------------------------------- MODULE Audit -------------------------------
(* History variables: what an auditor who saw every request would write down.  *)
(* No action of the server reads them; only "ops" occurs in a guard, where it  *)
(* bounds the length of a behaviour.                                           *)
EXTENDS PlanetManager

CONSTANT MaxOps         \* bound of the model: paid commands in a behaviour

ASSUME OpsAssumption == MaxOps \in Nat

VARIABLES granted,      \* granted[u]: biomass credited to u, for extractions and
                        \* for deployments of less than nothing
          planted,      \* planted[u]: biomass u deployed that the Almanac has
          flown,        \* flown[u]: fares of the warps of u the Almanac has seen
          sound,        \* the users whose account no two live sessions ever
                        \* shared, and for whom no write was ever refused
          outsized,     \* the planets somebody deployed less than nothing or
                        \* more than a whole planet to
          ops           \* paid commands accepted so far

auditVars == <<granted, planted, flown, sound, outsized>>

Tally(book, u, amount) ==
    IF u = None THEN book ELSE [book EXCEPT ![u] = book[u] + amount]

\* A write made for u is lost without a word when it is refused.
NoteWrite(o, u) ==
    sound' = IF o = "refused" THEN sound \ {u} ELSE sound

AcceptCommand == ops < MaxOps /\ ops' = ops + 1

AuditInit ==
    /\ granted = [u \in Users |-> 0]
    /\ planted = [u \in Users |-> 0]
    /\ flown = [u \in Users |-> 0]
    /\ sound = Users
    /\ outsized = {}
    /\ ops = 0

AuditTypeOK ==
    /\ granted \in [Users -> Nat]
    /\ planted \in [Users -> Nat]
    /\ flown \in [Users -> Nat]
    /\ sound \subseteq Users
    /\ outsized \subseteq Planets
    /\ ops \in 0..MaxOps
=============================================================================
