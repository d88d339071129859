---------------------------- MODULE HttpClient ----------------------------
(* HttpClient::Request, the one way the game server reaches the Almanac (the   *)
(* persistence server) : a blocking call on a fresh TCP connection, without a  *)
(* timeout and without a retry.                                                *)
(*                                                                             *)
(*   "answered"    the request is sent, the answer read                        *)
(*   "refused"     connecting fails, and the exception is swallowed; or the    *)
(*                 server turns the request down with an HTTP error            *)
(*   "garbled"     the server does what is asked, but its answer is not JSON   *)
(*   "unsent"      the connection breaks before the request has arrived        *)
(*   "unanswered"  the connection breaks after the request has been applied    *)
(*                                                                             *)
(* After "refused" and "garbled" the caller has an object without a Response,  *)
(* which every field is missing from. The last two throw a Boost exception,    *)
(* which nothing below Main.cpp catches.                                       *)
EXTENDS Integers

CONSTANTS MaxRefusals,  \* bound of the model: requests in a behaviour that
                        \* return nothing
          MaxFailures   \* bound of the model: broken connections in a behaviour

ASSUME BudgetAssumption == MaxRefusals \in Nat /\ MaxFailures \in Nat

VARIABLES refusals,     \* requests so far that returned nothing
          failures      \* broken connections so far

httpVars == <<refusals, failures>>

Outcomes == {"answered", "refused", "garbled", "unsent", "unanswered"}

\* The server at the other end has done what the request asks.
Applied(o) == o \in {"answered", "garbled", "unanswered"}

\* The caller gets an object without a Response.
ReadsEmpty(o) == o \in {"refused", "garbled"}

\* The call returns to the handler that made it.
Returns(o) == o = "answered" \/ ReadsEmpty(o)

Request(o) ==
    /\ o \in Outcomes
    /\ ReadsEmpty(o) => refusals < MaxRefusals
    /\ ~Returns(o)   => failures < MaxFailures
    /\ refusals' = IF ReadsEmpty(o) THEN refusals + 1 ELSE refusals
    /\ failures' = IF Returns(o) THEN failures ELSE failures + 1

HttpInit == refusals = 0 /\ failures = 0

HttpTypeOK == refusals \in 0..MaxRefusals /\ failures \in 0..MaxFailures
=============================================================================
