------------------------------ MODULE Account ------------------------------
(* What the server promises the holder of an account, whatever the order of    *)
(* commands, sessions and failures. A sound account is kept like a ledger: the *)
(* balance moves by whole grants and charges and pays for what is charged. An  *)
(* account that lapsed, because two sessions shared it or a write was lost,    *)
(* may drift, but never below zero nor above what was ever put in.             *)
EXTENDS Integers

CONSTANTS Holders,
          Deposit,      \* the balance each account opens with, a natural number
          Grants,       \* the amounts one command may bring, 0 among them
          Charges       \* the amounts one warp or deployment may cost

VARIABLES balance,
          earned,       \* what the commands of the holder brought in all
          kept          \* the holders whose account is sound

accountVars == <<balance, earned, kept>>

Init ==
    /\ balance = Deposit
    /\ earned = [u \in Holders |-> 0]
    /\ kept = Holders

Book(u, amount) == earned' = [earned EXCEPT ![u] = earned[u] + amount]

Earn(u) ==
    /\ u \in kept
    /\ \E g \in Grants : Book(u, g) /\ balance' = [balance EXCEPT ![u] = balance[u] + g]
    /\ UNCHANGED kept

Pay(u) ==
    /\ u \in kept
    /\ \E a \in Charges : a <= balance[u] /\ balance' = [balance EXCEPT ![u] = balance[u] - a]
    /\ UNCHANGED <<earned, kept>>

\* The account is kept no longer; the write that is lost may be that of a grant.
Lapse(u) ==
    /\ kept' = kept \ {u}
    /\ \E g \in Grants : Book(u, g)
    /\ UNCHANGED balance

\* Some session's idea of the balance is written over another's.
Drift(u) ==
    /\ u \notin kept
    /\ \E g \in Grants :
          /\ Book(u, g)
          /\ \E b \in 0..(Deposit[u] + earned[u] + g) : balance' = [balance EXCEPT ![u] = b]
    /\ UNCHANGED kept

Next == \E u \in Holders : Earn(u) \/ Pay(u) \/ Lapse(u) \/ Drift(u)

Spec == Init /\ [][Next]_accountVars
-----------------------------------------------------------------------------
\* An account is never overdrawn and never holds more than was put in.
Covered == \A u \in Holders : balance[u] \in 0..(Deposit[u] + earned[u])
=============================================================================
