------------------------------ MODULE MCGalaxy ------------------------------
(* Small instances of Galaxy for TLC.                                          *)
EXTENDS Galaxy, TLC

CONSTANTS c1, c2, ann

\* Elves live on the planet with the lowest number.
MCNatives == [p \in Planets |-> IF \A q \in Planets : p <= q THEN Names ELSE {}]

\* A planet in its epoch and in the next; another one; one with the key of that; and
\* one that does not exist.
MCNamed == {<<1, 1>>, <<1, 2>>, <<11, 1>>, <<1, 11>>, <<7, 1>>}

\* To the elves of planet 1, and to those that always are.
MCSentPointers == {Pointer(Key(1, 1), "elf"), Prebaked}

MCSymmetry == Permutations(Conns)
=============================================================================
