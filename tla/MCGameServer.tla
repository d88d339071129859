---------------------------- MODULE MCGameServer ----------------------------
(* Small instances of GameServer for TLC.                                      *)
EXTENDS GameServer, TLC

CONSTANTS c1, c2, ann, bob, near, far, edge, eden, elf, orc

\* Ann's record has a balance; Bob's, in the runs where he is there, has none.
MCOpening == [u \in Users |-> IF u \in Funded THEN Whole ELSE 0]

\* From near to far costs 2, back it costs 3, and nobody warps to where he is, nor
\* to or from the edge.
MCCost == [a \in Places |-> [b \in Places |->
              CASE a = b -> 0
                [] a # b /\ edge \in {a, b} -> -1
                [] OTHER -> IF b = far THEN 2 ELSE 3]]

\* Biomass for a percentage, a curve that is not the identity.
MCYield == [x \in ExtractAmounts |-> IF x <= 0 THEN 0 ELSE x + 1]

\* The edge is as far as one can warp from near, and too far from far.
MCAtLimit == {<<near, edge>>, <<edge, near>>} \cap (Places \X Places)

\* The amounts clients name: some below zero, some of more than a planet.
MCFewDeploys == {-1, 3}
MCDeploys == {-100, 200, 400, 450}
MCExtracts == {-1, 0, 98, 100, 300}

\* At first three quarters of eden are elves; the orcs, if any, are the rest.
MCShares == [p \in Planets |-> [s \in Species |->
               IF s = elf THEN 3 * (Whole \div 4) ELSE Whole \div 4]]

MCSymmetry == Permutations(Conns)
=============================================================================
