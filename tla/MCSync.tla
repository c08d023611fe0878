-------------------------------- MODULE MCSync --------------------------------
(* Three nodes in a line, and two of them with more blocks. *)
EXTENDS Sync

CONSTANTS p1, p2, p3

Network(dials, miners, mined, broken, resetting) ==
    [ dials |-> dials, miners |-> miners, blocks |-> mined, failures |-> broken,
      resets |-> [ n \in Peer |-> IF n \in resetting THEN 1 ELSE 0 ] ]

Pair == { <<p1, p2>> }
Line == { <<p1, p2>>, <<p2, p3>> }

\* Blocks passed on; two branches; three blocks of one branch; failures; a
\* reset of the miner, of the other node.
SmallNetworks ==
    { Network(Line, {p1}, 1, 0, {}), Network(Pair, {p1, p2}, 2, 0, {}),
      Network(Pair, {p1}, 3, 0, {}), Network(Pair, {p1}, 2, 1, {}),
      Network(Pair, {p1}, 1, 0, {p1}), Network(Pair, {p1}, 2, 0, {p2}) }
===============================================================================
