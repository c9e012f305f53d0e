--------------------------- MODULE MCGraphSearch ---------------------------
(* Small instances of GraphSearch for TLC.                                 *)
EXTENDS GraphSearch

(* Five objects: ways of one, two, three and four hops from 1 to 3, a      *)
(* branch and a self-loop.                                                 *)
FiveNodes == 1..5

SomeEdges == {<<1, 2>>, <<3, 2>>, <<1, 4>>, <<4, 5>>, <<3, 5>>, <<2, 4>>, <<1, 3>>, <<5, 5>>}

SomeRequests == {<<1, 3>>, <<3, 1>>, <<2, 2>>}
=============================================================================
