---------------------------- MODULE MCPoolTable -----------------------------
(* One path that may have two pools, and three objects: one that is found   *)
(* by its tag, one that is given up meanwhile, and one that comes after.     *)
EXTENDS PoolTable

CONSTANTS p1
OnePath == {p1}
TwoPools == {<<p1, 1>>, <<p1, 2>>}
PathOfPool == [q \in TwoPools |-> q[1]]
=============================================================================
