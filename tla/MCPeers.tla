------------------------------ MODULE MCPeers -------------------------------
(* A small instance of Peers: names that collide, also with a suffix. *)
EXTENDS Peers

MCNames == {<<"a">>, <<"a", 1>>}
MCSymmetry == Permutations(Others)
MCFirst == <<"a">>
====
