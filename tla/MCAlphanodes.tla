---------------------------- MODULE MCAlphanodes ----------------------------
(* The owner, a peer of it, and a peer of that one. *)
EXTENDS Alphanodes, TLC

CONSTANTS o, p1, p2

Line == {o, p1, p2}
LinePeers == o :> {p1} @@ p1 :> {o, p2} @@ p2 :> {p1}

=============================================================================
