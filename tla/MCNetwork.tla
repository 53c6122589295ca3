----------------------------- MODULE MCNetwork -----------------------------
(* Two broadcasts and a vote for p. *)
EXTENDS Network

CONSTANTS p, q, m1, m2, m3

TwoPeers == {p, q}
Messages == {m1, m2, m3}
To == [m \in Messages |-> IF m = m3 THEN {p} ELSE {p, q}]
=============================================================================
