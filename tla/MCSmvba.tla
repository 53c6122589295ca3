------------------------------ MODULE MCSmvba ------------------------------
(* Instances of Smvba. *)
EXTENDS Smvba, TLC

CONSTANTS a, b, c, d

(* The same leader twice: its first proposal reaches nobody, its second a quorum. *)
OneLeader == {<<a, a>>}
SecondTry == <<{a}, {a, b, c}>>
OthersAlike == Permutations({b, c})

(* Two rounds with different leaders. *)
TwoLeaders == {<<b, c>>}
LateOne == <<{a, b, c}, {b, c, d}>>
=============================================================================
