----------------------------- MODULE Committee -----------------------------
(***************************************************************************)
(* The committee of authorities and the leader window                      *)
(* (consensus/src/config.rs, consensus/src/leader.rs).  Every authority    *)
(* has stake 1, the only stake the node's key generation writes, so the    *)
(* total stake is the number of authorities.  An authority is its position *)
(* in the sorted vector of names.                                          *)
(***************************************************************************)
EXTENDS Integers, FiniteSets

(* Stake needed for a certificate, for a committee of `total` stake. *)
quorum_threshold_above(total) == 2 * ((total - 1) \div 3) + 2
quorum_threshold(total) == 2 * ((total - 1) \div 3) + 1

(* Stake needed to combine the shares of a common coin. *)
random_coin_threshold(total) == (total - 1) \div 3 + 1

(* Position of the 0-th leader of a height among `size` sorted names. *)
get_leader_idx(size, h) == h % size

(* The vector of leaders of a height: `window` consecutive positions. *)
get_leaders(size, window, h) ==
    [i \in 1..window |-> (get_leader_idx(size, h) + i - 1 + size) % size]

(* What index_as_leader answers for an authority outside the window. *)
NotLeader == -1

(* Rank of the authority at position `pos` among the leaders of a height. *)
index_as_leader(size, window, pos, h) ==
    LET idx == (pos + size - get_leader_idx(size, h)) % size
    IN  IF idx < window THEN idx ELSE NotLeader
=============================================================================
