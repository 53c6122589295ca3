----------------------------- MODULE MCMempool -----------------------------
(* Two transactions that fill a payload, one that exceeds it, an empty one. *)
EXTENDS Mempool

CONSTANTS a, b, c, d, x

FourTx == {a, b, c, d}
Sizes == [t \in FourTx |-> CASE t = c -> 3 [] t = d -> 0 [] OTHER -> 1]
OnePeer == {{x}}
=============================================================================
