---------------------------- MODULE MCBlockSync ----------------------------
(* Two blocks with a missing parent in common: 1 <- 2, 1 <- 3. *)
EXTENDS BlockSync

ForkBlock == 1..3
ForkParent == <<0, 1, 1>>
=============================================================================
