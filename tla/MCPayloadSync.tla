--------------------------- MODULE MCPayloadSync ---------------------------
(* Blocks of heights 1 and 2 share payload p. *)
EXTENDS PayloadSync

CONSTANTS p, q

SharedBlock == 1..2
SharedPayload == {p, q}
SharedPayloadOf == <<{p, q}, {p}>>
SharedHeight == <<1, 2>>
=============================================================================
