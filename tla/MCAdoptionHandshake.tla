------------------------- MODULE MCAdoptionHandshake -------------------------
(* Two adoptions in a row, each with a key of its own. *)
EXTENDS AdoptionHandshake
CONSTANTS k1, k2
TwoKeys == <<k1, k2>>
BothKeys == {k1, k2}
=============================================================================
