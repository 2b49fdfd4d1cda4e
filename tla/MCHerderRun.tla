----------------------------- MODULE MCHerderRun -----------------------------
(* HerderRun for TLC: the constants are numbers, given in the .cfg files.    *)
EXTENDS HerderRun
=============================================================================
