----------------------------- MODULE MCEmuFleet -----------------------------
(* Two devices, in calls that are partly refused, and three goroutines.     *)
EXTENDS EmuFleet

CONSTANTS d1, d2

MCLists == {<<d1>>, <<d2, d1>>, <<d1, Refused, d2>>}
=============================================================================
