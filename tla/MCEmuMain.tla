----------------------------- MODULE MCEmuMain -----------------------------
(* Two devices, in a container that is restarted once.                     *)
EXTENDS EmuMain

CONSTANTS d1, d2

MCOrder == <<d1, d2>>
MCLists == {<<d1, d2>>, <<d1, Refused>>, <<d1, d1>>}
=============================================================================
