--------------------------- MODULE MCInformDevice ---------------------------
(***************************************************************************)
(* Instances of InformDevice for TLC.  Bounds are in the .cfg files.       *)
(***************************************************************************)
EXTENDS InformDevice
=============================================================================
