------------------------------ MODULE Adoption ------------------------------
(***************************************************************************)
(* What one emulated device promises about its adoption, whatever the      *)
(* controller answers: the three public states of device.go, the key the   *)
(* device informs under, and whether the controller has been told of the   *)
(* adoption by an inform that was itself sent adopted.                     *)
(*                                                                         *)
(* docs/PROTOCOL.md, "Adoption handshake": the device is connected once a  *)
(* reply arrives to an inform that was already sent adopted.               *)
(***************************************************************************)
CONSTANTS Key,        \* every authkey a controller may hand out
          DefaultKey  \* the key of an unadopted device

VARIABLES status,     \* PENDING, ADOPTING or CONNECTED
          key,        \* the key of the next inform
          declared    \* the controller has received an adopted inform

vars == <<status, key, declared>>

Init ==
  /\ status = "PENDING"
  /\ key = DefaultKey
  /\ declared = FALSE

\* The controller hands over a key, or confirms the one in use.  Nothing has
\* been declared yet when the adoption starts from PENDING.
Adopt(k) ==
  /\ status' = "ADOPTING"
  /\ key' = k
  /\ UNCHANGED declared

\* An inform that says default=false reaches the controller.
Declare ==
  /\ status # "PENDING"
  /\ declared' = TRUE
  /\ UNCHANGED <<status, key>>

Connect ==
  /\ status = "ADOPTING"
  /\ declared
  /\ status' = "CONNECTED"
  /\ UNCHANGED <<key, declared>>

\* A factory reset forgets the adoption as a whole.
Reset == status' = "PENDING" /\ key' = DefaultKey /\ declared' = FALSE

Next ==
  \/ \E k \in Key : Adopt(k)
  \/ Declare
  \/ Connect
  \/ Reset

Spec == Init /\ [][Next]_vars
=============================================================================
