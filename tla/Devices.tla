------------------------------ MODULE Devices ------------------------------
(***************************************************************************)
(* What the planners share: the public model registry and MAC addresses.   *)
(* A MAC may be spelled in several ways; Canonical is net.ParseMAC with    *)
(* the six-byte check, and None what it refuses.                           *)
(***************************************************************************)
CONSTANTS
  Models,      \* model codes somebody may name
  Profiles,    \* those in the public registry (emu.Profile)
  Type,        \* the type of their profile
  Spellings,   \* how a MAC may be written; an address spells itself
  Addresses,   \* six-byte MAC addresses, in lowercase colon form
  Canonical,   \* the address a spelling stands for
  None         \* an empty or refused value

ASSUME DevicesAssumption ==
  /\ Profiles \subseteq Models
  /\ DOMAIN Type = Profiles
  /\ Addresses \subseteq Spellings
  /\ Canonical \in [Spellings -> Addresses \cup {None}]
  /\ \A a \in Addresses : Canonical[a] = a
  /\ None \notin Models
  /\ None \notin Spellings

\* A site adopts one device of either family.
Gateways == {m \in Profiles : Type[m] \in {"ugw", "uxg"}}

normalizeMAC(s) == Canonical[s]
=============================================================================
