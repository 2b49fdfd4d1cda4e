----------------------------- MODULE FleetSpecs -----------------------------
(***************************************************************************)
(* How the unifi-emu command finds out which devices to run: one of five   *)
(* fleet sources, the image's default fleet, or the single-device flags;   *)
(* then the container's own address, the automatic MACs and IPs, and       *)
(* Emu.Add (cmd/unifi-emu: main.go, devices.go, containerip.go).           *)
(***************************************************************************)
EXTENDS Devices, Naturals, Sequences, FiniteSets, FiniteSetsExt

CONSTANTS
  Lists,       \* the device lists a source may hold
  Single,      \* the device the single-device flags describe
  MacSpace,    \* number of addresses; they are 0 .. MacSpace - 1
  MacBase,     \* SIM_MAC_BASE
  IpBase,      \* last octet of SIM_IP_BASE
  LastIp       \* 254

\* What a list says of a device.
Attributes == {"model", "mac", "ip", "type"}

\* Why run() gives up.
Reasons == {"ambiguous", "combined", "unreadable", "address", "unknown model", "gateways",
            "addresses", "add"}

ASSUME FleetAssumption ==
  /\ MacSpace \in Nat \ {0}
  /\ Addresses = 0 .. MacSpace - 1
  /\ MacBase \in Addresses
  /\ IpBase \in Nat /\ LastIp \in Nat
  /\ DOMAIN Single = Attributes
  /\ \A list \in Lists :
       /\ list \in Seq({list[e] : e \in DOMAIN list})
       /\ \A e \in DOMAIN list : DOMAIN list[e] = Attributes
  /\ None \notin Reasons \cup {"container"}

Sources == {"-devices", "SIM_DEVICES", "UNIFI_EMU_DEVICES_JSON", "-models", "SIM_MODELS"}

VARIABLES
  given,     \* per source: "empty", "blank" (white space only) or "set"
  flags,     \* a single-device flag was given
  baked,     \* the image names a default fleet
  cli,       \* where run() is
  from,      \* what the list was read from
  specs,     \* the list
  fleet,     \* MACs that Add keyed a device under
  reason     \* why run() gave up

specVars == <<given, flags, baked, cli, from, specs, fleet, reason>>

Entry == 1 .. Len(specs)

-----------------------------------------------------------------------------
GivenSources == {g \in [Sources -> {"empty", "blank", "set"}] : g["-devices"] # "blank"}

SpecsInit ==
  /\ given \in GivenSources
  /\ flags \in BOOLEAN
  /\ baked \in BOOLEAN
  /\ cli = "sources"
  /\ from = None
  /\ specs = <<>>
  /\ fleet = {}
  /\ reason = None

GiveUp(why) ==
  /\ cli' = "refused"
  /\ reason' = why
  /\ UNCHANGED <<from, specs, fleet>>

\* fleetSources.modelsText: any -models text, blank included, hides SIM_MODELS.
modelsText == IF given["-models"] # "empty" THEN "-models" ELSE "SIM_MODELS"

\* Faulty variant: sources are counted after the two model lists became one.
ActiveCollapsed ==
  {s \in Sources : given[s] = "set"} \ ({"-models", "SIM_MODELS"} \ {modelsText})

Active == {s \in Sources : given[s] = "set"}

FlagSource == Active \cap {"-devices", "-models"} # {}

\* The source the switch at the end of fleetSpecs reads.
Chosen ==
  IF given[modelsText] = "set" THEN modelsText
  ELSE IF given["UNIFI_EMU_DEVICES_JSON"] = "set" THEN "UNIFI_EMU_DEVICES_JSON"
  ELSE IF given["-devices"] = "set" THEN "-devices"
  ELSE IF given["SIM_DEVICES"] = "set" THEN "SIM_DEVICES" ELSE "nothing"

fleetSpecs ==
  /\ cli = "sources"
  /\ IF Cardinality(Active) > 1 THEN GiveUp("ambiguous")
     ELSE IF FlagSource /\ flags THEN GiveUp("combined")
     ELSE /\ from' = IF Active = {} THEN "nothing" ELSE Chosen
          /\ cli' = "read"
          /\ UNCHANGED <<specs, fleet, reason>>
  /\ UNCHANGED <<given, flags, baked>>

\* What an entry of a list carries, by the grammar of its source.
Carried(s, source) ==
  CASE source \in {"-models", "SIM_MODELS"} -> [model |-> s.model, mac |-> None, ip |-> None, type |-> None]
    [] source = "UNIFI_EMU_DEVICES_JSON" -> [s EXCEPT !.ip = None, !.type = None]
    [] OTHER -> s

\* The list read from a source: an empty one is an error.
ReadList(list, source) ==
  IF list = <<>> THEN GiveUp("unreadable")
  ELSE /\ specs' = [e \in 1 .. Len(list) |-> Carried(list[e], source)]
       /\ from' = source
       /\ cli' = "address"
       /\ UNCHANGED <<fleet, reason>>

\* loadDevices, parseDevicesJSON, parseModelsList.
readSource(list) ==
  /\ cli = "read"
  /\ from # "nothing"
  /\ ReadList(list, from)
  /\ UNCHANGED <<given, flags, baked>>

\* No source: the default fleet unless a flag describes a device.
defaultFleet(list) ==
  /\ cli = "read"
  /\ from = "nothing"
  /\ IF baked /\ ~flags THEN ReadList(list, "default")
     ELSE /\ specs' = <<Single>>
          /\ from' = "single"
          /\ cli' = "add"
          /\ UNCHANGED <<fleet, reason>>
  /\ UNCHANGED <<given, flags, baked>>

\* What the source, or the image, holds is not one well-formed document.
malformedList ==
  /\ cli = "read"
  /\ from # "nothing" \/ (baked /\ ~flags)
  /\ GiveUp("unreadable")
  /\ UNCHANGED <<given, flags, baked>>

\* A device container reports its own address for every device.
containerIPv4 ==
  /\ cli = "address"
  /\ IF given["UNIFI_EMU_DEVICES_JSON"] = "set"
     THEN \/ GiveUp("address")
          \/ /\ specs' = [e \in Entry |-> [specs[e] EXCEPT !.ip = "container"]]
             /\ cli' = "expand"
             /\ UNCHANGED <<from, fleet, reason>>
     ELSE cli' = "expand" /\ UNCHANGED <<from, specs, fleet, reason>>
  /\ UNCHANGED <<given, flags, baked>>

-----------------------------------------------------------------------------
(* expandFleet. *)

\* Faulty variant: the last digit is advanced and nothing carried.
nextMACWithoutCarry(n) == (MacBase - (MacBase % 2)) + ((MacBase + n) % 2)

\* The base advanced by n as an integer of MacSpace values.
nextMAC(n) == (MacBase + n) % MacSpace

nextIP(n) == IpBase + n

IsGateway(e) == specs[e].model \in Gateways

\* What expandFleet holds against an entry, given the ones before it.
Trouble(e) ==
  IF specs[e].model \notin Profiles THEN "unknown model"
  ELSE IF IsGateway(e) /\ \E d \in 1 .. e - 1 : IsGateway(d) THEN "gateways"
  ELSE IF specs[e].ip = None /\ nextIP(e - 1) > LastIp THEN "addresses" ELSE None

expandFleet ==
  /\ cli = "expand"
  /\ LET troubled == {e \in Entry : Trouble(e) # None}
     IN  IF troubled # {} THEN GiveUp(Trouble(Min(troubled)))
         ELSE /\ specs' = [e \in Entry |->
                   [specs[e] EXCEPT !.mac = IF @ = None THEN nextMAC(e) ELSE @,
                                    !.ip = IF @ = None THEN nextIP(e - 1) ELSE @]]
              /\ cli' = "add"
              /\ UNCHANGED <<from, fleet, reason>>
  /\ UNCHANGED <<given, flags, baked>>

Mac(e) == normalizeMAC(specs[e].mac)

\* What Add and newDevice refuse.
Invalid(e) ==
  \/ Mac(e) = None
  \/ Mac(e) \in {Mac(d) : d \in 1 .. e - 1}
  \/ specs[e].model \notin Profiles
  \/ specs[e].type \notin {None, Type[specs[e].model]}

\* Emu.Add: the first invalid spec ends the call, and the earlier ones stay.
Add ==
  /\ cli = "add"
  /\ LET faults == {e \in Entry : Invalid(e)}
         kept   == {e \in Entry : \A b \in faults : e < b}
     IN  /\ fleet' = {Mac(e) : e \in kept}
         /\ IF faults = {} THEN cli' = "ready" /\ UNCHANGED reason
            ELSE cli' = "refused" /\ reason' = "add"
  /\ UNCHANGED <<from, specs, given, flags, baked>>

Configure ==
  \/ fleetSpecs
  \/ \E list \in Lists : readSource(list) \/ defaultFleet(list)
  \/ malformedList
  \/ containerIPv4 \/ expandFleet \/ Add

-----------------------------------------------------------------------------
(* Properties. *)

BlankModels == given["-models"] = "blank" /\ given["SIM_MODELS"] = "set"

\* Whatever runs comes from everything the user set: from the one source there
\* is, from the flags if there is no source, from the image's fleet only if
\* nothing was set.  Excepted is a -models of white space, which hides SIM_MODELS
\* (devices.go, fleetSources: "at most one may be set").
OneSourceDecides ==
  cli = "ready" /\ ~BlankModels =>
    /\ \A s \in Sources : given[s] = "set" <=> from = s
    /\ from = "default" => ~flags
    /\ from \in {"-devices", "-models"} => ~flags

FromModels == from \in {"-models", "SIM_MODELS"}

Runs(e) == cli = "ready" /\ e \in Entry

\* The devices of a fleet have distinct addresses, the MACs however they were
\* spelled, and no automatic IP leaves its range; and a list of models alone is
\* never refused for its MACs: the automatic ones do not meet, past the end of the
\* counter either (devices.go, nextMAC, nextIP; emu.go, Add: "the same device
\* added twice errors however it was spelled").
AddressesApart ==
  /\ \A d, e \in Entry : Runs(d) /\ Runs(e) /\ d # e =>
       /\ Canonical[specs[d].mac] \notin {None, Canonical[specs[e].mac]}
       /\ FromModels => specs[d].ip # specs[e].ip /\ specs[d].ip <= LastIp
  /\ FromModels /\ Len(specs) <= MacSpace => reason # "add"
=============================================================================
