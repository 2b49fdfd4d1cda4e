----------------------------- MODULE FleetPlan -----------------------------
(***************************************************************************)
(* Both ways to a fleet: a user starts unifi-emu with sources of his own,  *)
(* or the herder plans containers and hands the devices of the synthetic   *)
(* one over in UNIFI_EMU_DEVICES_JSON (containers.go,                      *)
(* buildContainerRequest).                                                 *)
(***************************************************************************)
EXTENDS HerderPlan, FleetSpecs

VARIABLE origin   \* "user" or "herder"

vars == <<planVars, specVars, origin>>

Init ==
  /\ SpecsInit
  /\ PlanInit
  /\ origin \in {"user", "herder"}
  /\ origin = "user" => request = <<>>
  /\ origin = "herder" =>
       /\ given = [s \in Sources |-> IF s = "UNIFI_EMU_DEVICES_JSON" THEN "set" ELSE "empty"]
       /\ ~flags /\ baked

\* The n-th device of the synthetic unit, in request order.
Nth(n) == CHOOSE d \in Synthetic : Cardinality({e \in Synthetic : e < d}) = n - 1

\* Faulty variant: the container draws its own addresses.
PayloadWithoutMacs ==
  [n \in 1 .. Cardinality(Synthetic) |->
    [model |-> out[Nth(n)].model, mac |-> None, ip |-> None, type |-> None]]

\* What the synthetic unit's devices are handed over as.
Payload ==
  [n \in 1 .. Cardinality(Synthetic) |->
    [model |-> out[Nth(n)].model, mac |-> out[Nth(n)].mac, ip |-> None, type |-> None]]

PlanStep == origin = "herder" /\ Plan /\ UNCHANGED <<specVars, origin>>

UserStep == origin = "user" /\ Configure /\ UNCHANGED <<planVars, origin>>

\* The command in the synthetic container.
ContainerStep ==
  /\ origin = "herder"
  /\ stage = "planned" /\ Synthetic # {}
  /\ \/ fleetSpecs \/ readSource(Payload) \/ containerIPv4 \/ expandFleet \/ Add
  /\ UNCHANGED <<planVars, origin>>

Next == PlanStep \/ UserStep \/ ContainerStep

Spec == Init /\ [][Next]_vars /\ WF_vars(PlanStep)

-----------------------------------------------------------------------------
(* Properties. *)

InContainer == origin = "herder" /\ stage = "planned"

\* The container runs the devices the herder allocated, under the very
\* addresses it published (containers.go, devicePayload; devices.go,
\* containerDevice: "the caller allocates the identity and hands it over, so
\* nothing here is derived").
IdentityHandedOver ==
  InContainer /\ cli = "ready" =>
    /\ fleet = {out[d].mac : d \in Synthetic}
    /\ \A e \in Entry : specs[e].ip = "container"

\* Of a plan the herder accepted, the container finds nothing wrong but the
\* number of gateways, or a network that gave it no address.
RefusedForLittle ==
  InContainer /\ cli = "refused" => reason \in {"gateways", "address"}

\* A request accepted on a runner that maps nothing runs there (plan.go,
\* BuildPlan: "That is what guarantees the same request runs all-synthetic on a
\* runner with no mapping installed").
AcceptedRunsSynthetic ==
  InContainer /\ mapped = {} => reason # "gateways"
=============================================================================
