----------------------------- MODULE HerderPlan -----------------------------
(***************************************************************************)
(* What unifi-emu-herder decides before it creates a container: the        *)
(* request is decoded, the runtime mapping read, every device given an     *)
(* identity nobody else has (identity.go, Allocate), and the containers    *)
(* planned (plan.go, BuildPlan).                                           *)
(*                                                                         *)
(* An identitySet is a set of claims <<field, value>>.  Text is left out:  *)
(* a derived serial or name is a tuple of what it is made of, and a value  *)
(* the syntax checks refuse is a member of Malformed.                      *)
(***************************************************************************)
EXTENDS Devices, Naturals, Sequences

CONSTANTS
  Wanted,        \* the devices a request may list
  MaxDevices,    \* bound: length of a request
  Local,         \* locally administered unicast addresses
  Malformed,     \* values checkModel, checkSerial, checkName refuse
  Normalized,    \* per model: its DNS label
  RuntimeFiles,  \* what a runtime file may hold: mapped models, or Broken
  Broken,        \* a file LoadRuntimeConfig refuses
  MacRetries     \* macRetries

ASSUME PlanAssumption ==
  /\ \A d \in Wanted : /\ d.model \in Models \cup Malformed \cup {None}
                       /\ d.mac \in Spellings \cup {None}
  /\ MaxDevices \in Nat
  /\ Local \subseteq Addresses
  /\ MacRetries \in Nat
  /\ RuntimeFiles \subseteq (SUBSET Models) \cup {None, Broken}

VARIABLES
  request,   \* the decoded devices
  mapped,    \* models the runner's configuration maps to opaque runtimes
  stage,     \* how far planning is
  i,         \* the device its loop is at
  attempt,   \* draws made for that device
  reserved,  \* claims the caller made
  final,     \* claims derived or generated
  supplied,  \* what the caller gave, for the devices pass 1 saw
  out,       \* the identity, for the devices that have one
  units,     \* the planned containers, by the index of their first device
  code       \* why the request was refused

planVars == <<request, mapped, stage, i, attempt, reserved, final, supplied, out,
              units, code>>

Device == 1 .. Len(request)

Fields == {"mac", "serial", "name"}

\* The values an identity occupies.
Claims(id) == {<<f, id[f]>> : f \in {g \in Fields : id[g] # None}}

Put(f, k, v) == [x \in DOMAIN f \cup {k} |-> IF x = k THEN v ELSE f[x]]

-----------------------------------------------------------------------------
PlanInit ==
  /\ request \in UNION {[1 .. n -> Wanted] : n \in 0 .. MaxDevices}
  /\ mapped = {}
  /\ stage = "decode"
  /\ i = 1
  /\ attempt = 0
  /\ reserved = {}
  /\ final = {}
  /\ supplied = <<>>
  /\ out = <<>>
  /\ units = <<>>
  /\ code = None

Refuse(c) ==
  /\ stage' = "refused"
  /\ code' = c
  /\ UNCHANGED <<i, attempt, reserved, final, supplied, out, units>>

\* To the next device, or with the last one to the stage `to`.
Advance(to) ==
  /\ UNCHANGED code
  /\ IF i < Len(request) THEN i' = i + 1 /\ UNCHANGED stage
     ELSE i' = 1 /\ stage' = to

\* Anything not exactly one document of this version is refused, and so is an
\* empty list.
DecodeRequest ==
  /\ stage = "decode"
  /\ \/ Refuse("invalid_request")
     \/ /\ request # <<>>
        /\ stage' = "runtime"
        /\ UNCHANGED <<i, attempt, reserved, final, supplied, out, units, code>>
  /\ UNCHANGED <<request, mapped>>

\* The flag, then the environment, then the system file if there is one.
ResolveRuntimeConfig(flag, env, system) ==
  IF flag # None THEN flag
  ELSE IF env # None THEN env
  ELSE IF system # None THEN system ELSE {}

ResolveRuntime ==
  /\ stage = "runtime"
  /\ \E flag, env, system \in RuntimeFiles \cup {None} :
       LET cfg == ResolveRuntimeConfig(flag, env, system)
       IN  IF cfg = Broken
           THEN Refuse("invalid_runtime_config") /\ UNCHANGED mapped
           ELSE /\ mapped' = cfg
                /\ stage' = "supply"
                /\ UNCHANGED <<i, attempt, reserved, final, supplied, out, units, code>>
  /\ UNCHANGED request

-----------------------------------------------------------------------------
(* Allocate. *)

\* Faulty variant: an address is kept the way it was spelled.
canonicalMACAsGiven(s) == IF Canonical[s] \in Local THEN s ELSE None

\* None unless the address is one an explicit MAC may be.
canonicalMAC(s) == IF Canonical[s] \in Local THEN Canonical[s] ELSE None

Unusable(d) ==
  \/ d.model \in Malformed \cup {None}
  \/ d.mac # None /\ canonicalMAC(d.mac) = None
  \/ d.serial \in Malformed
  \/ d.name \in Malformed

Given(d) ==
  [model |-> d.model, serial |-> d.serial, name |-> d.name,
   mac |-> IF d.mac = None THEN None ELSE canonicalMAC(d.mac)]

derivedSerial(mac) == <<"EMU", mac>>
derivedName(model, mac) == <<"emu", Normalized[model], mac>>

\* A derived text is not an empty one.
ASSUME DerivedAssumption ==
  \A mac \in Addresses :
    /\ derivedSerial(mac) # None
    /\ \A model \in Models : derivedName(model, mac) # None

\* Faulty variant: a serial the caller gave is replaced.
DeriveAlways(id) ==
  [id EXCEPT !.serial = derivedSerial(id.mac),
             !.name = IF @ = None THEN derivedName(id.model, id.mac) ELSE @]

\* The missing serial and name, from the model and the MAC.
Derive(id) ==
  [id EXCEPT !.serial = IF @ = None THEN derivedSerial(id.mac) ELSE @,
             !.name = IF @ = None THEN derivedName(id.model, id.mac) ELSE @]

\* Pass 1: what the caller supplied is checked and reserved.
Supply ==
  /\ stage = "supply"
  /\ LET id == Given(request[i])
     IN  IF Unusable(request[i]) \/ Claims(id) \cap reserved # {}
         THEN Refuse("invalid_request")
         ELSE /\ supplied' = Put(supplied, i, id)
              /\ reserved' = reserved \cup Claims(id)
              /\ Advance("finish")
              /\ UNCHANGED <<attempt, final, out, units>>
  /\ UNCHANGED <<request, mapped>>

\* Pass 2: devices with a MAC get the rest, or are refused.
Finish ==
  /\ stage = "finish"
  /\ LET id == supplied[i]
         derived == Claims(Derive(id)) \ Claims(id)
     IN  IF id.mac = None
         THEN Advance("generate") /\ UNCHANGED <<attempt, reserved, final, supplied, out, units>>
         ELSE IF derived \cap (reserved \cup final) # {}
         THEN Refuse("invalid_request")
         ELSE /\ out' = Put(out, i, Derive(id))
              /\ final' = final \cup derived
              /\ Advance("generate")
              /\ UNCHANGED <<attempt, reserved, supplied, units>>
  /\ UNCHANGED <<request, mapped>>

\* Pass 3 passes over what pass 2 finished.
Skip ==
  /\ stage = "generate"
  /\ supplied[i].mac # None
  /\ Advance("plan")
  /\ UNCHANGED <<attempt, reserved, final, supplied, out, units, request, mapped>>

\* Faulty variant: a drawn identity is held against generated ones only.
DrawIgnoringReserved ==
  /\ stage = "generate"
  /\ supplied[i].mac = None
  /\ attempt < MacRetries
  /\ \E mac \in Local :
       LET id == Derive([supplied[i] EXCEPT !.mac = mac])
       IN  IF (Claims(id) \ Claims(supplied[i])) \cap final # {}
           THEN /\ attempt' = attempt + 1
                /\ UNCHANGED <<stage, code, i, reserved, final, supplied, out, units>>
           ELSE /\ out' = Put(out, i, id)
                /\ final' = final \cup Claims(id)
                /\ attempt' = 0
                /\ Advance("plan")
                /\ UNCHANGED <<reserved, supplied, units>>
  /\ UNCHANGED <<request, mapped>>

\* Faulty variant: a collision is not counted.
DrawUncounted ==
  /\ stage = "generate"
  /\ supplied[i].mac = None
  /\ \E mac \in Local :
       LET id == Derive([supplied[i] EXCEPT !.mac = mac])
       IN  /\ (Claims(id) \ Claims(supplied[i])) \cap (reserved \cup final) = {}
           /\ out' = Put(out, i, id)
           /\ final' = final \cup Claims(id)
           /\ Advance("plan")
  /\ UNCHANGED <<attempt, reserved, supplied, units, request, mapped>>

\* Pass 3, one draw of generate: six random bytes made local and unicast,
\* thrown away if the address or anything derived from it is taken.
Draw ==
  /\ stage = "generate"
  /\ supplied[i].mac = None
  /\ attempt < MacRetries
  /\ \/ Refuse("invalid_request")
     \/ \E mac \in Local :
          LET id == Derive([supplied[i] EXCEPT !.mac = mac])
          IN  IF (Claims(id) \ Claims(supplied[i])) \cap (reserved \cup final) # {}
              THEN /\ attempt' = attempt + 1
                   /\ UNCHANGED <<stage, code, i, reserved, final, supplied, out, units>>
              ELSE /\ out' = Put(out, i, id)
                   /\ final' = final \cup Claims(id)
                   /\ attempt' = 0
                   /\ Advance("plan")
                   /\ UNCHANGED <<reserved, supplied, units>>
  /\ UNCHANGED <<request, mapped>>

Exhausted ==
  /\ stage = "generate"
  /\ supplied[i].mac = None
  /\ attempt = MacRetries
  /\ Refuse("invalid_request")
  /\ UNCHANGED <<request, mapped>>

-----------------------------------------------------------------------------
(* BuildPlan. *)

Synthetic == {d \in Device : out[d].model \notin mapped}

\* Faulty variant: a synthetic device after an opaque one starts a new batch.
HeadsPerRun ==
  {d \in Device : d \in Synthetic => d = 1 \/ d - 1 \notin Synthetic}

\* A unit stands where its first device does: a mapped device has one of its own,
\* the others share the one of the first of them.
Heads == {d \in Device : d \in Synthetic => \A e \in Synthetic : d <= e}

Unit(h) ==
  IF h \in Synthetic THEN [kind |-> "synthetic", devices |-> Synthetic]
  ELSE [kind |-> "opaque", devices |-> {h}]

\* The development override, or the image of a release build.
SyntheticImage(override, release) == override \/ release

\* Faulty variant: models nobody knows are left to the runtime.
BuildPlanUnchecked ==
  /\ stage = "plan"
  /\ units' = [h \in Heads |-> Unit(h)]
  /\ stage' = "planned"
  /\ UNCHANGED <<i, attempt, reserved, final, supplied, out, code, request, mapped>>

BuildPlan ==
  /\ stage = "plan"
  /\ \E override, release \in BOOLEAN :
       IF \E d \in Device : out[d].model \notin Profiles
       THEN Refuse("synthetic_model_unknown")
       ELSE IF Synthetic # {} /\ ~SyntheticImage(override, release)
       THEN Refuse("synthetic_image_required")
       ELSE /\ units' = [h \in Heads |-> Unit(h)]
            /\ stage' = "planned"
            /\ UNCHANGED <<i, attempt, reserved, final, supplied, out, code>>
  /\ UNCHANGED <<request, mapped>>

\* The MAC of a unit's network endpoint: the batch has none of its own.
EndpointMAC(u) ==
  IF u.kind = "opaque" THEN out[CHOOSE d \in u.devices : TRUE].mac ELSE None

-----------------------------------------------------------------------------
Plan ==
  \/ DecodeRequest \/ ResolveRuntime
  \/ Supply \/ Finish \/ Skip \/ Draw \/ Exhausted
  \/ BuildPlan

PlanSpec == PlanInit /\ [][Plan]_planVars /\ WF_planVars(Plan)

-----------------------------------------------------------------------------
(* Properties. *)

Stages == {"decode", "runtime", "supply", "finish", "generate", "plan", "planned",
           "refused"}

Identity(id) == DOMAIN id = {"model"} \cup Fields

\* The shape of every variable of the planner.
PlanTypeOK ==
  /\ request \in Seq(Wanted)
  /\ mapped \subseteq Models
  /\ stage \in Stages
  /\ i \in Nat \ {0}
  /\ attempt \in 0 .. MacRetries
  /\ DOMAIN supplied \subseteq Device
  /\ DOMAIN out \subseteq Device
  /\ \A d \in DOMAIN supplied : Identity(supplied[d])
  /\ \A d \in DOMAIN out : Identity(out[d]) /\ out[d].mac \in Local

Allocated == stage \in {"plan", "planned"}

\* Once allocated, every device has a MAC, a serial and a name, and shares none
\* of them with another, whatever mix of given, derived and drawn values the
\* request led to (identity.go, Allocate: "Reserving before generating is what
\* lets a generated identity avoid a value a later request entry supplied").
IdentitiesApart ==
  Allocated =>
    /\ DOMAIN out = Device
    /\ \A d \in Device : \A f \in Fields : out[d][f] # None
    /\ \A d, e \in Device : d # e => Claims(out[d]) \cap Claims(out[e]) = {}

\* Nothing the caller gave is replaced, and every device keeps its place
\* (identity.go, Allocate: "supplied serials and names are preserved").
SuppliedKept ==
  Allocated =>
    \A d \in Device :
      /\ out[d].model = request[d].model
      /\ Claims(Given(request[d])) \subseteq Claims(out[d])

\* A plan has every device in exactly one container, no more than one synthetic
\* one, and no two endpoints with one MAC (plan.go, Unit: "every unmapped device
\* rides in the single synthetic unit, and every mapped device gets a unit of
\* its own").
PlannedOnce ==
  stage = "planned" =>
    /\ \A d \in Device : \E h \in DOMAIN units :
         /\ d \in units[h].devices
         /\ \A g \in DOMAIN units : d \in units[g].devices => g = h
    /\ \A g, h \in DOMAIN units :
         g # h => /\ "opaque" \in {units[g].kind, units[h].kind}
                  /\ EndpointMAC(units[g]) # EndpointMAC(units[h])

\* Planning ends, however often a draw collides (identity.go, macRetries).
PlanningEnds == stage = "supply" ~> stage \in {"planned", "refused"}
=============================================================================
