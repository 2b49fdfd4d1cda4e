-------------------------- MODULE HerderPlan_proofs --------------------------
(***************************************************************************)
(* Identities are apart and kept, and every device is planned once, for    *)
(* any number of devices, any models and mappings, and any random source.  *)
(***************************************************************************)
EXTENDS HerderPlan, WellFoundedInduction, TLAPS

\* Which devices a stage has seen, and which it has finished.
Passes ==
  /\ stage \in {"decode", "runtime"} => i = 1 /\ DOMAIN supplied = {} /\ DOMAIN out = {}
  /\ stage = "supply" =>
       /\ i \in Device
       /\ DOMAIN supplied = {d \in Device : d < i}
       /\ DOMAIN out = {}
  /\ stage = "finish" =>
       /\ i \in Device
       /\ DOMAIN supplied = Device
       /\ DOMAIN out = {d \in Device : d < i /\ supplied[d].mac # None}
  /\ stage = "generate" =>
       /\ i \in Device
       /\ DOMAIN supplied = Device
       /\ DOMAIN out = {d \in Device : d < i \/ supplied[d].mac # None}
  /\ stage \in {"plan", "planned"} => DOMAIN supplied = Device /\ DOMAIN out = Device
  /\ stage = "runtime" => 1 \in Device

\* What callers supplied is reserved, and apart.
Reserved ==
  /\ \A d \in DOMAIN supplied :
       /\ supplied[d] = Given(request[d])
       /\ ~Unusable(request[d])
       /\ Claims(supplied[d]) \subseteq reserved
  /\ \A d, e \in DOMAIN supplied : d # e => Claims(supplied[d]) \cap Claims(supplied[e]) = {}

Own(d) == Claims(out[d]) \ Claims(supplied[d])

\* What was derived or drawn is in final, apart, and avoids what is reserved.
Finished ==
  /\ DOMAIN out \subseteq DOMAIN supplied
  /\ \A d \in DOMAIN out :
       /\ out[d].model = supplied[d].model
       /\ \A f \in Fields : out[d][f] # None
       /\ Claims(supplied[d]) \subseteq Claims(out[d])
       /\ Own(d) \subseteq final
       /\ Own(d) \cap reserved = {}
  /\ \A d, e \in DOMAIN out : d # e => Own(d) \cap Own(e) = {}

Planned ==
  stage = "planned" => units = [h \in Heads |-> Unit(h)]

IndInv == PlanTypeOK /\ Passes /\ Reserved /\ Finished /\ Planned

-----------------------------------------------------------------------------
(* Lemmas. *)

\* Put changes a function at one argument.
LEMMA PutFacts ==
  ASSUME NEW f, NEW k, NEW v
  PROVE  /\ DOMAIN Put(f, k, v) = DOMAIN f \cup {k}
         /\ Put(f, k, v)[k] = v
         /\ \A x \in DOMAIN f : x # k => Put(f, k, v)[x] = f[x]
BY DEF Put

\* What the checks of pass 1 let through is an identity with a usable MAC or none.
LEMMA GivenFacts ==
  ASSUME NEW d \in Wanted, ~Unusable(d)
  PROVE  /\ Identity(Given(d))
         /\ Given(d).model = d.model
         /\ Given(d).model \in Models
         /\ Given(d).mac \in Local \cup {None}
<1>1. d.model \in Models
  BY PlanAssumption DEF Unusable
<1>2. d.mac # None => canonicalMAC(d.mac) # None
  BY DEF Unusable
<1>3. canonicalMAC(d.mac) \in Local \cup {None}
  BY DEF canonicalMAC
<1> QED BY <1>1, <1>2, <1>3 DEF Given, Identity, Fields

\* An address a draw or a caller may give is a value.
LEMMA LocalFacts ==
  ASSUME NEW mac \in Local
  PROVE  mac \in Addresses /\ mac # None
BY PlanAssumption, DevicesAssumption

\* Deriving completes an identity and changes nothing it had.
LEMMA DeriveFacts ==
  ASSUME NEW id, Identity(id), id.mac \in Local, id.model \in Models
  PROVE  /\ Identity(Derive(id))
         /\ Derive(id).model = id.model
         /\ Derive(id).mac = id.mac
         /\ \A f \in Fields : Derive(id)[f] # None
         /\ Claims(id) \subseteq Claims(Derive(id))
<1>1. /\ derivedSerial(id.mac) # None
      /\ derivedName(id.model, id.mac) # None
      /\ id.mac # None
  BY LocalFacts, DerivedAssumption
<1>2. DOMAIN id = {"model", "mac", "serial", "name"}
  BY DEF Identity, Fields
<1>3. /\ DOMAIN Derive(id) = DOMAIN id
      /\ Derive(id).model = id.model
      /\ Derive(id).mac = id.mac
      /\ Derive(id).serial = IF id.serial = None THEN derivedSerial(id.mac) ELSE id.serial
      /\ Derive(id).name = IF id.name = None THEN derivedName(id.model, id.mac) ELSE id.name
  BY <1>2 DEF Derive
<1>4. \A f \in Fields : Derive(id)[f] # None /\ (id[f] # None => Derive(id)[f] = id[f])
  BY <1>1, <1>3 DEF Fields
<1> QED BY <1>2, <1>3, <1>4 DEF Claims, Identity, Fields

\* The same for an identity that a draw gives its MAC.
LEMMA DrawFacts ==
  ASSUME NEW id, Identity(id), id.mac = None, id.model \in Models, NEW mac \in Local
  PROVE  LET full == Derive([id EXCEPT !.mac = mac])
         IN  /\ Identity(full)
             /\ full.model = id.model
             /\ full.mac = mac
             /\ \A f \in Fields : full[f] # None
             /\ Claims(id) \subseteq Claims(full)
<1> DEFINE drawn == [id EXCEPT !.mac = mac]
<1>1. /\ DOMAIN drawn = DOMAIN id
      /\ drawn.mac = mac
      /\ \A f \in DOMAIN id : f # "mac" => drawn[f] = id[f]
  BY DEF Identity, Fields
<1>2. Identity(drawn) /\ drawn.model = id.model
  BY <1>1 DEF Identity, Fields
<1>3. Claims(id) \subseteq Claims(drawn)
  BY <1>1 DEF Claims, Identity, Fields
<1> HIDE DEF drawn
<1>4. /\ Identity(Derive(drawn))
      /\ Derive(drawn).model = drawn.model
      /\ Derive(drawn).mac = drawn.mac
      /\ \A f \in Fields : Derive(drawn)[f] # None
      /\ Claims(drawn) \subseteq Claims(Derive(drawn))
  BY <1>1, <1>2, DeriveFacts
<1> QED BY <1>1, <1>2, <1>3, <1>4 DEF drawn

\* An identity that avoids every claim so far can join the finished ones.
LEMMA Join ==
  ASSUME Reserved, Finished,
         NEW j \in DOMAIN supplied, j \notin DOMAIN out,
         NEW id,
         id.model = supplied[j].model,
         \A f \in Fields : id[f] # None,
         Claims(supplied[j]) \subseteq Claims(id),
         (Claims(id) \ Claims(supplied[j])) \cap (reserved \cup final) = {},
         Claims(id) \ Claims(supplied[j]) \subseteq final',
         final \subseteq final',
         out' = Put(out, j, id),
         UNCHANGED <<reserved, supplied>>
  PROVE  Finished'
<1>1. /\ DOMAIN out' = DOMAIN out \cup {j}
      /\ out'[j] = id
      /\ \A d \in DOMAIN out : out'[d] = out[d]
  BY DEF Put
<1>2. /\ DOMAIN out \subseteq DOMAIN supplied
      /\ \A d \in DOMAIN out :
           /\ out[d].model = supplied[d].model
           /\ \A f \in Fields : out[d][f] # None
           /\ Claims(supplied[d]) \subseteq Claims(out[d])
           /\ Claims(out[d]) \ Claims(supplied[d]) \subseteq final
           /\ (Claims(out[d]) \ Claims(supplied[d])) \cap reserved = {}
      /\ \A d, e \in DOMAIN out : d # e =>
           (Claims(out[d]) \ Claims(supplied[d])) \cap (Claims(out[e]) \ Claims(supplied[e])) = {}
  BY DEF Finished, Own
<1>3. ASSUME NEW d \in DOMAIN out'
      PROVE  /\ out'[d].model = supplied[d].model
             /\ \A f \in Fields : out'[d][f] # None
             /\ Claims(supplied[d]) \subseteq Claims(out'[d])
             /\ Claims(out'[d]) \ Claims(supplied[d]) \subseteq final'
             /\ (Claims(out'[d]) \ Claims(supplied[d])) \cap reserved = {}
  <2>1. CASE d = j
    BY <2>1, <1>1
  <2>2. CASE d \in DOMAIN out
    <3>1. out'[d] = out[d]
      BY <2>2, <1>1
    <3> QED BY <3>1, <2>2, <1>2
  <2> QED BY <1>1, <2>1, <2>2
<1>4. ASSUME NEW d \in DOMAIN out', NEW e \in DOMAIN out', d # e
      PROVE  (Claims(out'[d]) \ Claims(supplied[d])) \cap (Claims(out'[e]) \ Claims(supplied[e])) = {}
  <2>1. CASE d \in DOMAIN out /\ e \in DOMAIN out
    <3>1. out'[d] = out[d] /\ out'[e] = out[e]
      BY <2>1, <1>1
    <3> QED BY <3>1, <2>1, <1>2, <1>4
  <2>2. CASE d = j /\ e \in DOMAIN out
    <3>1. out'[d] = id /\ out'[e] = out[e]
      BY <2>2, <1>1
    <3> QED BY <3>1, <2>2, <1>2
  <2>3. CASE d \in DOMAIN out /\ e = j
    <3>1. out'[d] = out[d] /\ out'[e] = id
      BY <2>3, <1>1
    <3> QED BY <3>1, <2>3, <1>2
  <2> QED BY <1>1, <1>4, <2>1, <2>2, <2>3
<1>5. DOMAIN out' \subseteq DOMAIN supplied
  BY <1>1, <1>2
<1> QED BY <1>3, <1>4, <1>5 DEF Finished, Own
\* Refusing a request disturbs nothing.
LEMMA RefuseKeeps ==
  ASSUME IndInv, NEW c, Refuse(c), UNCHANGED <<request, mapped>>
  PROVE  IndInv'
<1>1. PlanTypeOK'
  BY DEF IndInv, PlanTypeOK, Refuse, Stages, Device
<1>2. Passes' /\ Planned'
  BY DEF Passes, Planned, Refuse
<1>3. Reserved'
  BY DEF IndInv, Reserved, Refuse
<1>4. Finished'
  BY DEF IndInv, Finished, Own, Refuse
<1> QED BY <1>1, <1>2, <1>3, <1>4 DEF IndInv

-----------------------------------------------------------------------------
(* The inductive invariant. *)

\* Before anything is decoded nobody holds a claim.
LEMMA InitInd == PlanInit => IndInv
<1> SUFFICES ASSUME PlanInit PROVE IndInv
  OBVIOUS
<1>1. request \in Seq(Wanted)
  BY DEF PlanInit
<1>2. DOMAIN supplied = {} /\ DOMAIN out = {}
  BY DEF PlanInit
<1>3. PlanTypeOK
  BY <1>1, <1>2, PlanAssumption DEF PlanInit, PlanTypeOK, Stages
<1> QED BY <1>2, <1>3 DEF PlanInit, IndInv, Passes, Reserved, Finished, Planned

\* Pass 1 reserves what one more caller supplied.
LEMMA SupplyInd == IndInv /\ Supply => IndInv'
<1> SUFFICES ASSUME IndInv, Supply PROVE IndInv'
  OBVIOUS
<1> DEFINE id == Given(request[i])
<1>1. CASE Unusable(request[i]) \/ Claims(id) \cap reserved # {}
  BY <1>1, RefuseKeeps DEF Supply
<1>2. CASE ~(Unusable(request[i]) \/ Claims(id) \cap reserved # {})
  <2>1. /\ supplied' = Put(supplied, i, id)
        /\ reserved' = reserved \cup Claims(id)
        /\ Advance("finish")
        /\ stage = "supply"
        /\ UNCHANGED <<attempt, final, out, units, request, mapped>>
    BY <1>2 DEF Supply
  <2>2. /\ i \in Device
        /\ i \in Nat
        /\ Len(request) \in Nat
        /\ request[i] \in Wanted
        /\ DOMAIN supplied = {d \in Device : d < i}
        /\ DOMAIN out = {}
    BY <2>1 DEF IndInv, PlanTypeOK, Passes, Device
  <2>3. /\ DOMAIN supplied' = {d \in Device : d <= i}
        /\ supplied'[i] = id
        /\ \A d \in DOMAIN supplied : supplied'[d] = supplied[d] /\ d # i
    BY <2>1, <2>2 DEF Put, Device
  <2>4. Identity(id)
    BY <1>2, <2>2, GivenFacts
  <2>5. PlanTypeOK'
    <3>1. stage' \in Stages /\ i' \in Nat \ {0}
      BY <2>1, <2>2 DEF Advance, Stages, IndInv, PlanTypeOK
    <3>2. \A d \in DOMAIN supplied' : Identity(supplied'[d])
      BY <2>2, <2>3, <2>4 DEF IndInv, PlanTypeOK, Device
    <3> QED BY <2>1, <2>2, <2>3, <3>1, <3>2 DEF IndInv, PlanTypeOK, Device
  <2>6. Passes'
    <3> USE DEF Device
    <3>1. CASE i < Len(request)
      <4>1. stage' = "supply" /\ i' = i + 1 /\ i' \in Device'
        BY <3>1, <2>1, <2>2 DEF Advance
      <4>2. DOMAIN supplied' = {d \in Device' : d < i'}
        BY <4>1, <2>1, <2>2, <2>3
      <4> QED BY <4>1, <4>2, <2>1, <2>2 DEF Passes
    <3>2. CASE ~(i < Len(request))
      <4>1. stage' = "finish" /\ i' = 1 /\ i' \in Device'
        BY <3>2, <2>1, <2>2 DEF Advance
      <4>2. DOMAIN supplied' = Device'
        BY <3>2, <2>1, <2>2, <2>3
      <4>3. \A d \in Device' : ~(d < i')
        BY <4>1, <2>1, <2>2
      <4> QED BY <4>1, <4>2, <4>3, <2>1, <2>2 DEF Passes
    <3> QED BY <3>1, <3>2
  <2>7. Reserved'
    <3>1. ASSUME NEW d \in DOMAIN supplied'
          PROVE  /\ supplied'[d] = Given(request[d])
                 /\ ~Unusable(request[d])
                 /\ Claims(supplied'[d]) \subseteq reserved'
      <4>1. CASE d = i
        BY <4>1, <1>2, <2>1, <2>3
      <4>2. CASE d # i
        <5>1. d \in DOMAIN supplied
          BY <4>2, <2>2, <2>3, <3>1 DEF Device
        <5> QED BY <5>1, <2>1, <2>3 DEF IndInv, Reserved
      <4> QED BY <4>1, <4>2
    <3>2. ASSUME NEW d \in DOMAIN supplied', NEW e \in DOMAIN supplied', d # e
          PROVE  Claims(supplied'[d]) \cap Claims(supplied'[e]) = {}
      <4>1. \A x \in DOMAIN supplied' : x # i => x \in DOMAIN supplied
        BY <2>2, <2>3 DEF Device
      <4>2. \A x \in DOMAIN supplied : Claims(supplied[x]) \cap Claims(id) = {}
        BY <1>2 DEF IndInv, Reserved
      <4>3. CASE d = i
        BY <4>1, <4>2, <4>3, <2>3, <3>2
      <4>4. CASE e = i
        BY <4>1, <4>2, <4>4, <2>3, <3>2
      <4>5. CASE d # i /\ e # i
        BY <4>1, <4>5, <2>3, <3>2 DEF IndInv, Reserved
      <4> QED BY <4>3, <4>4, <4>5
    <3> QED BY <3>1, <3>2, <2>1 DEF Reserved
  <2>8. Finished' /\ Planned'
    BY <2>1, <2>2 DEF Finished, Planned, Advance
  <2> QED BY <2>5, <2>6, <2>7, <2>8 DEF IndInv
<1> QED BY <1>1, <1>2
\* Decoding and the runtime file touch no identity.
LEMMA DecodeInd == IndInv /\ (DecodeRequest \/ ResolveRuntime) => IndInv'
<1> SUFFICES ASSUME IndInv, DecodeRequest \/ ResolveRuntime PROVE IndInv'
  OBVIOUS
<1>1. CASE (\E c : Refuse(c)) /\ UNCHANGED <<request, mapped>>
  BY <1>1, RefuseKeeps
<1>2. CASE /\ stage = "decode" /\ stage' = "runtime" /\ request # <<>>
           /\ UNCHANGED <<i, attempt, reserved, final, supplied, out, units, code, request, mapped>>
  <2>1. 1 \in Device
    BY <1>2 DEF IndInv, PlanTypeOK, Device
  <2>2. PlanTypeOK'
    BY <1>2 DEF IndInv, PlanTypeOK, Stages, Device
  <2>3. Passes' /\ Planned'
    BY <1>2, <2>1 DEF IndInv, Passes, Planned, Device
  <2>4. Reserved' /\ Finished'
    BY <1>2 DEF IndInv, Reserved, Finished, Own
  <2> QED BY <2>2, <2>3, <2>4 DEF IndInv
<1>3. CASE /\ stage = "runtime" /\ stage' = "supply" /\ mapped' \subseteq Models
           /\ UNCHANGED <<i, attempt, reserved, final, supplied, out, units, code, request>>
  <2>1. PlanTypeOK'
    BY <1>3 DEF IndInv, PlanTypeOK, Stages, Device
  <2>2. Passes' /\ Planned'
    BY <1>3 DEF IndInv, PlanTypeOK, Passes, Planned, Device
  <2>3. Reserved' /\ Finished'
    BY <1>3 DEF IndInv, Reserved, Finished, Own
  <2> QED BY <2>1, <2>2, <2>3 DEF IndInv
<1>5. CASE DecodeRequest
  BY <1>5, <1>1, <1>2 DEF DecodeRequest
<1>6. CASE ResolveRuntime
  <2> DEFINE cfg(flag, env, system) == ResolveRuntimeConfig(flag, env, system)
  <2>1. PICK flag \in RuntimeFiles \cup {None}, env \in RuntimeFiles \cup {None},
             system \in RuntimeFiles \cup {None} :
          IF cfg(flag, env, system) = Broken
          THEN Refuse("invalid_runtime_config") /\ UNCHANGED mapped
          ELSE /\ mapped' = cfg(flag, env, system)
               /\ stage' = "supply"
               /\ UNCHANGED <<i, attempt, reserved, final, supplied, out, units, code>>
    BY <1>6 DEF ResolveRuntime
  <2>2. stage = "runtime" /\ UNCHANGED request
    BY <1>6 DEF ResolveRuntime
  <2>3. cfg(flag, env, system) = Broken \/ cfg(flag, env, system) \subseteq Models
    BY PlanAssumption DEF ResolveRuntimeConfig
  <2>4. CASE cfg(flag, env, system) = Broken
    BY <2>1, <2>2, <2>4, <1>1
  <2>5. CASE cfg(flag, env, system) # Broken
    BY <2>1, <2>2, <2>3, <2>5, <1>3
  <2> QED BY <2>4, <2>5
<1> QED BY <1>5, <1>6

\* Moving on after device i in pass 2, which finished it if it had a MAC.
LEMMA FinishAdvance ==
  ASSUME PlanTypeOK, Passes, stage = "finish", Advance("generate"),
         UNCHANGED <<request, supplied>>,
         DOMAIN out' = DOMAIN out \cup {d \in Device : d = i /\ supplied[d].mac # None}
  PROVE  Passes' /\ stage' \in Stages /\ i' \in Nat \ {0} /\ stage' # "planned"
<1> USE DEF Device
<1>1. /\ i \in Device /\ i \in Nat /\ Len(request) \in Nat
      /\ DOMAIN supplied = Device
      /\ DOMAIN out = {d \in Device : d < i /\ supplied[d].mac # None}
  BY DEF PlanTypeOK, Passes
<1>2. DOMAIN out' = {d \in Device : d <= i /\ supplied[d].mac # None}
  BY <1>1
<1>3. CASE i < Len(request)
  <2>1. stage' = "finish" /\ i' = i + 1 /\ i' \in Device'
    BY <1>1, <1>3 DEF Advance
  <2>2. DOMAIN out' = {d \in Device' : d < i' /\ supplied'[d].mac # None}
    BY <1>1, <1>2, <2>1
  <2> QED BY <1>1, <2>1, <2>2 DEF Passes, Stages
<1>4. CASE ~(i < Len(request))
  <2>1. stage' = "generate" /\ i' = 1 /\ i' \in Device'
    BY <1>1, <1>4 DEF Advance
  <2>2. DOMAIN out' = {d \in Device' : d < i' \/ supplied'[d].mac # None}
    BY <1>1, <1>2, <1>4, <2>1
  <2> QED BY <1>1, <2>1, <2>2 DEF Passes, Stages
<1> QED BY <1>3, <1>4

\* The same in pass 3, where device i has its identity now.
LEMMA GenerateAdvance ==
  ASSUME PlanTypeOK, Passes, stage = "generate", Advance("plan"),
         UNCHANGED <<request, supplied>>,
         DOMAIN out' = DOMAIN out \cup {i}
  PROVE  Passes' /\ stage' \in Stages /\ i' \in Nat \ {0} /\ stage' # "planned"
<1> USE DEF Device
<1>1. /\ i \in Device /\ i \in Nat /\ Len(request) \in Nat
      /\ DOMAIN supplied = Device
      /\ DOMAIN out = {d \in Device : d < i \/ supplied[d].mac # None}
  BY DEF PlanTypeOK, Passes
<1>2. DOMAIN out' = {d \in Device : d <= i \/ supplied[d].mac # None}
  BY <1>1
<1>3. CASE i < Len(request)
  <2>1. stage' = "generate" /\ i' = i + 1 /\ i' \in Device'
    BY <1>1, <1>3 DEF Advance
  <2>2. DOMAIN out' = {d \in Device' : d < i' \/ supplied'[d].mac # None}
    BY <1>1, <1>2, <2>1
  <2> QED BY <1>1, <2>1, <2>2 DEF Passes, Stages
<1>4. CASE ~(i < Len(request))
  <2>1. stage' = "plan" /\ i' = 1
    BY <1>1, <1>4 DEF Advance
  <2>2. DOMAIN out' = Device'
    BY <1>1, <1>2, <1>4
  <2> QED BY <1>1, <2>1, <2>2 DEF Passes, Stages
<1> QED BY <1>3, <1>4
\* Pass 2 finishes the devices that came with a MAC.
LEMMA FinishInd == IndInv /\ Finish => IndInv'
<1> SUFFICES ASSUME IndInv, Finish PROVE IndInv'
  OBVIOUS
<1> DEFINE id == supplied[i]
           derived == Claims(Derive(id)) \ Claims(id)
<1>1. stage = "finish" /\ UNCHANGED <<request, mapped>>
  BY DEF Finish
<1>2. /\ i \in Device
      /\ i \in DOMAIN supplied
      /\ i \notin DOMAIN out
      /\ request[i] \in Wanted
      /\ id = Given(request[i])
      /\ ~Unusable(request[i])
  BY <1>1 DEF IndInv, PlanTypeOK, Passes, Reserved, Device
<1>3. Identity(id) /\ id.model \in Models /\ id.mac \in Local \cup {None}
  BY <1>2, GivenFacts
<1>4. CASE id.mac = None
  <2>1. /\ Advance("generate")
        /\ UNCHANGED <<attempt, reserved, final, supplied, out, units>>
    BY <1>4 DEF Finish
  <2>2. Passes' /\ stage' \in Stages /\ i' \in Nat \ {0} /\ stage' # "planned"
    BY <1>1, <1>4, <2>1, FinishAdvance DEF IndInv
  <2>3. PlanTypeOK'
    BY <1>1, <2>1, <2>2 DEF IndInv, PlanTypeOK, Device
  <2>4. Reserved' /\ Finished' /\ Planned'
    BY <1>1, <2>1, <2>2 DEF IndInv, Reserved, Finished, Own, Planned
  <2> QED BY <2>2, <2>3, <2>4 DEF IndInv
<1>5. CASE id.mac # None /\ derived \cap (reserved \cup final) # {}
  BY <1>1, <1>5, RefuseKeeps DEF Finish
<1>6. CASE id.mac # None /\ derived \cap (reserved \cup final) = {}
  <2>1. /\ out' = Put(out, i, Derive(id))
        /\ final' = final \cup derived
        /\ Advance("generate")
        /\ UNCHANGED <<attempt, reserved, supplied, units>>
    BY <1>6 DEF Finish
  <2>2. id.mac \in Local
    BY <1>3, <1>6
  <2>3. /\ Identity(Derive(id))
        /\ Derive(id).model = id.model
        /\ Derive(id).mac = id.mac
        /\ \A f \in Fields : Derive(id)[f] # None
        /\ Claims(id) \subseteq Claims(Derive(id))
    BY <1>3, <2>2, DeriveFacts
  <2>4. /\ DOMAIN out' = DOMAIN out \cup {i}
        /\ out'[i] = Derive(id)
        /\ \A d \in DOMAIN out : out'[d] = out[d]
    BY <1>2, <2>1 DEF Put
  <2>5. DOMAIN out' = DOMAIN out \cup {d \in Device : d = i /\ supplied[d].mac # None}
    BY <1>2, <1>6, <2>4
  <2>6. Passes' /\ stage' \in Stages /\ i' \in Nat \ {0} /\ stage' # "planned"
    BY <1>1, <2>1, <2>5, FinishAdvance DEF IndInv
  <2>7. PlanTypeOK'
    <3>1. \A d \in DOMAIN out' : Identity(out'[d]) /\ out'[d].mac \in Local
      BY <2>2, <2>3, <2>4 DEF IndInv, PlanTypeOK
    <3> QED BY <1>1, <1>2, <2>1, <2>4, <2>6, <3>1 DEF IndInv, PlanTypeOK, Device
  <2>8. Finished'
    <3>1. Reserved /\ Finished
      BY DEF IndInv
    <3>2. derived \subseteq final' /\ final \subseteq final'
      BY <2>1
    <3> QED BY <1>2, <1>6, <2>1, <2>3, <3>1, <3>2, Join
  <2>9. Reserved' /\ Planned'
    BY <1>1, <2>1, <2>6 DEF IndInv, Reserved, Planned
  <2> QED BY <2>6, <2>7, <2>8, <2>9 DEF IndInv
<1> QED BY <1>4, <1>5, <1>6
\* What pass 3 leaves alone was finished by pass 2.
LEMMA SkipInd == IndInv /\ Skip => IndInv'
<1> SUFFICES ASSUME IndInv, Skip PROVE IndInv'
  OBVIOUS
<1>1. /\ stage = "generate" /\ supplied[i].mac # None /\ Advance("plan")
      /\ UNCHANGED <<attempt, reserved, final, supplied, out, units, request, mapped>>
  BY DEF Skip
<1>2. DOMAIN out' = DOMAIN out \cup {i}
  BY <1>1 DEF IndInv, Passes
<1>3. Passes' /\ stage' \in Stages /\ i' \in Nat \ {0} /\ stage' # "planned"
  BY <1>1, <1>2, GenerateAdvance DEF IndInv
<1>4. PlanTypeOK'
  BY <1>1, <1>3 DEF IndInv, PlanTypeOK, Device
<1>5. Reserved' /\ Finished' /\ Planned'
  BY <1>1, <1>3 DEF IndInv, Reserved, Finished, Own, Planned
<1> QED BY <1>3, <1>4, <1>5 DEF IndInv

\* A draw is thrown away or avoids every claim so far.
LEMMA DrawInd == IndInv /\ Draw => IndInv'
<1> SUFFICES ASSUME IndInv, Draw PROVE IndInv'
  OBVIOUS
<1>1. /\ stage = "generate" /\ supplied[i].mac = None
      /\ attempt < MacRetries
      /\ UNCHANGED <<request, mapped>>
  BY DEF Draw
<1>2. CASE Refuse("invalid_request")
  BY <1>1, <1>2, RefuseKeeps
<1>3. ASSUME NEW mac \in Local,
             LET id == Derive([supplied[i] EXCEPT !.mac = mac])
             IN  IF (Claims(id) \ Claims(supplied[i])) \cap (reserved \cup final) # {}
                 THEN /\ attempt' = attempt + 1
                      /\ UNCHANGED <<stage, code, i, reserved, final, supplied, out, units>>
                 ELSE /\ out' = Put(out, i, id)
                      /\ final' = final \cup Claims(id)
                      /\ attempt' = 0
                      /\ Advance("plan")
                      /\ UNCHANGED <<reserved, supplied, units>>
      PROVE  IndInv'
  <2> DEFINE id == Derive([supplied[i] EXCEPT !.mac = mac])
             clash == (Claims(id) \ Claims(supplied[i])) \cap (reserved \cup final)
  <2>1. CASE clash # {}
    <3>1. /\ attempt' = attempt + 1
          /\ UNCHANGED <<stage, code, i, reserved, final, supplied, out, units>>
      BY <1>3, <2>1
    <3>2. attempt' \in 0 .. MacRetries
      BY <1>1, <3>1, PlanAssumption DEF IndInv, PlanTypeOK
    <3>3. PlanTypeOK'
      BY <1>1, <3>1, <3>2 DEF IndInv, PlanTypeOK, Device
    <3>4. Passes' /\ Reserved' /\ Finished' /\ Planned'
      BY <1>1, <3>1 DEF IndInv, Passes, Reserved, Finished, Own, Planned, Device
    <3> QED BY <3>3, <3>4 DEF IndInv
  <2>2. CASE clash = {}
    <3>1. /\ out' = Put(out, i, id)
          /\ final' = final \cup Claims(id)
          /\ attempt' = 0
          /\ Advance("plan")
          /\ UNCHANGED <<reserved, supplied, units>>
      BY <1>3, <2>2
    <3>2. /\ i \in DOMAIN supplied
          /\ i \in Device
          /\ i \notin DOMAIN out
          /\ request[i] \in Wanted
          /\ supplied[i] = Given(request[i])
          /\ ~Unusable(request[i])
      BY <1>1 DEF IndInv, PlanTypeOK, Passes, Reserved, Device
    <3>3. Identity(supplied[i]) /\ supplied[i].model \in Models
      BY <3>2, GivenFacts
    <3>4. /\ Identity(id)
          /\ id.model = supplied[i].model
          /\ id.mac = mac
          /\ \A f \in Fields : id[f] # None
          /\ Claims(supplied[i]) \subseteq Claims(id)
      BY <1>1, <3>3, DrawFacts
    <3> HIDE DEF id
    <3>5. /\ DOMAIN out' = DOMAIN out \cup {i}
          /\ out'[i] = id
          /\ \A d \in DOMAIN out : out'[d] = out[d]
      BY <3>1, <3>2 DEF Put
    <3>6. Passes' /\ stage' \in Stages /\ i' \in Nat \ {0} /\ stage' # "planned"
      BY <1>1, <3>1, <3>5, GenerateAdvance DEF IndInv
    <3>7. PlanTypeOK'
      <4>1. \A d \in DOMAIN out' : Identity(out'[d]) /\ out'[d].mac \in Local
        BY <3>4, <3>5 DEF IndInv, PlanTypeOK
      <4>2. attempt' \in 0 .. MacRetries
        BY <3>1, PlanAssumption
      <4> QED BY <1>1, <3>1, <3>2, <3>5, <3>6, <4>1, <4>2 DEF IndInv, PlanTypeOK, Device
    <3>8. Finished'
      <4>1. Reserved /\ Finished
        BY DEF IndInv
      <4>2. Claims(id) \ Claims(supplied[i]) \subseteq final' /\ final \subseteq final'
        BY <3>1
      <4> QED BY <2>2, <3>1, <3>2, <3>4, <4>1, <4>2, Join
    <3>9. Reserved' /\ Planned'
      BY <1>1, <3>1, <3>6 DEF IndInv, Reserved, Planned
    <3> QED BY <3>6, <3>7, <3>8, <3>9 DEF IndInv
  <2> QED BY <2>1, <2>2
<1> QED BY <1>2, <1>3 DEF Draw

\* Planning changes no identity.
LEMMA BuildPlanInd == IndInv /\ BuildPlan => IndInv'
<1> SUFFICES ASSUME IndInv, BuildPlan PROVE IndInv'
  OBVIOUS
<1>1. stage = "plan" /\ UNCHANGED <<request, mapped>>
  BY DEF BuildPlan
<1>2. CASE \E c : Refuse(c)
  BY <1>1, <1>2, RefuseKeeps
<1>3. CASE /\ units' = [h \in Heads |-> Unit(h)]
           /\ stage' = "planned"
           /\ UNCHANGED <<i, attempt, reserved, final, supplied, out, code>>
  <2>1. PlanTypeOK'
    BY <1>1, <1>3 DEF IndInv, PlanTypeOK, Stages, Device
  <2>2. Passes' /\ Reserved' /\ Finished'
    BY <1>1, <1>3 DEF IndInv, Passes, Reserved, Finished, Own, Device
  <2>3. Planned'
    BY <1>1, <1>3 DEF Planned, Heads, Unit, Synthetic, Device
  <2> QED BY <2>1, <2>2, <2>3 DEF IndInv
<1> QED BY <1>2, <1>3 DEF BuildPlan

\* The invariant is inductive.
LEMMA StepInd == IndInv /\ [Plan]_planVars => IndInv'
<1> SUFFICES ASSUME IndInv, [Plan]_planVars PROVE IndInv'
  OBVIOUS
<1>1. CASE DecodeRequest \/ ResolveRuntime
  BY <1>1, DecodeInd
<1>2. CASE Supply
  BY <1>2, SupplyInd
<1>3. CASE Finish
  BY <1>3, FinishInd
<1>4. CASE Skip
  BY <1>4, SkipInd
<1>5. CASE Draw
  BY <1>5, DrawInd
<1>6. CASE Exhausted
  BY <1>6, RefuseKeeps DEF Exhausted
<1>7. CASE BuildPlan
  BY <1>7, BuildPlanInd
<1>8. CASE UNCHANGED planVars
  <2>1. PlanTypeOK' /\ Passes'
    BY <1>8 DEF planVars, IndInv, PlanTypeOK, Passes, Device
  <2>2. Reserved' /\ Finished' /\ Planned'
    BY <1>8 DEF planVars, IndInv, Reserved, Finished, Own, Planned, Heads, Unit, Synthetic, Device
  <2> QED BY <2>1, <2>2 DEF IndInv
<1> QED BY <1>1, <1>2, <1>3, <1>4, <1>5, <1>6, <1>7, <1>8 DEF Plan

\* Identities that were finished do not meet.
LEMMA Disjoint ==
  ASSUME IndInv, Allocated, NEW d \in Device, NEW e \in Device, d # e
  PROVE  Claims(out[d]) \cap Claims(out[e]) = {}
<1>1. DOMAIN supplied = Device /\ DOMAIN out = Device
  BY DEF IndInv, Passes, Allocated
<1>2. Claims(supplied[d]) \cap Claims(supplied[e]) = {}
  BY <1>1 DEF IndInv, Reserved
<1>3. Own(d) \cap Own(e) = {}
  BY <1>1 DEF IndInv, Finished
<1>4. Own(d) \cap Claims(supplied[e]) = {} /\ Own(e) \cap Claims(supplied[d]) = {}
  BY <1>1 DEF IndInv, Reserved, Finished
<1> QED BY <1>2, <1>3, <1>4 DEF Own

-----------------------------------------------------------------------------
(* Theorems. *)

\* The planner's variables keep their shape, and every MAC it settles on is
\* locally administered and unicast (identity.go, canonicalMAC, generate).
THEOREM TypeCorrect == PlanSpec => []PlanTypeOK
<1>1. IndInv => PlanTypeOK
  BY DEF IndInv
<1> QED BY <1>1, InitInd, StepInd, PTL DEF PlanSpec

\* What is finished is apart and complete.
LEMMA ApartNow == IndInv => IdentitiesApart
<1> SUFFICES ASSUME IndInv, Allocated PROVE IdentitiesApart
  BY DEF IdentitiesApart
<1>1. DOMAIN out = Device
  BY DEF IndInv, Passes, Allocated
<1>2. \A d \in Device : \A f \in Fields : out[d][f] # None
  BY <1>1 DEF IndInv, Finished
<1> QED BY <1>1, <1>2, Disjoint DEF IdentitiesApart

\* No two devices of an accepted request share a MAC, a serial or a name, and
\* none lacks one (identity.go, Allocate).
THEOREM Apart == PlanSpec => []IdentitiesApart
BY ApartNow, InitInd, StepInd, PTL DEF PlanSpec

\* What was supplied is part of what was finished.
LEMMA KeptNow == IndInv => SuppliedKept
<1> SUFFICES ASSUME IndInv, Allocated, NEW d \in Device
             PROVE  /\ out[d].model = request[d].model
                    /\ Claims(Given(request[d])) \subseteq Claims(out[d])
  BY DEF SuppliedKept
<1>1. d \in DOMAIN supplied /\ d \in DOMAIN out
  BY DEF IndInv, Passes, Allocated
<1>2. supplied[d] = Given(request[d])
  BY <1>1 DEF IndInv, Reserved
<1> QED BY <1>1, <1>2 DEF IndInv, Finished, Given

\* Nothing a caller supplied is replaced (identity.go, Allocate).
THEOREM Kept == PlanSpec => []SuppliedKept
BY KeptNow, InitInd, StepInd, PTL DEF PlanSpec

\* Of any devices there is a first.
LEMMA FirstOf ==
  ASSUME NEW S \in SUBSET Nat, S # {}
  PROVE  \E x \in S : \A y \in S : x <= y
<1>1. IsWellFoundedOn(OpToRel(<, Nat), Nat)
  BY NatLessThanWellFounded
<1>2. PICK x \in S : \A y \in S : <<y, x>> \notin OpToRel(<, Nat)
  BY <1>1, WFMin
<1>3. ASSUME NEW y \in S PROVE x <= y
  <2>1. ~(y < x)
    BY <1>2 DEF OpToRel
  <2> QED BY <2>1
<1> QED BY <1>2, <1>3

\* The synthetic devices share the unit of the first, the others have their own.
LEMMA OnceNow == IndInv => PlannedOnce
<1> SUFFICES ASSUME IndInv, stage = "planned" PROVE PlannedOnce
  BY DEF PlannedOnce
<1>1. units = [h \in Heads |-> Unit(h)] /\ DOMAIN units = Heads
  BY DEF IndInv, Planned
<1>2. Device \subseteq Nat /\ Synthetic \subseteq Device /\ Heads \subseteq Device
  BY DEF IndInv, PlanTypeOK, Device, Synthetic, Heads
<1>3. ASSUME NEW g \in Heads, NEW h \in Heads, g \in Synthetic, h \in Synthetic
      PROVE  g = h
  <2>1. g <= h /\ h <= g
    BY <1>3 DEF Heads
  <2> QED BY <2>1, <1>2
<1>4. ASSUME NEW d \in Device
      PROVE  \E h \in Heads : /\ d \in units[h].devices
                             /\ \A g \in Heads : d \in units[g].devices => g = h
  <2>1. CASE d \in Synthetic
    <3>1. PICK h \in Synthetic : \A e \in Synthetic : h <= e
      BY <2>1, <1>2, FirstOf
    <3>2. h \in Heads /\ d \in units[h].devices
      BY <3>1, <2>1, <1>1, <1>2 DEF Heads, Unit
    <3>3. ASSUME NEW g \in Heads, d \in units[g].devices PROVE g \in Synthetic
      BY <3>3, <2>1, <1>1 DEF Unit
    <3> QED BY <3>1, <3>2, <3>3, <1>3
  <2>2. CASE d \notin Synthetic
    <3>1. d \in Heads /\ d \in units[d].devices
      BY <2>2, <1>1 DEF Heads, Unit
    <3>2. ASSUME NEW g \in Heads, d \in units[g].devices PROVE g = d
      BY <3>2, <2>2, <1>1 DEF Unit
    <3> QED BY <3>1, <3>2
  <2> QED BY <2>1, <2>2
<1>5. ASSUME NEW g \in Heads, NEW h \in Heads, g # h
      PROVE  /\ "opaque" \in {units[g].kind, units[h].kind}
             /\ EndpointMAC(units[g]) # EndpointMAC(units[h])
  <2>1. \A j \in Heads \ Synthetic : /\ units[j].kind = "opaque"
                                     /\ EndpointMAC(units[j]) = out[j].mac
    BY <1>1 DEF Unit, EndpointMAC
  <2>2. \A j \in Heads \cap Synthetic : EndpointMAC(units[j]) = None
    BY <1>1 DEF Unit, EndpointMAC
  <2>3. g \notin Synthetic \/ h \notin Synthetic
    BY <1>3, <1>5
  <2>4. out[g].mac # None /\ out[h].mac # None
    BY <1>2 DEF IndInv, Finished, Passes, Fields
  <2>5. out[g].mac # out[h].mac
    <3>1. Claims(out[g]) \cap Claims(out[h]) = {}
      BY <1>2, <1>5, Disjoint DEF Allocated
    <3> QED BY <3>1, <2>4 DEF Claims, Fields
  <2> QED BY <2>1, <2>2, <2>3, <2>4, <2>5
<1> QED BY <1>1, <1>4, <1>5 DEF PlannedOnce

\* Every device is in one container, there is at most one synthetic container,
\* and no two endpoints have one MAC (plan.go, BuildPlan).
THEOREM Once == PlanSpec => []PlannedOnce
BY OnceNow, InitInd, StepInd, PTL DEF PlanSpec
=============================================================================
