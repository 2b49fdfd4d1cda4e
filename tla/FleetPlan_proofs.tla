--------------------------- MODULE FleetPlan_proofs ---------------------------
(***************************************************************************)
(* Proofs about both ways to a fleet, for any lists, any request and any   *)
(* address space: which source decides, which addresses its devices have,  *)
(* and that the synthetic container runs what the herder planned.          *)
(***************************************************************************)
EXTENDS FleetPlan, HerderPlan_proofs, FiniteSetTheorems

-----------------------------------------------------------------------------
(* Lemmas about operators.                                                 *)

\* Two counts less than a whole turn apart do not meet in a counter.
LEMMA NoWrap ==
  ASSUME NEW M \in Nat \ {0}, NEW a \in Nat, NEW b \in Nat, a < b, b - a < M
  PROVE  a % M # b % M
<1> SUFFICES ASSUME a % M = b % M PROVE FALSE
  OBVIOUS
<1>1. a = M * (a \div M) + (a % M) /\ a \div M \in Int
  OBVIOUS
<1>2. b = M * (b \div M) + (b % M) /\ b \div M \in Int
  OBVIOUS
<1> DEFINE q == (b \div M) - (a \div M)
<1>3. q \in Int /\ b - a = M * q
  BY <1>1, <1>2
<1> HIDE DEF q
<1>4. CASE q <= 0
  <2>1. M * q <= 0
    BY <1>3, <1>4
  <2>. QED BY <1>3, <2>1
<1>5. CASE q >= 1
  <2>1. M * q >= M
    BY <1>3, <1>5
  <2>. QED BY <1>3, <2>1
<1>. QED BY <1>3, <1>4, <1>5

\* The automatic addresses of a fleet that fits the address space are apart.
LEMMA AutomaticApart ==
  ASSUME NEW n \in Nat, n <= MacSpace, NEW d \in 1 .. n, NEW e \in 1 .. n, d # e
  PROVE  nextMAC(d) # nextMAC(e)
<1>1. MacSpace \in Nat \ {0} /\ MacBase \in Nat
  BY FleetAssumption
<1>2. ASSUME NEW x \in 1 .. n, NEW y \in 1 .. n, x < y PROVE nextMAC(x) # nextMAC(y)
  <2>1. /\ MacBase + x \in Nat /\ MacBase + y \in Nat /\ MacBase + x < MacBase + y
        /\ (MacBase + y) - (MacBase + x) < MacSpace
    BY <1>1, <1>2
  <2>. QED BY <1>1, <2>1, NoWrap DEF nextMAC
<1>. QED BY <1>2

\* An automatic address is one, and stands for itself.
LEMMA AutomaticIsAddress ==
  ASSUME NEW n \in Nat
  PROVE  nextMAC(n) \in Addresses /\ Canonical[nextMAC(n)] = nextMAC(n) /\ nextMAC(n) # None
<1>1. MacSpace \in Nat \ {0} /\ MacBase + n \in Nat
  BY FleetAssumption
<1>2. nextMAC(n) \in 0 .. MacSpace - 1
  BY <1>1, SMTT(30) DEF nextMAC
<1>. QED BY <1>2, FleetAssumption, DevicesAssumption

\* A set of at most one element has no two.
LEMMA AtMostOne ==
  ASSUME NEW S, IsFiniteSet(S), Cardinality(S) <= 1, NEW x \in S, NEW y \in S
  PROVE  x = y
<1>1. Cardinality({x}) = 1 /\ IsFiniteSet({x})
  BY FS_Singleton
<1>2. Cardinality({x}) <= Cardinality(S) /\ (Cardinality(S) = Cardinality({x}) => {x} = S)
  BY FS_Subset
<1>3. Cardinality(S) \in Nat
  BY FS_CardinalityType
<1>. QED BY <1>1, <1>2, <1>3

\* A table over 1 .. n has n entries.
LEMMA TableLength ==
  ASSUME NEW n \in Nat, NEW f, f = [e \in 1 .. n |-> f[e]]
  PROVE  Len(f) = n /\ DOMAIN f = 1 .. n
<1>1. f \in [1 .. n -> {f[e] : e \in 1 .. n}]
  OBVIOUS
<1>2. f \in Seq({f[e] : e \in 1 .. n})
  BY <1>1
<1>. QED BY <1>1, <1>2

\* The elements of a set of numbers have ranks, each rank one element.
LEMMA Ranks ==
  ASSUME NEW n \in Nat, NEW S \in SUBSET (1 .. n)
  PROVE  /\ IsFiniteSet(S) /\ Cardinality(S) \in Nat
         /\ \A d, e \in S : Cardinality({x \in S : x < d}) = Cardinality({x \in S : x < e})
                              => d = e
         /\ \A d \in S : Cardinality({x \in S : x < d}) + 1 \in 1 .. Cardinality(S)
         /\ \A m \in 1 .. Cardinality(S) : \E d \in S :
              Cardinality({x \in S : x < d}) = m - 1
<1> DEFINE Below(d) == {x \in S : x < d}
<1>1. IsFiniteSet(S) /\ Cardinality(S) \in Nat
  <2>1. IsFiniteSet(1 .. n)
    BY FS_Interval
  <2>. QED BY <2>1, FS_Subset, FS_CardinalityType
<1>2. ASSUME NEW d \in S
      PROVE  IsFiniteSet(Below(d)) /\ Cardinality(Below(d)) \in Nat
             /\ Cardinality(Below(d)) < Cardinality(S)
  <2>1. Below(d) \in SUBSET S /\ Below(d) # S
    OBVIOUS
  <2> HIDE DEF Below
  <2>2. IsFiniteSet(Below(d)) /\ Cardinality(Below(d)) \in Nat
    BY <1>1, <2>1, FS_Subset, FS_CardinalityType
  <2>3. Cardinality(Below(d)) <= Cardinality(S) /\ Cardinality(Below(d)) # Cardinality(S)
    BY <1>1, <2>1, FS_Subset
  <2>. QED BY <1>1, <2>2, <2>3
<1>3. ASSUME NEW d \in S, NEW e \in S, d < e
      PROVE  Cardinality(Below(d)) < Cardinality(Below(e))
  <2>1. Below(d) \in SUBSET Below(e) /\ Below(d) # Below(e)
    <3>1. d \in Below(e) /\ d \notin Below(d)
      BY <1>3
    <3>2. \A x \in Below(d) : x \in Below(e)
      BY <1>3
    <3>. QED BY <3>1, <3>2
  <2> HIDE DEF Below
  <2>2. Cardinality(Below(d)) <= Cardinality(Below(e))
    BY <1>2, <2>1, FS_Subset
  <2>3. Cardinality(Below(d)) # Cardinality(Below(e))
    BY <1>2, <2>1, FS_Subset
  <2>. QED BY <1>2, <2>2, <2>3
<1>4. \A d, e \in S : Cardinality(Below(d)) = Cardinality(Below(e)) => d = e
  <2> HIDE DEF Below
  <2> SUFFICES ASSUME NEW d \in S, NEW e \in S, d # e
               PROVE  Cardinality(Below(d)) # Cardinality(Below(e))
    OBVIOUS
  <2>1. d \in Int /\ e \in Int
    OBVIOUS
  <2>2. Cardinality(Below(d)) \in Nat /\ Cardinality(Below(e)) \in Nat
    BY <1>2
  <2>. QED BY <1>3, <2>1, <2>2
<1> DEFINE f == [d \in S |-> Cardinality(Below(d)) + 1]
<1> HIDE DEF Below
<1>5. f \in [S -> 1 .. Cardinality(S)]
  BY <1>1, <1>2
<1>6. \A d, e \in S : f[d] = f[e] => d = e
  BY <1>2, <1>4
<1>7. f \in Injection(S, 1 .. Cardinality(S))
  BY <1>5, <1>6 DEF Injection, IsInjective
<1>8. IsFiniteSet(1 .. Cardinality(S)) /\ Cardinality(1 .. Cardinality(S)) = Cardinality(S)
  BY <1>1, FS_Interval
<1>9. f \in Surjection(S, 1 .. Cardinality(S))
  <2> HIDE DEF f
  <2>. QED BY <1>7, <1>8, FS_Injection
<1>10. \A m \in 1 .. Cardinality(S) : \E d \in S : f[d] = m
  BY <1>9 DEF Surjection
<1>11. \A m \in 1 .. Cardinality(S) : \E d \in S : Cardinality(Below(d)) = m - 1
  BY <1>1, <1>2, <1>10
<1>12. \A d \in S : Cardinality(Below(d)) + 1 \in 1 .. Cardinality(S)
  BY <1>1, <1>2
<1>13. \A d : Below(d) = {x \in S : x < d}
  BY DEF Below
<1>. QED BY <1>1, <1>4, <1>11, <1>12, <1>13

-----------------------------------------------------------------------------
(* The inductive invariant.                                                *)

JSON == "UNIFI_EMU_DEVICES_JSON"

\* What run() does once it has a list.
Later == {"address", "expand", "add", "ready"}

\* What every variable of the command may be.
Listing ==
  /\ given \in [Sources -> {"empty", "blank", "set"}]
  /\ flags \in BOOLEAN
  /\ cli \in {"sources", "read", "refused"} \cup Later
  /\ Len(specs) \in Nat
  /\ DOMAIN specs = Entry
  /\ \A e \in Entry : DOMAIN specs[e] = Attributes
  /\ cli # "refused" => reason = None

Sourced == from \in Sources /\ Active = {from}
Unsourced == Active = {} \/ BlankModels

\* What the list is read from is the one source there is, or nothing is set.
Deciding ==
  /\ cli \notin {"sources", "refused"} => ~(FlagSource /\ flags)
  /\ cli = "read" => Sourced \/ (from = "nothing" /\ Unsourced)
  /\ cli \in Later =>
       \/ Sourced
       \/ from \in {"default", "single"} /\ Unsourced /\ (from = "default" => ~flags)

\* A list of models carries no address until expandFleet gives it all of them.
Automatic ==
  FromModels =>
    /\ cli \in {"address", "expand"} => \A e \in Entry :
         specs[e].mac = None /\ specs[e].ip = None /\ specs[e].type = None
    /\ cli \in {"add", "ready"} => \A e \in Entry :
         /\ specs[e].mac = nextMAC(e)
         /\ specs[e].ip = nextIP(e - 1) /\ specs[e].ip <= LastIp
         /\ specs[e].type = None
         /\ specs[e].model \in Profiles
    /\ Len(specs) <= MacSpace => reason # "add"

\* Add found nothing wrong with what runs.
Checked == cli = "ready" => \A e \in Entry : ~Invalid(e)

\* A plan the herder accepted has no model unifi-emu does not know.
Runnable == stage = "planned" => \A d \in Device : out[d].model \in Profiles

\* The list is the synthetic devices, with this IP each.
Entries(ip) ==
  /\ Len(specs) = Cardinality(Synthetic)
  /\ \A e \in Entry :
       /\ specs[e].model = out[Nth(e)].model
       /\ specs[e].mac = out[Nth(e)].mac
       /\ specs[e].type = None
       /\ specs[e].ip = ip

\* More gateways than a site adopts are to run in one container.
TwoGateways ==
  \E d, e \in Synthetic : d # e /\ {out[d].model, out[e].model} \subseteq Gateways

\* The container has one source, and its list is the plan's synthetic devices.
Handed ==
  origin = "herder" =>
    /\ given = [s \in Sources |-> IF s = JSON THEN "set" ELSE "empty"]
    /\ ~flags
    /\ cli # "sources" => stage = "planned"
    /\ cli = "read" => from = JSON
    /\ cli = "address" => Entries(None)
    /\ cli \in {"expand", "add", "ready"} => Entries("container")
    /\ cli = "ready" => fleet = {out[d].mac : d \in Synthetic}
    /\ cli = "refused" => reason = "address" \/ (reason = "gateways" /\ TwoGateways)

SpecsInv == Listing /\ Deciding /\ Automatic /\ Checked

FleetInv == IndInv /\ Runnable /\ SpecsInv /\ Handed

-----------------------------------------------------------------------------
(* The command's steps keep SpecsInv.                                      *)

ListOK(list) ==
  /\ Len(list) \in Nat
  /\ DOMAIN list = 1 .. Len(list)
  /\ \A e \in 1 .. Len(list) : DOMAIN list[e] = Attributes

\* The lists a source may hold are lists.
LEMMA ListsOK == ASSUME NEW list \in Lists PROVE ListOK(list)
<1>1. list \in Seq({list[e] : e \in DOMAIN list})
  BY FleetAssumption
<1>2. Len(list) \in Nat /\ DOMAIN list = 1 .. Len(list)
  BY <1>1
<1>3. \A e \in DOMAIN list : DOMAIN list[e] = Attributes
  BY FleetAssumption
<1>. QED BY <1>2, <1>3 DEF ListOK

\* There are five sources at most.
LEMMA ActiveFinite ==
  Active \subseteq Sources /\ IsFiniteSet(Active) /\ Cardinality(Active) \in Nat
<1>1. IsFiniteSet({}) /\ \A S, x : IsFiniteSet(S) => IsFiniteSet(S \cup {x})
  BY FS_EmptySet, FS_AddElement
<1>2. Sources = {} \cup {"-devices"} \cup {"SIM_DEVICES"} \cup {"UNIFI_EMU_DEVICES_JSON"}
                   \cup {"-models"} \cup {"SIM_MODELS"}
  BY DEF Sources
<1>3. IsFiniteSet(Sources)
  BY <1>1, <1>2
<1>4. Active \subseteq Sources
  BY DEF Active
<1>. QED BY <1>3, <1>4, FS_Subset, FS_CardinalityType

\* Of one source that is set, it is the one fleetSpecs reads, unless a -models
\* of white space hides it.
LEMMA ChosenIsActive ==
  ASSUME Listing, ~(Cardinality(Active) > 1), Active # {}
  PROVE  \/ Chosen \in Sources /\ Active = {Chosen}
         \/ BlankModels /\ Chosen = "nothing"
<1>1. PICK s \in Active : TRUE
  OBVIOUS
<1>2. \A t \in Active : t = s
  BY ActiveFinite, AtMostOne
<1>3. s \in Sources /\ \A t \in Sources : given[t] = "set" <=> t = s
  BY <1>1, <1>2 DEF Active
<1>4. Active = {s}
  BY <1>1, <1>2
<1>5. CASE s = "-models"
  <2>1. Chosen = s
    BY <1>3, <1>5 DEF Chosen, modelsText, Sources
  <2>. QED BY <1>3, <1>4, <2>1
<1>6. CASE s = "SIM_MODELS"
  <2>1. Chosen = s \/ (given["-models"] # "empty" /\ Chosen = "nothing")
    BY <1>3, <1>6 DEF Chosen, modelsText, Sources
  <2>2. given["-models"] \in {"empty", "blank", "set"} /\ given["-models"] # "set"
    BY <1>3, <1>6 DEF Listing, Sources
  <2>3. given["SIM_MODELS"] = "set"
    BY <1>3, <1>6
  <2>. QED BY <1>3, <1>4, <2>1, <2>2, <2>3 DEF BlankModels
<1>7. CASE s \in {"-devices", "SIM_DEVICES", "UNIFI_EMU_DEVICES_JSON"}
  <2>1. modelsText \in Sources /\ modelsText # s
    BY <1>7 DEF modelsText, Sources
  <2>2. Chosen = s
    BY <1>3, <1>7, <2>1 DEF Chosen, Sources
  <2>. QED BY <1>3, <1>4, <2>2
<1>. QED BY <1>3, <1>5, <1>6, <1>7 DEF Sources

\* Giving up, for any reason but Add's, leaves nothing to go wrong.
LEMMA GiveUpInd ==
  ASSUME SpecsInv, NEW why, GiveUp(why), why # "add", UNCHANGED <<given, flags>>
  PROVE  SpecsInv'
<1>1. cli' = "refused" /\ reason' = why /\ UNCHANGED <<from, specs>>
  BY DEF GiveUp
<1>2. Listing'
  BY <1>1 DEF SpecsInv, Listing, Entry
<1>3. Deciding' /\ Checked' /\ Automatic'
  BY <1>1 DEF Deciding, Checked, Automatic, Later
<1>. QED BY <1>2, <1>3 DEF SpecsInv

\* The switch at the end of fleetSpecs.
LEMMA fleetSpecsInd == SpecsInv /\ fleetSpecs => SpecsInv'
<1> SUFFICES ASSUME SpecsInv, fleetSpecs PROVE SpecsInv'
  OBVIOUS
<1>1. cli = "sources" /\ UNCHANGED <<given, flags, baked>>
  BY DEF fleetSpecs
<1>2. CASE GiveUp("ambiguous") \/ GiveUp("combined")
  BY <1>1, <1>2, GiveUpInd
<1>3. CASE /\ ~(Cardinality(Active) > 1) /\ ~(FlagSource /\ flags)
           /\ from' = IF Active = {} THEN "nothing" ELSE Chosen
           /\ cli' = "read"
           /\ UNCHANGED <<specs, fleet, reason>>
  <2>1. Listing'
    BY <1>1, <1>3 DEF SpecsInv, Listing, Entry
  <2>2. Active' = Active /\ (FlagSource' <=> FlagSource) /\ (BlankModels' <=> BlankModels)
    BY <1>1 DEF Active, FlagSource, BlankModels
  <2>3. ~(FlagSource' /\ flags')
    BY <1>1, <1>3, <2>2
  <2>4. Sourced' \/ (from' = "nothing" /\ Unsourced')
    <3>1. CASE Active = {}
      BY <1>3, <2>2, <3>1 DEF Unsourced
    <3>2. CASE Active # {}
      BY <1>3, <2>2, <3>2, ChosenIsActive DEF SpecsInv, Sourced, Unsourced
    <3>. QED BY <3>1, <3>2
  <2>5. Deciding'
    BY <1>3, <2>3, <2>4 DEF Deciding, Later
  <2>6. Automatic' /\ Checked'
    BY <1>1, <1>3, FleetAssumption DEF SpecsInv, Listing, Automatic, Checked, Reasons
  <2>. QED BY <2>1, <2>5, <2>6 DEF SpecsInv
<1>. QED BY <1>2, <1>3 DEF fleetSpecs

\* What is carried of an entry.
LEMMA CarriedFacts ==
  ASSUME NEW s, DOMAIN s = Attributes, NEW source
  PROVE  /\ DOMAIN Carried(s, source) = Attributes
         /\ source \in {"-models", "SIM_MODELS"} =>
              /\ Carried(s, source).mac = None
              /\ Carried(s, source).ip = None
              /\ Carried(s, source).type = None
         /\ source = JSON =>
              /\ Carried(s, source).model = s.model
              /\ Carried(s, source).mac = s.mac
              /\ Carried(s, source).ip = None
              /\ Carried(s, source).type = None
<1>1. CASE source \in {"-models", "SIM_MODELS"}
  <2>1. Carried(s, source) = [model |-> s.model, mac |-> None, ip |-> None, type |-> None]
    BY <1>1 DEF Carried
  <2>. QED BY <1>1, <2>1 DEF Attributes, JSON
<1>2. CASE source = JSON
  <2>1. Carried(s, source) = [s EXCEPT !.ip = None, !.type = None]
    BY <1>2 DEF Carried, JSON
  <2>. QED BY <1>2, <2>1 DEF Attributes, JSON
<1>3. CASE source \notin {"-models", "SIM_MODELS", JSON}
  <2>1. Carried(s, source) = s
    BY <1>3 DEF Carried, JSON
  <2>. QED BY <1>3, <2>1
<1>. QED BY <1>1, <1>2, <1>3

\* A list that is read, from the source there is or from the image.
LEMMA ReadInd ==
  ASSUME SpecsInv, cli = "read", UNCHANGED <<given, flags>>,
         NEW list, ListOK(list), NEW source, ReadList(list, source),
         \/ source = from /\ from # "nothing"
         \/ source = "default" /\ from = "nothing" /\ ~flags
  PROVE  SpecsInv'
<1>1. CASE GiveUp("unreadable")
  BY <1>1, GiveUpInd
<1>2. CASE /\ specs' = [e \in 1 .. Len(list) |-> Carried(list[e], source)]
           /\ from' = source
           /\ cli' = "address"
           /\ UNCHANGED <<fleet, reason>>
  <2>1. Len(specs') = Len(list) /\ DOMAIN specs' = 1 .. Len(list) /\ Len(list) \in Nat
    <3>1. Len(list) \in Nat
      BY DEF ListOK
    <3>2. \A e \in 1 .. Len(list) : specs'[e] = Carried(list[e], source)
      BY <1>2
    <3>3. specs' = [e \in 1 .. Len(list) |-> specs'[e]]
      BY <1>2, <3>2
    <3>. QED BY <3>1, <3>3, TableLength
  <2>2. Entry' = 1 .. Len(list)
    BY <2>1 DEF Entry
  <2>3. \A e \in Entry' : /\ specs'[e] = Carried(list[e], source)
                          /\ DOMAIN list[e] = Attributes
    BY <1>2, <2>2 DEF ListOK
  <2>4. \A e \in Entry' : DOMAIN specs'[e] = Attributes
    BY <2>3, CarriedFacts
  <2>5. Listing'
    BY <1>2, <2>1, <2>2, <2>4 DEF SpecsInv, Listing, Later
  <2>6. Active' = Active /\ (FlagSource' <=> FlagSource) /\ (BlankModels' <=> BlankModels)
    BY DEF Active, FlagSource, BlankModels
  <2>7. ~(FlagSource' /\ flags')
    BY <2>6 DEF SpecsInv, Deciding
  <2>8. Sourced' \/ (from' \in {"default", "single"} /\ Unsourced' /\ (from' = "default" => ~flags'))
    BY <1>2, <2>6 DEF SpecsInv, Deciding, Sourced, Unsourced, Sources
  <2>9. Deciding'
    BY <1>2, <2>7, <2>8 DEF Deciding, Later
  <2>10. Automatic'
    <3>1. \A e \in Entry' : source \in {"-models", "SIM_MODELS"} =>
            specs'[e].mac = None /\ specs'[e].ip = None /\ specs'[e].type = None
      BY <2>3, CarriedFacts
    <3>2. reason' = None /\ None # "add"
      BY <1>2, FleetAssumption DEF SpecsInv, Listing, Reasons
    <3>. QED BY <1>2, <3>1, <3>2 DEF Automatic, FromModels
  <2>11. Checked'
    BY <1>2 DEF Checked
  <2>. QED BY <2>5, <2>9, <2>10, <2>11 DEF SpecsInv
<1>. QED BY <1>1, <1>2 DEF ReadList

\* Every way a list is read.
LEMMA readSourceInd ==
  ASSUME SpecsInv, NEW list, ListOK(list), readSource(list) PROVE SpecsInv'
<1>1. cli = "read" /\ from # "nothing" /\ ReadList(list, from) /\ UNCHANGED <<given, flags>>
  BY DEF readSource
<1>. QED BY <1>1, ReadInd

\* The devices of the flags are listed as they are.
LEMMA defaultFleetInd ==
  ASSUME SpecsInv, NEW list, ListOK(list), defaultFleet(list) PROVE SpecsInv'
<1>1. cli = "read" /\ from = "nothing" /\ UNCHANGED <<given, flags, baked>>
  BY DEF defaultFleet
<1>2. CASE baked /\ ~flags
  <2>1. ReadList(list, "default")
    BY <1>2 DEF defaultFleet
  <2>. QED BY <1>1, <1>2, <2>1, ReadInd
<1>3. CASE ~(baked /\ ~flags)
  <2>1. specs' = <<Single>> /\ from' = "single" /\ cli' = "add" /\ UNCHANGED <<fleet, reason>>
    BY <1>3 DEF defaultFleet
  <2>2. Len(specs') = 1 /\ DOMAIN specs' = 1 .. 1 /\ Entry' = 1 .. 1 /\ specs'[1] = Single
    BY <2>1 DEF Entry
  <2>3. DOMAIN Single = Attributes
    BY FleetAssumption
  <2>4. Listing'
    BY <1>1, <2>1, <2>2, <2>3 DEF SpecsInv, Listing, Later
  <2>5. Active' = Active /\ (FlagSource' <=> FlagSource) /\ (BlankModels' <=> BlankModels)
    BY <1>1 DEF Active, FlagSource, BlankModels
  <2>6. ~(FlagSource' /\ flags')
    BY <1>1, <2>5 DEF SpecsInv, Deciding
  <2>7. Unsourced'
    BY <1>1, <2>5 DEF SpecsInv, Deciding, Sourced, Unsourced, Sources
  <2>8. Deciding'
    BY <2>1, <2>6, <2>7 DEF Deciding, Later
  <2>9. Automatic' /\ Checked'
    BY <2>1 DEF Automatic, FromModels, Checked
  <2>. QED BY <2>4, <2>8, <2>9 DEF SpecsInv
<1>. QED BY <1>2, <1>3

\* Whichever source decides, the entries are not touched between here and Add
\* but in their addresses.
LEMMA DecidingKept ==
  ASSUME SpecsInv, cli \in Later, cli' \in Later, UNCHANGED <<from, given, flags>>
  PROVE  Deciding'
<1>1. Active' = Active /\ (FlagSource' <=> FlagSource) /\ (BlankModels' <=> BlankModels)
  BY DEF Active, FlagSource, BlankModels
<1>2. ~(FlagSource /\ flags)
  BY DEF SpecsInv, Deciding, Later
<1>3. \/ Sourced
      \/ from \in {"default", "single"} /\ Unsourced /\ (from = "default" => ~flags)
  BY DEF SpecsInv, Deciding
<1>4. (Sourced' <=> Sourced) /\ (Unsourced' <=> Unsourced)
  BY <1>1 DEF Sourced, Unsourced
<1>. QED BY <1>1, <1>2, <1>3, <1>4 DEF Deciding, Later

\* The container's own address is for the devices of its own source.
LEMMA containerIPv4Ind == SpecsInv /\ containerIPv4 => SpecsInv'
<1> SUFFICES ASSUME SpecsInv, containerIPv4 PROVE SpecsInv'
  OBVIOUS
<1>1. cli = "address" /\ UNCHANGED <<given, flags, baked>>
  BY DEF containerIPv4
<1>2. CASE GiveUp("address")
  BY <1>1, <1>2, GiveUpInd
<1>3. CASE /\ given["UNIFI_EMU_DEVICES_JSON"] = "set"
           /\ specs' = [e \in Entry |-> [specs[e] EXCEPT !.ip = "container"]]
           /\ cli' = "expand"
           /\ UNCHANGED <<from, fleet, reason>>
  <2>1. Len(specs') = Len(specs) /\ DOMAIN specs' = Entry /\ Len(specs) \in Nat
    <3>1. Len(specs) \in Nat
      BY DEF SpecsInv, Listing
    <3>2. specs' = [e \in 1 .. Len(specs) |-> specs'[e]]
      BY <1>3 DEF Entry
    <3>. QED BY <3>1, <3>2, TableLength DEF Entry
  <2>2. Entry' = Entry /\ \A e \in Entry : DOMAIN specs'[e] = Attributes
    BY <1>3, <2>1 DEF SpecsInv, Listing, Entry
  <2>3. Listing'
    BY <1>1, <1>3, <2>1, <2>2 DEF SpecsInv, Listing, Later
  <2>4. Deciding'
    BY <1>1, <1>3, DecidingKept DEF Later
  <2>5. JSON \in Active
    BY <1>3 DEF Active, Sources, JSON
  <2>6. ~FromModels
    BY <1>1, <2>5 DEF SpecsInv, Deciding, Later, Sourced, Unsourced, FromModels, JSON, Sources
  <2>7. Automatic' /\ Checked'
    BY <1>3, <2>6 DEF Automatic, FromModels, Checked
  <2>. QED BY <2>3, <2>4, <2>7 DEF SpecsInv
<1>4. CASE cli' = "expand" /\ UNCHANGED <<from, specs, fleet, reason>>
  <2>1. Listing'
    BY <1>1, <1>4 DEF SpecsInv, Listing, Later, Entry
  <2>2. Deciding'
    BY <1>1, <1>4, DecidingKept DEF Later
  <2>3. Automatic' /\ Checked'
    BY <1>1, <1>4 DEF SpecsInv, Automatic, FromModels, Checked, Entry
  <2>. QED BY <2>1, <2>2, <2>3 DEF SpecsInv
<1>. QED BY <1>2, <1>3, <1>4 DEF containerIPv4

\* The first entry in trouble is one in trouble.
LEMMA FirstInTrouble ==
  ASSUME Listing, NEW S \in SUBSET Entry, S # {}
  PROVE  Min(S) \in S
<1>1. S \in SUBSET Nat
  BY DEF Listing, Entry
<1>2. \E x \in S : \A y \in S : x <= y
  BY <1>1, FirstOf
<1>. QED BY <1>2 DEF Min

\* expandFleet gives an address to those that have none.
LEMMA expandFleetInd == SpecsInv /\ expandFleet => SpecsInv'
<1> SUFFICES ASSUME SpecsInv, expandFleet PROVE SpecsInv'
  OBVIOUS
<1> DEFINE troubled == {e \in Entry : Trouble(e) # None}
<1>1. cli = "expand" /\ UNCHANGED <<given, flags, baked>>
  BY DEF expandFleet
<1>2. CASE troubled # {}
  <2>1. GiveUp(Trouble(Min(troubled)))
    BY <1>2 DEF expandFleet
  <2>2. \A e : Trouble(e) \in {"unknown model", "gateways", "addresses", None}
    BY DEF Trouble
  <2>3. Min(troubled) \in troubled
    BY <1>2, FirstInTrouble DEF SpecsInv
  <2>4. Trouble(Min(troubled)) # "add"
    BY <2>2, <2>3
  <2>. QED BY <1>1, <2>1, <2>4, GiveUpInd
<1>3. CASE troubled = {}
  <2>1. /\ specs' = [e \in Entry |->
                   [specs[e] EXCEPT !.mac = IF @ = None THEN nextMAC(e) ELSE @,
                                    !.ip = IF @ = None THEN nextIP(e - 1) ELSE @]]
        /\ cli' = "add"
        /\ UNCHANGED <<from, fleet, reason>>
    BY <1>3 DEF expandFleet
  <2>2. Len(specs') = Len(specs) /\ DOMAIN specs' = Entry /\ Len(specs) \in Nat
    <3>1. Len(specs) \in Nat
      BY DEF SpecsInv, Listing
    <3>2. specs' = [e \in 1 .. Len(specs) |-> specs'[e]]
      BY <2>1 DEF Entry
    <3>. QED BY <3>1, <3>2, TableLength DEF Entry
  <2>3. Entry' = Entry
    BY <2>2 DEF Entry
  <2>4. ASSUME NEW e \in Entry
        PROVE  /\ DOMAIN specs'[e] = Attributes
               /\ specs'[e].model = specs[e].model /\ specs'[e].type = specs[e].type
               /\ specs'[e].mac = IF specs[e].mac = None THEN nextMAC(e) ELSE specs[e].mac
               /\ specs'[e].ip = IF specs[e].ip = None THEN nextIP(e - 1) ELSE specs[e].ip
    BY <2>1 DEF SpecsInv, Listing, Attributes
  <2>5. Listing'
    BY <1>1, <2>1, <2>2, <2>3, <2>4 DEF SpecsInv, Listing, Later
  <2>6. Deciding'
    BY <1>1, <2>1, DecidingKept DEF Later
  <2>7. Automatic'
    <3>1. ASSUME FromModels, NEW e \in Entry
          PROVE  /\ specs'[e].mac = nextMAC(e)
                 /\ specs'[e].ip = nextIP(e - 1) /\ specs'[e].ip <= LastIp
                 /\ specs'[e].type = None
                 /\ specs'[e].model \in Profiles
      <4>1. specs[e].mac = None /\ specs[e].ip = None /\ specs[e].type = None
        BY <1>1, <3>1 DEF SpecsInv, Automatic
      <4>2. Trouble(e) = None
        BY <1>3
      <4>3. None \notin {"unknown model", "gateways", "addresses"}
        BY FleetAssumption DEF Reasons
      <4>4. specs[e].model \in Profiles /\ ~(nextIP(e - 1) > LastIp)
        BY <4>1, <4>2, <4>3 DEF Trouble
      <4>5. nextIP(e - 1) \in Nat /\ LastIp \in Nat
        BY FleetAssumption DEF nextIP, Entry, SpecsInv, Listing
      <4>. QED BY <2>4, <4>1, <4>4, <4>5
    <3>2. reason' = None /\ None # "add"
      BY <1>1, <2>1, FleetAssumption DEF SpecsInv, Listing, Reasons
    <3>. QED BY <2>1, <2>3, <3>1, <3>2 DEF Automatic, FromModels, nextMAC, nextIP
  <2>8. Checked'
    BY <2>1 DEF Checked
  <2>. QED BY <2>5, <2>6, <2>7, <2>8 DEF SpecsInv
<1>. QED BY <1>2, <1>3

\* Of a list of models that fits the address space, Add refuses nothing.
LEMMA ModelsAdded ==
  ASSUME SpecsInv, cli = "add", FromModels, Len(specs) <= MacSpace, NEW e \in Entry
  PROVE  ~Invalid(e)
<1>1. Len(specs) \in Nat /\ Entry = 1 .. Len(specs)
  BY DEF SpecsInv, Listing, Entry
<1>2. \A d \in Entry : specs[d].mac = nextMAC(d) /\ specs[d].type = None
                       /\ specs[d].model \in Profiles
  BY DEF SpecsInv, Automatic
<1>3. \A d \in Entry : Mac(d) = nextMAC(d) /\ Mac(d) # None
  BY <1>1, <1>2, AutomaticIsAddress DEF Mac, normalizeMAC
<1>4. \A d \in 1 .. e - 1 : d \in Entry /\ d # e
  BY <1>1
<1>5. Mac(e) \notin {Mac(d) : d \in 1 .. e - 1}
  BY <1>1, <1>3, <1>4, AutomaticApart
<1>. QED BY <1>2, <1>3, <1>5 DEF Invalid

\* What runs is what Add found nothing wrong with.
LEMMA AddInd == SpecsInv /\ Add => SpecsInv'
<1> SUFFICES ASSUME SpecsInv, Add PROVE SpecsInv'
  OBVIOUS
<1> DEFINE faults == {e \in Entry : Invalid(e)}
<1>1. /\ cli = "add" /\ UNCHANGED <<from, specs, given, flags, baked>>
      /\ IF faults = {} THEN cli' = "ready" /\ UNCHANGED reason
         ELSE cli' = "refused" /\ reason' = "add"
  BY DEF Add
<1>2. Entry' = Entry /\ \A e : Invalid(e)' <=> Invalid(e)
  BY <1>1 DEF Entry, Invalid, Mac, normalizeMAC
<1>3. Listing'
  BY <1>1, <1>2 DEF SpecsInv, Listing, Later
<1>4. Deciding'
  <2>1. CASE cli' = "ready"
    BY <1>1, <2>1, DecidingKept DEF Later
  <2>2. CASE cli' = "refused"
    BY <2>2 DEF Deciding, Later
  <2>. QED BY <1>1, <2>1, <2>2
<1>5. Automatic'
  <2>1. FromModels /\ Len(specs) <= MacSpace => faults = {}
    BY <1>1, ModelsAdded
  <2>2. FromModels' /\ Len(specs') <= MacSpace => reason' # "add"
    BY <1>1, <2>1 DEF SpecsInv, Automatic, FromModels
  <2>. QED BY <1>1, <1>2, <2>2 DEF SpecsInv, Automatic, FromModels
<1>6. Checked'
  BY <1>1, <1>2 DEF Checked
<1>. QED BY <1>3, <1>4, <1>5, <1>6 DEF SpecsInv

\* Everything the command does on its way to a fleet.
LEMMA ConfigureInd == SpecsInv /\ Configure => SpecsInv'
<1>1. SpecsInv /\ malformedList => SpecsInv'
  BY GiveUpInd DEF malformedList
<1>2. ASSUME SpecsInv, NEW list \in Lists, readSource(list) \/ defaultFleet(list)
      PROVE  SpecsInv'
  BY <1>2, ListsOK, readSourceInd, defaultFleetInd
<1>. QED BY <1>1, <1>2, fleetSpecsInd, containerIPv4Ind, expandFleetInd, AddInd DEF Configure

-----------------------------------------------------------------------------
(* The herder's plan and the container that runs it.                       *)

\* What BuildPlan accepts has no unknown model, and no step follows it.
LEMMA RunnableInd == Runnable /\ Plan => stage # "planned" /\ Runnable'
<1> SUFFICES ASSUME Runnable, Plan PROVE stage # "planned" /\ Runnable'
  OBVIOUS
<1>1. \A c : Refuse(c) => stage' # "planned"
  BY DEF Refuse
<1>2. \A to : Advance(to) /\ to # "planned" /\ stage # "planned" => stage' # "planned"
  BY DEF Advance
<1>3. CASE DecodeRequest \/ ResolveRuntime
  <2>1. stage # "planned" /\ stage' # "planned"
    BY <1>1, <1>3 DEF DecodeRequest, ResolveRuntime
  <2>. QED BY <2>1 DEF Runnable
<1>4. CASE Supply \/ Finish \/ Skip \/ Exhausted
  <2>1. stage # "planned" /\ stage' # "planned"
    BY <1>1, <1>2, <1>4 DEF Supply, Finish, Skip, Exhausted
  <2>. QED BY <2>1 DEF Runnable
<1>5. CASE Draw
  <2>1. stage = "generate"
    BY <1>5 DEF Draw
  <2>2. stage' # "planned"
    BY <1>1, <1>2, <1>5, <2>1 DEF Draw
  <2>. QED BY <2>1, <2>2 DEF Runnable
<1>6. CASE BuildPlan
  <2>1. stage = "plan" /\ UNCHANGED <<request, mapped>>
    BY <1>6 DEF BuildPlan
  <2>2. stage' = "refused" \/ ((\A d \in Device : out[d].model \in Profiles) /\ out' = out)
    BY <1>6 DEF BuildPlan, Refuse
  <2>. QED BY <2>1, <2>2 DEF Runnable, Device
<1>. QED BY <1>3, <1>4, <1>5, <1>6 DEF Plan

\* The synthetic devices are numbered, in request order, from 1.
LEMMA NthFacts ==
  ASSUME IndInv
  PROVE  /\ Cardinality(Synthetic) \in Nat
         /\ \A n \in 1 .. Cardinality(Synthetic) : Nth(n) \in Synthetic
         /\ \A m, n \in 1 .. Cardinality(Synthetic) : Nth(m) = Nth(n) => m = n
         /\ \A d \in Synthetic : \E n \in 1 .. Cardinality(Synthetic) : Nth(n) = d
<1> DEFINE N == Cardinality(Synthetic)
           Rank(d) == Cardinality({e \in Synthetic : e < d})
<1>1. Len(request) \in Nat /\ Synthetic \in SUBSET (1 .. Len(request))
  BY DEF IndInv, PlanTypeOK, Synthetic, Device
<1>2. /\ N \in Nat
      /\ \A d, e \in Synthetic : Rank(d) = Rank(e) => d = e
      /\ \A d \in Synthetic : Rank(d) + 1 \in 1 .. N
      /\ \A n \in 1 .. N : \E d \in Synthetic : Rank(d) = n - 1
  BY <1>1, Ranks
<1>3. \A n : Nth(n) = CHOOSE d \in Synthetic : Rank(d) = n - 1
  BY DEF Nth
<1>4. \A d \in Synthetic : Rank(d) \in Nat
  <2>1. IsFiniteSet(Synthetic)
    BY <1>1, Ranks
  <2>2. \A d \in Synthetic : IsFiniteSet({e \in Synthetic : e < d})
    BY <2>1, FS_Subset
  <2>. QED BY <2>2, FS_CardinalityType
<1> HIDE DEF N, Rank
<1>5. \A n \in 1 .. N : Nth(n) \in Synthetic /\ Rank(Nth(n)) = n - 1
  BY <1>2, <1>3
<1>6. ASSUME NEW m \in 1 .. N, NEW n \in 1 .. N, Nth(m) = Nth(n) PROVE m = n
  <2>1. m - 1 = n - 1
    BY <1>5, <1>6
  <2>. QED BY <1>2, <2>1
<1>7. ASSUME NEW d \in Synthetic PROVE \E n \in 1 .. N : Nth(n) = d
  <2>1. Rank(d) + 1 \in 1 .. N
    BY <1>2
  <2>2. Rank(Nth(Rank(d) + 1)) = Rank(d) /\ Nth(Rank(d) + 1) \in Synthetic
    BY <1>4, <1>5, <2>1
  <2>3. Nth(Rank(d) + 1) = d
    BY <1>2, <2>2
  <2>. QED BY <2>1, <2>3
<1>. QED BY <1>2, <1>5, <1>6, <1>7 DEF N

\* The planned devices have models to run and addresses of their own.
LEMMA Published ==
  ASSUME IndInv, Runnable, stage = "planned", NEW d \in Synthetic
  PROVE  /\ out[d].model \in Profiles
         /\ out[d].mac # None /\ Canonical[out[d].mac] = out[d].mac
         /\ \A e \in Synthetic : d # e => out[d].mac # out[e].mac
<1>1. Synthetic \subseteq Device /\ DOMAIN out = Device
  BY DEF Synthetic, IndInv, Passes
<1>2. \A e \in Synthetic : out[e].mac \in Local
  BY <1>1 DEF IndInv, PlanTypeOK
<1>3. \A e \in Synthetic : out[e].mac # None /\ Canonical[out[e].mac] = out[e].mac
  BY <1>2, PlanAssumption, DevicesAssumption
<1>4. \A e \in Synthetic : <<"mac", out[e].mac>> \in Claims(out[e])
  BY <1>3 DEF Claims, Fields
<1>5. ASSUME NEW e \in Synthetic, d # e PROVE out[d].mac # out[e].mac
  <2>1. Claims(out[d]) \cap Claims(out[e]) = {}
    BY <1>1, <1>5, Disjoint DEF Allocated
  <2>. QED BY <1>4, <2>1
<1>. QED BY <1>1, <1>3, <1>5 DEF Runnable

\* What the container is handed is a list of them.
LEMMA PayloadOK ==
  ASSUME IndInv
  PROVE  /\ ListOK(Payload) /\ Len(Payload) = Cardinality(Synthetic)
         /\ \A n \in 1 .. Cardinality(Synthetic) :
              /\ Payload[n].model = out[Nth(n)].model
              /\ Payload[n].mac = out[Nth(n)].mac
<1>1. Cardinality(Synthetic) \in Nat
  BY NthFacts
<1>2. \A n \in 1 .. Cardinality(Synthetic) :
        Payload[n] = [model |-> out[Nth(n)].model, mac |-> out[Nth(n)].mac,
                      ip |-> None, type |-> None]
  BY DEF Payload
<1>3. Payload = [n \in 1 .. Cardinality(Synthetic) |-> Payload[n]]
  BY <1>2 DEF Payload
<1>4. Len(Payload) = Cardinality(Synthetic) /\ DOMAIN Payload = 1 .. Cardinality(Synthetic)
  BY <1>1, <1>3, TableLength
<1>5. \A n \in 1 .. Cardinality(Synthetic) : DOMAIN Payload[n] = Attributes
  <2>1. \A m, a : DOMAIN [model |-> m, mac |-> a, ip |-> None, type |-> None] = Attributes
    BY DEF Attributes
  <2>. QED BY <1>2, <2>1
<1>. QED BY <1>1, <1>2, <1>4, <1>5 DEF ListOK

\* A step of the command changes nothing about the plan.
LEMMA PlanStays ==
  ASSUME UNCHANGED planVars
  PROVE  Synthetic' = Synthetic /\ out' = out /\ stage' = stage /\ \A n : Nth(n)' = Nth(n)
<1>1. request' = request /\ mapped' = mapped /\ out' = out /\ stage' = stage
  BY DEF planVars
<1>2. Synthetic' = Synthetic
  BY <1>1 DEF Synthetic, Device
<1>3. \A n : Nth(n)' = Nth(n)
  BY <1>2 DEF Nth
<1>. QED BY <1>1, <1>2, <1>3

\* The entries stay the plan's devices while nothing but their IP changes.
LEMMA EntriesKept ==
  ASSUME Listing, UNCHANGED planVars, NEW old, Entries(old), NEW new,
         Len(specs') = Len(specs),
         \A e \in Entry : /\ specs'[e].model = specs[e].model
                          /\ specs'[e].mac = specs[e].mac
                          /\ specs'[e].type = specs[e].type
                          /\ specs'[e].ip = new
  PROVE  Entries(new)'
<1>1. Entry' = Entry
  BY DEF Entry
<1>. QED BY <1>1, PlanStays DEF Entries

\* What a step of the container needs to know to keep Handed.
LEMMA HandedKept ==
  ASSUME Handed, origin = "herder", stage = "planned",
         UNCHANGED <<planVars, given, flags, origin>>,
         cli' # "sources",
         cli' = "read" => from' = JSON,
         cli' = "address" => Entries(None)',
         cli' \in {"expand", "add", "ready"} => Entries("container")',
         cli' = "ready" => fleet' = {out[d].mac : d \in Synthetic},
         cli' = "refused" => reason' = "address" \/ (reason' = "gateways" /\ TwoGateways)
  PROVE  Handed'
<1>1. given' = [s \in Sources |-> IF s = JSON THEN "set" ELSE "empty"] /\ ~flags'
  BY DEF Handed
<1>2. stage' = "planned" /\ Synthetic' = Synthetic /\ out' = out
  BY PlanStays
<1>3. TwoGateways' <=> TwoGateways
  BY <1>2 DEF TwoGateways
<1>. QED BY <1>1, <1>2, <1>3 DEF Handed

\* The container finds its one source, and reads nothing else.
LEMMA ContainerReads ==
  ASSUME FleetInv, ContainerStep, fleetSpecs \/ readSource(Payload)
  PROVE  Handed'
<1>1. /\ origin = "herder" /\ stage = "planned" /\ Synthetic # {}
      /\ UNCHANGED <<planVars, origin>>
  BY DEF ContainerStep
<1>2. /\ given = [s \in Sources |-> IF s = JSON THEN "set" ELSE "empty"]
      /\ ~flags
      /\ cli = "read" => from = JSON
  BY <1>1 DEF FleetInv, Handed
<1>3. CASE fleetSpecs
  <2>1. Active = {JSON}
    BY <1>2 DEF Active, Sources, JSON
  <2>2. Cardinality(Active) = 1
    BY <2>1, FS_Singleton
  <2>3. Chosen = JSON
    BY <1>2 DEF Chosen, modelsText, Sources, JSON
  <2>4. ~(Cardinality(Active) > 1) /\ Active # {}
    BY <2>1, <2>2
  <2>5. from' = JSON /\ cli' = "read" /\ UNCHANGED <<given, flags>>
    BY <1>2, <1>3, <2>3, <2>4 DEF fleetSpecs
  <2>. QED BY <1>1, <2>5, HandedKept DEF FleetInv
<1>4. CASE readSource(Payload)
  <2>1. ReadList(Payload, JSON) /\ UNCHANGED <<given, flags>>
    BY <1>2, <1>4 DEF readSource
  <2>2. Cardinality(Synthetic) \in Nat /\ Cardinality(Synthetic) # 0
    <3>1. \E d \in Synthetic : \E n \in 1 .. Cardinality(Synthetic) : Nth(n) = d
      BY <1>1, NthFacts DEF FleetInv
    <3>. QED BY <3>1, NthFacts DEF FleetInv
  <2>3. Payload # <<>>
    BY <2>2, PayloadOK DEF FleetInv
  <2>4. /\ specs' = [e \in 1 .. Len(Payload) |-> Carried(Payload[e], JSON)]
        /\ from' = JSON /\ cli' = "address"
    BY <2>1, <2>3 DEF ReadList
  <2>5. /\ Len(Payload) = Cardinality(Synthetic)
        /\ \A e \in 1 .. Cardinality(Synthetic) : /\ DOMAIN Payload[e] = Attributes
                                                  /\ Payload[e].model = out[Nth(e)].model
                                                  /\ Payload[e].mac = out[Nth(e)].mac
    BY PayloadOK DEF FleetInv, ListOK
  <2> HIDE DEF Payload
  <2>6. \A e \in 1 .. Cardinality(Synthetic) : specs'[e] = Carried(Payload[e], JSON)
    BY <2>4, <2>5
  <2>7. Len(specs') = Cardinality(Synthetic)
    <3>1. specs' = [e \in 1 .. Cardinality(Synthetic) |-> specs'[e]]
      BY <2>4, <2>5, <2>6
    <3>. QED BY <2>2, <3>1, TableLength
  <2>8. \A e \in 1 .. Cardinality(Synthetic) :
          /\ specs'[e].model = out[Nth(e)].model
          /\ specs'[e].mac = out[Nth(e)].mac
          /\ specs'[e].ip = None /\ specs'[e].type = None
    BY <2>5, <2>6, CarriedFacts
  <2>9. Entries(None)'
    <3>1. Entry' = 1 .. Cardinality(Synthetic)
      BY <2>7 DEF Entry
    <3>. QED BY <1>1, <2>7, <2>8, <3>1, PlanStays DEF Entries
  <2>. QED BY <1>1, <2>1, <2>4, <2>9, HandedKept DEF FleetInv
<1>. QED BY <1>3, <1>4

\* Every device of the container reports the container's address.
LEMMA ContainerAddresses ==
  ASSUME FleetInv, ContainerStep, containerIPv4
  PROVE  Handed'
<1>1. /\ origin = "herder" /\ stage = "planned"
      /\ UNCHANGED <<planVars, origin>>
  BY DEF ContainerStep
<1>2. cli = "address" /\ UNCHANGED <<given, flags, baked>>
  BY DEF containerIPv4
<1>3. given["UNIFI_EMU_DEVICES_JSON"] = "set"
  BY <1>1 DEF FleetInv, Handed, Sources, JSON
<1>4. CASE GiveUp("address")
  <2>1. cli' = "refused" /\ reason' = "address"
    BY <1>4 DEF GiveUp
  <2>. QED BY <1>1, <1>2, <2>1, HandedKept DEF FleetInv
<1>5. CASE /\ specs' = [e \in Entry |-> [specs[e] EXCEPT !.ip = "container"]]
           /\ cli' = "expand"
  <2>1. Entries(None)
    BY <1>1, <1>2 DEF FleetInv, Handed
  <2>2. Len(specs') = Len(specs)
    <3>1. specs' = [e \in 1 .. Len(specs) |-> specs'[e]]
      BY <1>5 DEF Entry
    <3>. QED BY <3>1, TableLength DEF FleetInv, SpecsInv, Listing
  <2>3. \A e \in Entry : /\ specs'[e].model = specs[e].model
                         /\ specs'[e].mac = specs[e].mac
                         /\ specs'[e].type = specs[e].type
                         /\ specs'[e].ip = "container"
    BY <1>5 DEF FleetInv, SpecsInv, Listing, Attributes
  <2>4. Entries("container")'
    BY <1>1, <2>1, <2>2, <2>3, EntriesKept DEF FleetInv, SpecsInv
  <2>. QED BY <1>1, <1>2, <1>5, <2>4, HandedKept DEF FleetInv
<1>. QED BY <1>3, <1>4, <1>5 DEF containerIPv4

\* An entry of the container's list has a model and an address.
LEMMA EntryFacts ==
  ASSUME FleetInv, stage = "planned", NEW ip, Entries(ip), NEW e \in Entry
  PROVE  /\ Nth(e) \in Synthetic
         /\ specs[e].model \in Profiles
         /\ specs[e].mac # None /\ Mac(e) = specs[e].mac
         /\ specs[e].type = None
         /\ \A d \in Entry : d # e => specs[d].mac # specs[e].mac
<1>1. Entry = 1 .. Cardinality(Synthetic)
  BY DEF Entry, Entries
<1>2. \A d \in Entry : Nth(d) \in Synthetic /\ specs[d].mac = out[Nth(d)].mac
  BY <1>1, NthFacts DEF FleetInv, Entries
<1>3. \A d \in Entry : d # e => Nth(d) # Nth(e)
  BY <1>1, NthFacts DEF FleetInv
<1>4. /\ out[Nth(e)].model \in Profiles
      /\ out[Nth(e)].mac # None /\ Canonical[out[Nth(e)].mac] = out[Nth(e)].mac
      /\ \A d \in Synthetic : Nth(e) # d => out[Nth(e)].mac # out[d].mac
  BY <1>2, Published DEF FleetInv
<1>5. specs[e].model = out[Nth(e)].model /\ specs[e].type = None
  BY DEF Entries
<1>. QED BY <1>2, <1>3, <1>4, <1>5 DEF Mac, normalizeMAC

\* expandFleet has nothing to add, and nothing against the list but its gateways.
LEMMA ContainerExpands ==
  ASSUME FleetInv, ContainerStep, expandFleet
  PROVE  Handed'
<1> DEFINE troubled == {e \in Entry : Trouble(e) # None}
<1>1. /\ origin = "herder" /\ stage = "planned"
      /\ UNCHANGED <<planVars, origin>>
  BY DEF ContainerStep
<1>2. cli = "expand" /\ UNCHANGED <<given, flags, baked>>
  BY DEF expandFleet
<1>3. Entries("container")
  BY <1>1, <1>2 DEF FleetInv, Handed
<1>4. "container" # None
  BY FleetAssumption
<1>5. CASE troubled # {}
  <2>1. cli' = "refused" /\ reason' = Trouble(Min(troubled))
    BY <1>5 DEF expandFleet, GiveUp
  <2>2. Min(troubled) \in Entry /\ Trouble(Min(troubled)) # None
    BY <1>5, FirstInTrouble DEF FleetInv, SpecsInv
  <2>3. \A e \in Entry : specs[e].model \in Profiles /\ specs[e].ip = "container"
    BY <1>1, <1>3, EntryFacts DEF Entries
  <2>4. ASSUME NEW e \in Entry PROVE Trouble(e) \in {"gateways", None}
    <3>1. specs[e].model \in Profiles /\ specs[e].ip # None
      BY <1>4, <2>3
    <3>. QED BY <3>1 DEF Trouble
  <2>5. reason' = "gateways"
    BY <2>1, <2>2, <2>4
  <2>6. TwoGateways
    <3> DEFINE e == Min(troubled)
    <3>1. "gateways" # None
      BY FleetAssumption DEF Reasons
    <3>2. e \in Entry /\ Trouble(e) = "gateways"
      BY <2>1, <2>2, <2>5
    <3> HIDE DEF e
    <3>3. PICK d \in 1 .. e - 1 : IsGateway(d) /\ IsGateway(e)
      BY <3>1, <3>2 DEF Trouble
    <3>4. d \in Entry /\ d # e
      BY <3>2, <3>3 DEF FleetInv, SpecsInv, Listing, Entry
    <3>5. Nth(d) \in Synthetic /\ Nth(e) \in Synthetic /\ Nth(d) # Nth(e)
      BY <1>3, <3>2, <3>4, NthFacts DEF FleetInv, Entry, Entries
    <3>6. out[Nth(d)].model \in Gateways /\ out[Nth(e)].model \in Gateways
      BY <1>3, <3>2, <3>3, <3>4 DEF IsGateway, Entries
    <3>. QED BY <3>5, <3>6 DEF TwoGateways
  <2>. QED BY <1>1, <1>2, <2>1, <2>5, <2>6, HandedKept DEF FleetInv
<1>6. CASE troubled = {}
  <2>1. /\ specs' = [e \in Entry |->
                   [specs[e] EXCEPT !.mac = IF @ = None THEN nextMAC(e) ELSE @,
                                    !.ip = IF @ = None THEN nextIP(e - 1) ELSE @]]
        /\ cli' = "add"
    BY <1>6 DEF expandFleet
  <2>2. Len(specs') = Len(specs)
    <3>1. specs' = [e \in 1 .. Len(specs) |-> specs'[e]]
      BY <2>1 DEF Entry
    <3>. QED BY <3>1, TableLength DEF FleetInv, SpecsInv, Listing
  <2>3. \A e \in Entry : specs[e].mac # None /\ specs[e].ip = "container"
    BY <1>1, <1>3, EntryFacts DEF Entries
  <2>4. \A e \in Entry : /\ specs'[e].model = specs[e].model
                         /\ specs'[e].mac = specs[e].mac
                         /\ specs'[e].type = specs[e].type
                         /\ specs'[e].ip = "container"
    BY <1>4, <2>1, <2>3 DEF FleetInv, SpecsInv, Listing, Attributes
  <2>5. Entries("container")'
    BY <1>1, <1>3, <2>2, <2>4, EntriesKept DEF FleetInv, SpecsInv
  <2>. QED BY <1>1, <1>2, <2>1, <2>5, HandedKept DEF FleetInv
<1>. QED BY <1>5, <1>6

\* Add keys every device under the address it was handed.
LEMMA ContainerAdds ==
  ASSUME FleetInv, ContainerStep, Add
  PROVE  Handed'
<1> DEFINE faults == {e \in Entry : Invalid(e)}
           kept   == {e \in Entry : \A b \in faults : e < b}
<1>1. /\ origin = "herder" /\ stage = "planned"
      /\ UNCHANGED <<planVars, origin>>
  BY DEF ContainerStep
<1>2. cli = "add" /\ UNCHANGED <<specs, given, flags, baked>>
  BY DEF Add
<1>3. Entries("container")
  BY <1>1, <1>2 DEF FleetInv, Handed
<1>4. \A e \in Entry : /\ Nth(e) \in Synthetic
                       /\ specs[e].model \in Profiles
                       /\ specs[e].mac # None /\ Mac(e) = specs[e].mac
                       /\ specs[e].type = None
                       /\ \A d \in Entry : d # e => specs[d].mac # specs[e].mac
  BY <1>1, <1>3, EntryFacts
<1>5. ASSUME NEW e \in Entry PROVE ~Invalid(e)
  <2>1. \A d \in 1 .. e - 1 : d \in Entry /\ d # e
    BY DEF FleetInv, SpecsInv, Listing, Entry
  <2>2. Mac(e) \notin {Mac(d) : d \in 1 .. e - 1}
    BY <1>4, <2>1
  <2>. QED BY <1>4, <2>2 DEF Invalid
<1>6. faults = {}
  BY <1>5
<1>7. cli' = "ready" /\ fleet' = {Mac(e) : e \in kept} /\ kept = Entry
  BY <1>6 DEF Add
<1>8. {Mac(e) : e \in Entry} = {out[d].mac : d \in Synthetic}
  <2>1. Entry = 1 .. Cardinality(Synthetic)
    BY <1>3 DEF Entry, Entries
  <2>2. \A e \in Entry : Mac(e) = out[Nth(e)].mac /\ Nth(e) \in Synthetic
    BY <1>3, <1>4 DEF Entries
  <2>3. \A d \in Synthetic : \E e \in Entry : Nth(e) = d
    BY <2>1, NthFacts DEF FleetInv
  <2>. QED BY <2>2, <2>3
<1>9. Entries("container")'
  <2>1. Entry' = Entry
    BY <1>2 DEF Entry
  <2>. QED BY <1>1, <1>2, <1>3, <2>1, PlanStays DEF Entries
<1>. QED BY <1>1, <1>2, <1>7, <1>8, <1>9, HandedKept DEF FleetInv

-----------------------------------------------------------------------------
(* Theorems.                                                               *)

\* Nothing is set up before anything ran.
LEMMA FleetInit == Init => FleetInv
<1> SUFFICES ASSUME Init PROVE FleetInv
  OBVIOUS
<1>1. /\ SpecsInit /\ PlanInit
      /\ origin = "herder" =>
           /\ given = [s \in Sources |-> IF s = JSON THEN "set" ELSE "empty"]
           /\ ~flags
  BY DEF Init, JSON
<1>2. IndInv
  BY <1>1, InitInd
<1>3. stage = "decode"
  BY <1>1 DEF PlanInit
<1>4. cli = "sources" /\ specs = <<>> /\ reason = None /\ flags \in BOOLEAN
      /\ given \in [Sources -> {"empty", "blank", "set"}]
  BY <1>1 DEF SpecsInit, GivenSources
<1>5. Len(specs) = 0 /\ DOMAIN specs = {} /\ Entry = {}
  BY <1>4 DEF Entry
<1>6. Listing
  BY <1>4, <1>5 DEF Listing
<1>7. None # "add"
  BY FleetAssumption DEF Reasons
<1>8. Deciding /\ Automatic /\ Checked
  BY <1>4, <1>7 DEF Deciding, Automatic, Checked, Later
<1>9. Handed
  BY <1>1, <1>4 DEF Handed
<1>. QED BY <1>2, <1>3, <1>6, <1>8, <1>9 DEF FleetInv, Runnable, SpecsInv

\* The planner's invariant depends on its own variables only.
LEMMA PlanKept == FleetInv /\ UNCHANGED planVars => IndInv' /\ Runnable'
<1> SUFFICES ASSUME FleetInv, UNCHANGED planVars PROVE IndInv' /\ Runnable'
  OBVIOUS
<1>1. IndInv'
  BY StepInd DEF FleetInv
<1>2. Runnable'
  BY DEF FleetInv, Runnable, planVars, Device
<1>. QED BY <1>1, <1>2

\* As the command's does.
LEMMA SpecsKept == SpecsInv /\ UNCHANGED specVars => SpecsInv'
<1> SUFFICES ASSUME SpecsInv, UNCHANGED specVars PROVE SpecsInv'
  OBVIOUS
<1>1. UNCHANGED <<given, flags, cli, from, specs, reason>>
  BY DEF specVars
<1>2. Listing' /\ Automatic'
  BY <1>1 DEF SpecsInv, Listing, Automatic, FromModels, Entry
<1>3. Deciding'
  BY <1>1 DEF SpecsInv, Deciding, FlagSource, Sourced, Unsourced, BlankModels, Active
<1>4. Checked'
  BY <1>1 DEF SpecsInv, Checked, Entry, Invalid, Mac, normalizeMAC
<1>. QED BY <1>2, <1>3, <1>4 DEF SpecsInv

\* The invariant is inductive.
LEMMA FleetInd == FleetInv /\ [Next]_vars => FleetInv'
<1> SUFFICES ASSUME FleetInv, [Next]_vars PROVE FleetInv'
  OBVIOUS
<1>1. CASE PlanStep
  <2>1. origin = "herder" /\ Plan /\ UNCHANGED <<specVars, origin>>
    BY <1>1 DEF PlanStep
  <2>2. IndInv' /\ Runnable' /\ stage # "planned"
    BY <2>1, StepInd, RunnableInd DEF FleetInv
  <2>3. SpecsInv'
    BY <2>1, SpecsKept DEF FleetInv
  <2>4. Handed'
    <3>1. UNCHANGED <<given, flags, cli, from, specs, fleet, reason>>
      BY <2>1 DEF specVars
    <3>2. cli = "sources" /\ ~flags
          /\ given = [s \in Sources |-> IF s = JSON THEN "set" ELSE "empty"]
      BY <2>1, <2>2 DEF FleetInv, Handed
    <3>. QED BY <3>1, <3>2 DEF Handed
  <2>. QED BY <2>2, <2>3, <2>4 DEF FleetInv
<1>2. CASE UserStep
  <2>1. origin = "user" /\ Configure /\ UNCHANGED <<planVars, origin>>
    BY <1>2 DEF UserStep
  <2>2. Handed'
    BY <2>1 DEF Handed
  <2>. QED BY <2>1, <2>2, PlanKept, ConfigureInd DEF FleetInv
<1>3. CASE ContainerStep
  <2>1. UNCHANGED planVars
    BY <1>3 DEF ContainerStep
  <2>2. \/ fleetSpecs \/ readSource(Payload)
        \/ containerIPv4 \/ expandFleet \/ Add
    BY <1>3 DEF ContainerStep
  <2>3. SpecsInv'
    <3>1. ListOK(Payload)
      BY PayloadOK DEF FleetInv
    <3>. QED BY <2>2, <3>1, fleetSpecsInd, readSourceInd, containerIPv4Ind, expandFleetInd, AddInd
         DEF FleetInv
  <2>4. Handed'
    BY <1>3, <2>2, ContainerReads, ContainerAddresses, ContainerExpands, ContainerAdds
  <2>. QED BY <2>1, <2>3, <2>4, PlanKept DEF FleetInv
<1>4. CASE UNCHANGED vars
  <2>1. UNCHANGED planVars /\ UNCHANGED specVars /\ UNCHANGED origin
    BY <1>4 DEF vars
  <2>2. UNCHANGED <<given, flags, cli, from, specs, fleet, reason>>
    BY <2>1 DEF specVars
  <2>3. Handed'
    <3>1. Entry' = Entry
      BY <2>2 DEF Entry
    <3>2. \A ip : Entries(ip)' <=> Entries(ip)
      BY <2>1, <2>2, <3>1, PlanStays DEF Entries
    <3>3. Synthetic' = Synthetic /\ out' = out /\ stage' = stage
      BY <2>1, PlanStays
    <3>4. TwoGateways' <=> TwoGateways
      BY <3>3 DEF TwoGateways
    <3>. QED BY <2>1, <2>2, <3>2, <3>3, <3>4 DEF FleetInv, Handed
  <2>. QED BY <2>1, <2>3, PlanKept, SpecsKept DEF FleetInv
<1>. QED BY <1>1, <1>2, <1>3, <1>4 DEF Next

\* Whatever combination of flags, variables and image it was started with,
\* unifi-emu runs what the one source said (devices.go, fleetSources).
THEOREM SourceDecides == Spec => []OneSourceDecides
<1>1. FleetInv => OneSourceDecides
  <2> SUFFICES ASSUME FleetInv, cli = "ready", ~BlankModels
               PROVE  /\ \A s \in Sources : given[s] = "set" <=> from = s
                      /\ from = "default" => ~flags
                      /\ from \in {"-devices", "-models"} => ~flags
    BY DEF OneSourceDecides
  <2>1. ~(FlagSource /\ flags)
    BY DEF FleetInv, SpecsInv, Deciding
  <2>2. CASE Sourced
    <3>1. \A s \in Sources : given[s] = "set" <=> from = s
      BY <2>2 DEF Sourced, Active
    <3>2. from \in {"-devices", "-models"} => FlagSource
      BY <2>2 DEF Sourced, FlagSource
    <3>. QED BY <2>1, <2>2, <3>1, <3>2 DEF Sourced, Sources
  <2>3. CASE from \in {"default", "single"} /\ Active = {} /\ (from = "default" => ~flags)
    BY <2>3 DEF Active, Sources
  <2>. QED BY <2>2, <2>3 DEF FleetInv, SpecsInv, Deciding, Later, Unsourced
<1>. QED BY <1>1, FleetInit, FleetInd, PTL DEF Spec

\* Whatever the list and the base address, no two devices of a fleet share an
\* address (devices.go, expandFleet; emu.go, Add).
THEOREM FleetApart == Spec => []AddressesApart
<1>1. FleetInv => AddressesApart
  <2> SUFFICES ASSUME FleetInv PROVE AddressesApart
    OBVIOUS
  <2>1. Len(specs) \in Nat /\ Entry = 1 .. Len(specs)
    BY DEF FleetInv, SpecsInv, Listing, Entry
  <2>2. ASSUME NEW d \in Entry, NEW e \in Entry, cli = "ready", d < e
        PROVE  Mac(d) # None /\ Mac(e) # None /\ Mac(d) # Mac(e)
    <3>1. ~Invalid(d) /\ ~Invalid(e)
      BY <2>2 DEF FleetInv, SpecsInv, Checked
    <3>2. d \in 1 .. e - 1
      BY <2>1, <2>2
    <3>. QED BY <3>1, <3>2 DEF Invalid
  <2>3. ASSUME NEW d \in Entry, NEW e \in Entry, cli = "ready", d # e
        PROVE  Canonical[specs[d].mac] \notin {None, Canonical[specs[e].mac]}
    <3>1. d < e \/ e < d
      BY <2>1, <2>3
    <3>. QED BY <2>2, <2>3, <3>1 DEF Mac, normalizeMAC
  <2>4. ASSUME NEW d \in Entry, NEW e \in Entry, cli = "ready", d # e, FromModels
        PROVE  specs[d].ip # specs[e].ip /\ specs[d].ip <= LastIp
    <3>1. /\ specs[d].ip = nextIP(d - 1) /\ specs[e].ip = nextIP(e - 1)
          /\ specs[d].ip <= LastIp
      BY <2>4 DEF FleetInv, SpecsInv, Automatic
    <3>2. nextIP(d - 1) # nextIP(e - 1)
      BY <2>1, <2>4, FleetAssumption DEF nextIP
    <3>. QED BY <3>1, <3>2
  <2>5. FromModels /\ Len(specs) <= MacSpace => reason # "add"
    BY DEF FleetInv, SpecsInv, Automatic
  <2>. QED BY <2>3, <2>4, <2>5 DEF AddressesApart, Runs
<1>. QED BY <1>1, FleetInit, FleetInd, PTL DEF Spec

\* Whatever the request and the draws, the synthetic container runs every device
\* under the address the herder published for it (containers.go, devicePayload).
THEOREM HandedOver == Spec => []IdentityHandedOver
<1>1. FleetInv => IdentityHandedOver
  BY DEF FleetInv, Handed, Entries, IdentityHandedOver, InContainer
<1>. QED BY <1>1, FleetInit, FleetInd, PTL DEF Spec

\* And it refuses them for their gateways or its network only (devices.go,
\* expandFleet; containerip.go).
THEOREM LittleRefused == Spec => []RefusedForLittle
<1>1. FleetInv => RefusedForLittle
  BY DEF FleetInv, Handed, RefusedForLittle, InContainer
<1>. QED BY <1>1, FleetInit, FleetInd, PTL DEF Spec

\* What is proved of planning alone holds beside a container that runs the plan
\* (run.go, validate).
THEOREM PlanningBesideContainer ==
  Spec => [](PlanTypeOK /\ IdentitiesApart /\ SuppliedKept /\ PlannedOnce)
<1>1. FleetInv => PlanTypeOK /\ IdentitiesApart /\ SuppliedKept /\ PlannedOnce
  BY ApartNow, KeptNow, OnceNow DEF FleetInv, IndInv
<1>. QED BY <1>1, FleetInit, FleetInd, PTL DEF Spec

\* A plan is refused for its gateways only if two of its synthetic devices are
\* gateways: every other request does run on a runner without a mapping, as
\* BuildPlan promises of all (plan.go, BuildPlan; devices.go, expandFleet).
THEOREM RefusedForTwoGateways ==
  Spec => [](InContainer /\ cli = "refused" /\ reason = "gateways" => TwoGateways)
<1>1. FleetInv => (InContainer /\ cli = "refused" /\ reason = "gateways" => TwoGateways)
  BY DEF FleetInv, Handed, InContainer
<1>. QED BY <1>1, FleetInit, FleetInd, PTL DEF Spec
=============================================================================
