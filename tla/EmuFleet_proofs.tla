--------------------------- MODULE EmuFleet_proofs ---------------------------
(***************************************************************************)
(* A started fleet runs every device, and a Stop that came after Start     *)
(* leaves none running, for any devices and any number of callers.         *)
(***************************************************************************)
EXTENDS EmuFleet, TLAPS

\* Start is finished with a device once it is not in todo.
Launched == started => \A d \in members \ todo : loop[d] # "none"

\* Start holds e.mu until it is done: a Stop behind it finds nothing left to do.
Ordered == \A c \in Callers : late[c] => started /\ todo = {}

IndInv == FleetTypeOK /\ Launched /\ Ordered /\ StopMeansStopped

-----------------------------------------------------------------------------
\* What Add keys is a device.
LEMMA AcceptedFacts ==
  ASSUME NEW list \in Lists, NEW e \in Accepted(list)
  PROVE  list[e] \in Addresses
<1>1. list \in Seq(Addresses \cup {Refused})
  BY ListsAssumption
<1>2. e \in DOMAIN list /\ e \in 1 .. e
  BY <1>1 DEF Accepted
<1>3. list[e] # Refused
  BY <1>2 DEF Accepted
<1> QED BY <1>1, <1>2, <1>3

LEMMA InitInd == FleetInit => IndInv
BY DEF FleetInit, IndInv, FleetTypeOK, Launched, Ordered, StopMeansStopped

LEMMA AddInd == ASSUME IndInv, NEW list \in Lists, Add(list) PROVE IndInv'
<1>1. FleetTypeOK'
  BY AcceptedFacts DEF IndInv, FleetTypeOK, Add, Unlocked, stopVars
<1>2. Launched' /\ Ordered'
  BY DEF IndInv, Launched, Ordered, Add, stopVars
<1>3. StopMeansStopped'
  BY DEF IndInv, Ordered, StopMeansStopped, Add, stopVars
<1> QED BY <1>1, <1>2, <1>3 DEF IndInv

LEMMA StartInd == IndInv /\ Start => IndInv'
<1> SUFFICES ASSUME IndInv, Start PROVE IndInv'
  OBVIOUS
<1>1. \A c \in Callers : ~late[c]
  BY DEF IndInv, FleetTypeOK, Ordered, Start
<1>2. FleetTypeOK'
  BY DEF IndInv, FleetTypeOK, Start, stopVars
<1>3. Launched'
  BY DEF Launched, Start
<1>4. Ordered' /\ StopMeansStopped'
  BY <1>1 DEF Ordered, StopMeansStopped, Start, stopVars
<1> QED BY <1>2, <1>3, <1>4 DEF IndInv

LEMMA LaunchInd == ASSUME IndInv, NEW d \in Addresses, Launch(d) PROVE IndInv'
<1>1. \A c \in Callers : ~late[c]
  BY DEF IndInv, FleetTypeOK, Ordered, Launch
<1>2. FleetTypeOK'
  BY DEF IndInv, FleetTypeOK, Launch, stopVars
<1>3. Launched'
  BY DEF IndInv, FleetTypeOK, Launched, Launch
<1>4. Ordered' /\ StopMeansStopped'
  BY <1>1 DEF Ordered, StopMeansStopped, Launch, stopVars
<1> QED BY <1>2, <1>3, <1>4 DEF IndInv

\* The context's end, and a loop's.
LEMMA EndInd ==
  ASSUME IndInv, ParentDone \/ \E d \in Addresses : Return(d)
  PROVE  IndInv'
<1>1. CASE ParentDone
  BY <1>1 DEF IndInv, FleetTypeOK, Launched, Ordered, StopMeansStopped, ParentDone, stopVars
<1>2. ASSUME NEW d \in Addresses, Return(d) PROVE IndInv'
  <2>1. FleetTypeOK'
    BY <1>2 DEF IndInv, FleetTypeOK, Return, stopVars
  <2>2. Launched' /\ Ordered'
    BY <1>2 DEF IndInv, FleetTypeOK, Launched, Ordered, Return, stopVars
  <2>3. StopMeansStopped'
    BY <1>2 DEF IndInv, FleetTypeOK, StopMeansStopped, Return, stopVars
  <2> QED BY <2>1, <2>2, <2>3 DEF IndInv
<1> QED BY <1>1, <1>2

LEMMA StopInd ==
  ASSUME IndInv, NEW c \in Callers, StopTake(c) \/ StopCancel(c) \/ StopWait(c)
  PROVE  IndInv'
<1>1. CASE StopTake(c)
  <2>1. FleetTypeOK'
    BY <1>1 DEF IndInv, FleetTypeOK, StopTake
  <2>2. Launched' /\ Ordered'
    BY <1>1 DEF IndInv, FleetTypeOK, Launched, Ordered, StopTake, Unlocked
  <2>3. StopMeansStopped'
    BY <1>1 DEF IndInv, FleetTypeOK, StopMeansStopped, StopTake
  <2> QED BY <2>1, <2>2, <2>3 DEF IndInv
<1>2. CASE StopCancel(c)
  <2>1. FleetTypeOK'
    BY <1>2 DEF IndInv, FleetTypeOK, StopCancel
  <2>2. Launched' /\ Ordered'
    BY <1>2 DEF IndInv, Launched, Ordered, StopCancel
  <2>3. StopMeansStopped'
    BY <1>2 DEF IndInv, FleetTypeOK, StopMeansStopped, StopCancel
  <2> QED BY <2>1, <2>2, <2>3 DEF IndInv
<1>3. CASE StopWait(c)
  <2>1. FleetTypeOK'
    BY <1>3 DEF IndInv, FleetTypeOK, StopWait
  <2>2. Launched' /\ Ordered'
    BY <1>3 DEF IndInv, Launched, Ordered, StopWait
  \* Nothing runs, and all that was ever going to run has been launched.
  <2>3. late[c] => \A d \in members : loop[d] = "returned"
    BY <1>3 DEF IndInv, FleetTypeOK, Launched, Ordered, StopWait
  <2>4. StopMeansStopped'
    BY <1>3, <2>3 DEF IndInv, FleetTypeOK, StopMeansStopped, StopWait
  <2> QED BY <2>1, <2>2, <2>4 DEF IndInv
<1> QED BY <1>1, <1>2, <1>3

LEMMA StepInd == IndInv /\ [FleetNext]_fleetVars => IndInv'
<1> SUFFICES ASSUME IndInv, [FleetNext]_fleetVars PROVE IndInv'
  OBVIOUS
<1>1. CASE UNCHANGED fleetVars
  BY <1>1 DEF fleetVars, IndInv, FleetTypeOK, Launched, Ordered, StopMeansStopped
<1> QED BY <1>1, AddInd, StartInd, LaunchInd, EndInd, StopInd DEF FleetNext

-----------------------------------------------------------------------------
(* Theorems. *)

\* The fleet's variables keep their shape (emu.go, Emu).
THEOREM TypeCorrect == FleetSpec => []FleetTypeOK
<1>1. IndInv => FleetTypeOK
  BY DEF IndInv
<1> QED BY <1>1, InitInd, StepInd, PTL DEF FleetSpec

\* Once Start has let go of the lock, every device of the fleet has been
\* launched, and none can be added that is not (emu.go, Add, Start).
THEOREM NoneForgotten == FleetSpec => []AllLaunched
<1>1. IndInv => AllLaunched
  BY DEF IndInv, Launched, AllLaunched, Unlocked
<1> QED BY <1>1, InitInd, StepInd, PTL DEF FleetSpec

\* A Stop behind Start returns only when every device's loop has, whoever
\* cancelled them (emu.go, Stop).
THEOREM Stopped == FleetSpec => []StopMeansStopped
<1>1. IndInv => StopMeansStopped
  BY DEF IndInv
<1> QED BY <1>1, InitInd, StepInd, PTL DEF FleetSpec
=============================================================================
