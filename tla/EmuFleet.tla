------------------------------ MODULE EmuFleet ------------------------------
(***************************************************************************)
(* The fleet of emu.go: devices are added, launched once, and stopped by   *)
(* any number of goroutines at any time, Start's own among them.           *)
(*                                                                         *)
(* e.mu is held for one step, except by Start, which holds it until the    *)
(* last loop is launched: a loop may end before the next one begins.  What *)
(* a loop does is InformDevice's; here it runs until its context is done   *)
(* (InformDevice, StopsAfterCancel).                                       *)
(***************************************************************************)
EXTENDS Naturals, Sequences

CONSTANTS
  Addresses,   \* normalized MACs
  Refused,     \* a spec normalizeMAC or newDevice refuses
  Lists,       \* what Add is called with
  Callers      \* goroutines that may call Stop

ASSUME ListsAssumption ==
  /\ Refused \notin Addresses
  /\ Lists \subseteq Seq(Addresses \cup {Refused})

VARIABLES
  positive,    \* the inform interval is one Start takes
  members,     \* the keys of e.devices
  started,     \* e.started
  todo,        \* devices Start has still to launch; it holds e.mu meanwhile
  holds,       \* e.cancel is set
  loop,        \* per device: "none", "running" or "returned"
  parent,      \* the context given to Start is done
  derived,     \* the one Start made of it has been cancelled
  stopper,     \* per caller: where its Stop is
  took,        \* per caller: its Stop found a cancel function
  late         \* history, per caller: its Stop locked e.mu after Start had

fleetVars == <<positive, members, started, todo, holds, loop, parent, derived,
               stopper, took, late>>
stopVars == <<stopper, took, late>>

-----------------------------------------------------------------------------
FleetInit ==
  /\ positive \in BOOLEAN
  /\ members = {}
  /\ started = FALSE
  /\ todo = {}
  /\ holds = FALSE
  /\ loop = [d \in Addresses |-> "none"]
  /\ parent = FALSE
  /\ derived = FALSE
  /\ stopper = [c \in Callers |-> "idle"]
  /\ took = [c \in Callers |-> FALSE]
  /\ late = [c \in Callers |-> FALSE]

Unlocked == todo = {}

\* The specs of a call up to the first one that is refused or already there.
Accepted(list) ==
  {e \in DOMAIN list : \A d \in 1 .. e :
     /\ list[d] \notin members \cup {Refused}
     /\ \A c \in 1 .. d - 1 : list[c] # list[d]}

\* Faulty variant: a running fleet takes new devices.
AddWhenever(list) ==
  /\ Unlocked
  /\ members' = members \cup {list[e] : e \in Accepted(list)}
  /\ UNCHANGED <<positive, started, todo, holds, loop, parent, derived, stopVars>>

Add(list) ==
  /\ Unlocked
  /\ ~started
  /\ members' = members \cup {list[e] : e \in Accepted(list)}
  /\ UNCHANGED <<positive, started, todo, holds, loop, parent, derived, stopVars>>

\* Start under the lock, up to its loop.
Start ==
  /\ Unlocked
  /\ ~started
  /\ members # {}
  /\ positive
  /\ started' = TRUE
  /\ holds' = TRUE
  /\ todo' = members
  /\ UNCHANGED <<positive, members, loop, parent, derived, stopVars>>

\* One turn of that loop, over a map: in any order.
Launch(d) ==
  /\ d \in todo
  /\ todo' = todo \ {d}
  /\ loop' = [loop EXCEPT ![d] = "running"]
  /\ UNCHANGED <<positive, members, started, holds, parent, derived, stopVars>>

\* The context given to Start ends: a signal, or its owner.
ParentDone ==
  /\ ~parent
  /\ parent' = TRUE
  /\ UNCHANGED <<positive, members, started, todo, holds, loop, derived, stopVars>>

Return(d) ==
  /\ loop[d] = "running"
  /\ parent \/ derived
  /\ loop' = [loop EXCEPT ![d] = "returned"]
  /\ UNCHANGED <<positive, members, started, todo, holds, parent, derived, stopVars>>

\* Faulty variant: the function is cleared before it is read.
StopTakeCleared(c) ==
  /\ Unlocked
  /\ stopper[c] \in {"idle", "over"}
  /\ took' = [took EXCEPT ![c] = FALSE]
  /\ holds' = FALSE
  /\ late' = [late EXCEPT ![c] = started]
  /\ stopper' = [stopper EXCEPT ![c] = "cancel"]
  /\ UNCHANGED <<positive, members, started, todo, loop, parent, derived>>

\* Stop's critical section: one caller gets the function.
StopTake(c) ==
  /\ Unlocked
  /\ stopper[c] \in {"idle", "over"}
  /\ took' = [took EXCEPT ![c] = holds]
  /\ holds' = FALSE
  /\ late' = [late EXCEPT ![c] = started]
  /\ stopper' = [stopper EXCEPT ![c] = "cancel"]
  /\ UNCHANGED <<positive, members, started, todo, loop, parent, derived>>

StopCancel(c) ==
  /\ stopper[c] = "cancel"
  /\ derived' = (derived \/ took[c])
  /\ stopper' = [stopper EXCEPT ![c] = "wait"]
  /\ UNCHANGED <<positive, members, started, todo, holds, loop, parent, took, late>>

\* Faulty variant: who cancelled nothing waits for nothing.
StopWaitIfTook(c) ==
  /\ stopper[c] = "wait"
  /\ took[c] => \A d \in Addresses : loop[d] # "running"
  /\ stopper' = [stopper EXCEPT ![c] = "over"]
  /\ UNCHANGED <<positive, members, started, todo, holds, loop, parent, derived, took, late>>

\* wg.Wait: the counter is zero.
StopWait(c) ==
  /\ stopper[c] = "wait"
  /\ \A d \in Addresses : loop[d] # "running"
  /\ stopper' = [stopper EXCEPT ![c] = "over"]
  /\ UNCHANGED <<positive, members, started, todo, holds, loop, parent, derived, took, late>>

FleetNext ==
  \/ \E list \in Lists : Add(list)
  \/ Start
  \/ \E d \in Addresses : Launch(d) \/ Return(d)
  \/ ParentDone
  \/ \E c \in Callers : StopTake(c) \/ StopCancel(c) \/ StopWait(c)

\* Every goroutine that has begun something is scheduled, and a loop whose
\* context is done returns.
FleetFairness ==
  /\ \A d \in Addresses : WF_fleetVars(Launch(d)) /\ WF_fleetVars(Return(d))
  /\ \A c \in Callers : WF_fleetVars(StopCancel(c)) /\ WF_fleetVars(StopWait(c))

FleetSpec == FleetInit /\ [][FleetNext]_fleetVars /\ FleetFairness

-----------------------------------------------------------------------------
(* Properties. *)

\* The shape of every variable.
FleetTypeOK ==
  /\ positive \in BOOLEAN /\ started \in BOOLEAN /\ holds \in BOOLEAN
  /\ parent \in BOOLEAN /\ derived \in BOOLEAN
  /\ members \subseteq Addresses
  /\ todo \subseteq members
  /\ loop \in [Addresses -> {"none", "running", "returned"}]
  /\ stopper \in [Callers -> {"idle", "cancel", "wait", "over"}]
  /\ took \in [Callers -> BOOLEAN]
  /\ late \in [Callers -> BOOLEAN]

\* A fleet that has been started has launched every device it has, and never
\* gets one that would not be (emu.go, Add: "devices added after Start would
\* never be launched").
AllLaunched == started /\ Unlocked => \A d \in members : loop[d] # "none"

\* When a Stop that came after Start returns, no device is running or will be,
\* whichever caller cancelled and however their steps interleave (emu.go, Stop:
\* "cancels every device loop and waits for them to return.  It is safe to call
\* more than once").
StopMeansStopped ==
  \A c \in Callers : stopper[c] = "over" /\ late[c] =>
    \A d \in members : loop[d] = "returned"

\* Such a Stop returns, also one that found nothing to cancel.
StopEnds ==
  \A c \in Callers :
    (stopper[c] \in {"cancel", "wait"} /\ late[c]) ~> stopper[c] = "over"
=============================================================================
