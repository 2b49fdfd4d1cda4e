---------------------------- MODULE EmuMain_proofs ----------------------------
(***************************************************************************)
(* Proofs about the process: its fleet, its adopting client and its own    *)
(* course together, for any fleet and any number of restarts.              *)
(***************************************************************************)
EXTENDS EmuMain, EmuFleet_proofs, AdoptFleet_proofs

-----------------------------------------------------------------------------
(* The inductive invariant: the fleet's (EmuFleet_proofs, which a restart  *)
(* begins anew), the client's (AdoptFleet_proofs), and what ties them to   *)
(* the course of run().  The marker is truthful because it is written only *)
(* when run() has come through Start with the whole list (Launching); the  *)
(* exit is clean because nothing but the deferred Stop comes before it     *)
(* once a loop runs (Stopping); and a fleet that waits is an adopted one   *)
(* because the settings' verdict is kept until then (Adopting).            *)

MainTypeOK ==
  /\ run \in {"settings", "fleet", "start", "launch", "adopt", "wait", "stop"}
  /\ boots \in Nat
  /\ adopter \in {"cli", "harness"}

\* No loop runs before Start, and Start gets the whole fleet.
Launching ==
  /\ run \in {"settings", "fleet", "start"} =>
       todo = {} /\ \A d \in Addresses : loop[d] = "none"
  /\ run \in {"settings", "fleet"} /\ Alive => members = {}
  /\ run = "start" /\ Alive => members = Addresses
  /\ run = "launch" => started /\ members = Addresses

\* The deferred Stop is run()'s last act.
Stopping ==
  /\ run # "stop" => stopper[Main] = "idle"
  /\ stopper[Main] # "idle" => todo = {}
  /\ stopper[Main] = "over" => \A d \in Addresses : loop[d] # "running"
  /\ code = "ok" => parent

\* What the settings ask for is done before run() waits.
Adopting ==
  /\ run = "settings" => at = "idle" /\ ~marker
  /\ run # "settings" /\ wanted => adopts
  /\ run = "wait" /\ adopts /\ adopter = "cli" => outcome = "connected"

MainInv ==
  /\ MainTypeOK /\ Launching /\ Stopping /\ Adopting
  /\ ExitIsClean /\ MarkerMeansLaunched

ProcessInv == IndInv /\ ClientInv /\ MainInv

\* Before the first start.
LEMMA InitProcess == Init => ProcessInv
<1> SUFFICES ASSUME Init PROVE ProcessInv
  OBVIOUS
<1>1. IndInv /\ ClientInv
  BY InitInd, ClientInitInv DEF Init
<1>2. /\ run = "settings" /\ code = "none" /\ exit = "none" /\ boots = 0
      /\ ~marker /\ ~wanted /\ at = "idle"
      /\ todo = {} /\ members = {} /\ \A d \in Addresses : loop[d] = "none"
      /\ stopper[Main] = "idle" /\ adopter \in {"cli", "harness"}
  BY MainAssumption DEF Init, FleetInit, AdoptInit, ClientInit
<1>3. MainInv
  BY <1>2 DEF MainInv, MainTypeOK, Launching, Stopping, Adopting, ExitIsClean,
              MarkerMeansLaunched
<1>. QED BY <1>1, <1>3 DEF ProcessInv

-----------------------------------------------------------------------------
(* The fleet inside the process.                                           *)

\* Every step but a restart is one of the fleet's, or leaves it alone.
LEMMA FleetInside == [Next]_vars => [FleetNext]_fleetVars \/ Restart
<1> SUFFICES ASSUME [Next]_vars PROVE [FleetNext]_fleetVars \/ Restart
  OBVIOUS
<1>1. CASE Fleet
  BY <1>1 DEF Fleet, FleetNext
<1>2. CASE StartFleet \/ FleetStep
  BY <1>2 DEF StartFleet, FleetStep, FleetNext
<1>3. CASE StopFleet
  BY <1>3, MainAssumption DEF StopFleet, FleetNext
<1>4. CASE Signal
  BY <1>4 DEF Signal, FleetNext
<1>5. CASE UNCHANGED fleetVars
  BY <1>5
<1>. QED BY <1>1, <1>2, <1>3, <1>4, <1>5
         DEF Next, vars, Settings, writeReady, runAdopt, AdoptedOrNot, AwaitSignal,
             Leave, Kill, Controller

\* A restart begins with an empty fleet.
LEMMA RestartFleet == ASSUME IndInv, Restart PROVE IndInv'
<1>1. /\ members' = {} /\ todo' = {} /\ positive' = positive
      /\ started' = FALSE /\ holds' = FALSE /\ parent' = FALSE /\ derived' = FALSE
      /\ loop' = [d \in Addresses |-> "none"]
      /\ stopper' = [c \in Callers |-> "idle"]
      /\ took' = [c \in Callers |-> FALSE] /\ late' = [c \in Callers |-> FALSE]
  BY DEF Restart, NewFleet
<1>2. FleetTypeOK'
  BY <1>1 DEF IndInv, FleetTypeOK
<1>. QED BY <1>1, <1>2 DEF IndInv, Launched, Ordered, StopMeansStopped

\* The fleet keeps its invariant inside the process.
LEMMA FleetInv == IndInv /\ [Next]_vars => IndInv'
  BY FleetInside, StepInd, RestartFleet

-----------------------------------------------------------------------------
(* The client inside the process.                                          *)

\* What leaves the client alone leaves its invariant alone.
LEMMA OutsideInv ==
  ASSUME ClientInv, Outside
  PROVE  ClientInv'
  BY DEF Outside, clientVars, adoptHistory, ClientInv, ClientTypeOK, Known, OneByOne,
         Told, AllConnected, OneAtATime, DiagnosisTruthful, Mac, Forbidden, CtxDone

\* The dialect comes with the settings, before any request.
LEMMA SettingsClient ==
  ASSUME ClientInv, run = "settings" => at = "idle", Settings
  PROVE  ClientInv'
<1>1. /\ UNCHANGED <<docs, adopter, at, k, placeholder, fresh, seen, outcome,
                     expired, interrupted, told, landed, connected>>
      /\ at = "idle"
  BY DEF Settings, adoptHistory
<1>2. ClientTypeOK' /\ Known' /\ OneByOne'
  BY <1>1 DEF ClientInv, ClientTypeOK, Known, OneByOne, Mac
<1>3. Told'
  BY <1>1 DEF ClientInv, Told, LoggedIn
<1>4. AllConnected' /\ OneAtATime' /\ DiagnosisTruthful'
  BY <1>1 DEF ClientInv, AllConnected, OneAtATime, DiagnosisTruthful, CtxDone, Mac
<1>. QED BY <1>2, <1>3, <1>4 DEF ClientInv

\* A context that is done stays done.
LEMMA SignalClient == ASSUME ClientInv, Signal PROVE ClientInv'
<1>1. UNCHANGED <<docs, adopter, dialect, at, k, placeholder, fresh, seen, outcome,
                  expired, told, landed, connected>>
  BY DEF Signal, clientVars, adoptHistory
<1>2. interrupted' = interrupted \/ interrupted' = (adopter = "cli")
  BY DEF Signal
<1>3. interrupted' \in BOOLEAN /\ (interrupted => interrupted') /\ (interrupted' => adopter = "cli")
  <2>1. interrupted \in BOOLEAN /\ (interrupted => adopter = "cli")
    BY DEF ClientInv, ClientTypeOK, Told
  <2>2. CASE interrupted' = interrupted
    BY <2>1, <2>2
  <2>3. CASE interrupted' = (adopter = "cli") /\ adopter = "cli"
    BY <2>3
  <2>4. CASE interrupted' = (adopter = "cli") /\ adopter # "cli"
    BY <2>1, <2>4
  <2>. QED BY <1>2, <2>2, <2>3, <2>4
<1>4. ClientTypeOK' /\ Known' /\ OneByOne'
  BY <1>1, <1>3 DEF ClientInv, ClientTypeOK, Known, OneByOne, Mac
<1>5. Told'
  BY <1>1, <1>3 DEF ClientInv, Told, Forbidden
<1>6. AllConnected' /\ OneAtATime' /\ DiagnosisTruthful'
  BY <1>1, <1>3 DEF ClientInv, AllConnected, OneAtATime, DiagnosisTruthful, CtxDone, Mac
<1>. QED BY <1>4, <1>5, <1>6 DEF ClientInv

\* A new client knows nothing of the old one's work, but what the controller
\* has connected.
LEMMA RestartClient == ASSUME ClientInv, Restart PROVE ClientInv'
<1>1. /\ UNCHANGED <<docs, adopter, dialect>>
      /\ at' = "idle" /\ k' = 1 /\ outcome' = "none"
      /\ ~placeholder' /\ ~fresh' /\ ~expired' /\ ~interrupted'
      /\ told' = {} /\ landed' = {}
      /\ connected' = {d \in Macs : docs[d] = "connected"}
  BY DEF Restart, NewClient
<1>2. /\ fresh' \in BOOLEAN /\ placeholder' \in BOOLEAN
      /\ expired' \in BOOLEAN /\ interrupted' \in BOOLEAN
  BY Zenon DEF Restart, NewClient
<1>3. ClientTypeOK'
  BY <1>1, <1>2, OrderFacts DEF ClientInv, ClientTypeOK, Places
<1>4. Known' /\ OneByOne' /\ Told'
  BY <1>1 DEF Known, OneByOne, Told, LoggedIn
<1>5. AllConnected' /\ OneAtATime' /\ DiagnosisTruthful'
  BY <1>1 DEF AllConnected, OneAtATime, DiagnosisTruthful
<1>. QED BY <1>3, <1>4, <1>5 DEF ClientInv

\* The client keeps its invariant inside the process.
LEMMA ClientInside ==
  ASSUME ClientInv, run = "settings" => at = "idle", [Next]_vars
  PROVE  ClientInv'
<1>1. CASE Settings
  BY <1>1, SettingsClient
<1>2. CASE Outside
  BY <1>2, OutsideInv
<1>3. CASE runAdopt
  BY <1>3, ClientStepInv DEF runAdopt
<1>4. CASE Signal
  BY <1>4, SignalClient
<1>5. CASE Restart
  BY <1>5, RestartClient
<1>6. CASE Controller
  BY <1>6, ControllerInv DEF Controller
<1>7. CASE UNCHANGED vars
  BY <1>7, OutsideInv DEF vars, adoptVars, contextVars, Outside
<1>. QED BY <1>1, <1>2, <1>3, <1>4, <1>5, <1>6, <1>7
         DEF Next, Fleet, StartFleet, FleetStep, writeReady, AdoptedOrNot, AwaitSignal,
             StopFleet, Leave, Kill

-----------------------------------------------------------------------------
(* The course of run(), step by step.                                      *)

\* A step that leaves the process's own variables and its fleet alone, and the
\* client too, unless run() is at the adoption.
LEMMA RunInv ==
  ASSUME ProcessInv, UNCHANGED <<mainVars, fleetVars, adopter>>,
         run = "settings" => at' = at,
         run = "adopt" \/ adopter # "cli" \/ outcome' = outcome
  PROVE  MainInv'
<1> USE DEF ProcessInv, MainInv, mainVars, fleetVars
<1>1. MainTypeOK' /\ Launching' /\ Stopping'
  BY DEF MainTypeOK, Launching, Stopping, Alive
<1>2. Adopting'
  BY DEF Adopting
<1>3. ExitIsClean' /\ MarkerMeansLaunched'
  BY DEF ExitIsClean, MarkerMeansLaunched
<1>. QED BY <1>1, <1>2, <1>3

\* resolveAdopt: whoever asks for adoption gets it or a refusal.
LEMMA Verdict ==
  ASSUME NEW s \in AdoptSettings, Wants(s), resolveAdopt(s) # "refused"
  PROVE  resolveAdopt(s) # "off"
  BY DEF resolveAdopt, Wants, ResolvedDialect, AdoptSettings

LEMMA SettingsInv == ASSUME ProcessInv, Settings PROVE MainInv'
<1> USE DEF ProcessInv, MainInv
<1>1. /\ run = "settings" /\ Alive
      /\ UNCHANGED <<code, marker, boots, fleetVars, adopter, at>>
  BY DEF Settings
<1>2. PICK s \in AdoptSettings :
        /\ wanted' = Wants(s)
        /\ \/ Exit("failed") /\ run' = run
           \/ /\ resolveAdopt(s) # "refused" /\ run' = "fleet" /\ exit' = exit
              /\ adopts' = (resolveAdopt(s) # "off")
  BY DEF Settings
<1>3. /\ run' \in {"settings", "fleet"} /\ exit' \in {"none", "failed"}
      /\ run' = "fleet" => exit' = "none"
  BY <1>1, <1>2 DEF Exit, Alive
<1>4. MainTypeOK' /\ Stopping'
  BY <1>1, <1>3 DEF MainTypeOK, Stopping, fleetVars, stopVars
<1>5. Launching'
  BY <1>1, <1>3 DEF Launching, Alive, fleetVars
<1>6. Adopting'
  <2>1. run' = "fleet" /\ wanted' => adopts'
    BY <1>1, <1>2, Verdict DEF Exit
  <2>. QED BY <1>1, <1>3, <2>1 DEF Adopting
<1>7. ExitIsClean' /\ MarkerMeansLaunched'
  BY <1>1, <1>3 DEF Launching, Adopting, ExitIsClean, MarkerMeansLaunched, fleetVars
<1>. QED BY <1>4, <1>5, <1>6, <1>7

\* A list that is accepted whole is the fleet.
LEMMA AcceptedWhole ==
  ASSUME NEW list \in Lists, members = {}, Accepted(list) = DOMAIN list
  PROVE  {list[e] : e \in Accepted(list)} = Addresses
<1>1. list \in Seq(Addresses \cup {Refused})
  BY ListsAssumption
<1>2. ASSUME NEW j \in DOMAIN list
      PROVE  list[j] # Refused /\ \A i \in 1 .. j - 1 : list[i] # list[j]
  <2>1. j \in Accepted(list) /\ j \in 1 .. j
    BY <1>1, <1>2
  <2>. QED BY <2>1 DEF Accepted
<1>. QED BY <1>2, MainAssumption

LEMMA FleetMain == ASSUME ProcessInv, Fleet PROVE MainInv'
<1> USE DEF ProcessInv, MainInv
<1>1. /\ run = "fleet" /\ Alive
      /\ UNCHANGED <<code, marker, adopts, wanted, boots, adopter, at, outcome>>
  BY DEF Fleet, Outside, clientVars
<1>2. /\ UNCHANGED <<todo, loop, started, stopper, parent>>
      /\ \/ exit' = "failed" /\ run' = "fleet"
         \/ run' = "start" /\ exit' = exit /\ members' = Addresses
  <2>1. CASE Exit("failed") /\ UNCHANGED <<run, fleetVars>>
    BY <1>1, <2>1 DEF Exit, fleetVars, stopVars
  <2>2. ASSUME NEW list \in Lists, Add(list),
               IF Accepted(list) = DOMAIN list
               THEN run' = "start" /\ UNCHANGED <<exit, alive>>
               ELSE Exit("failed") /\ UNCHANGED run
        PROVE  /\ UNCHANGED <<todo, loop, started, stopper, parent>>
               /\ \/ exit' = "failed" /\ run' = "fleet"
                  \/ run' = "start" /\ exit' = exit /\ members' = Addresses
    <3>1. members = {} /\ members' = members \cup {list[e] : e \in Accepted(list)}
      BY <1>1, <2>2 DEF Add, Launching
    <3>. QED BY <1>1, <2>2, <3>1, AcceptedWhole DEF Add, Exit, stopVars
  <2>. QED BY <2>1, <2>2 DEF Fleet
<1>3. MainTypeOK' /\ Stopping'
  BY <1>1, <1>2 DEF MainTypeOK, Stopping
<1>4. Launching'
  BY <1>1, <1>2 DEF Launching, Alive
<1>5. Adopting'
  BY <1>1, <1>2 DEF Adopting
<1>6. ExitIsClean' /\ MarkerMeansLaunched'
  BY <1>1, <1>2 DEF Launching, Alive, ExitIsClean, MarkerMeansLaunched
<1>. QED BY <1>3, <1>4, <1>5, <1>6

LEMMA StartInv == ASSUME ProcessInv, StartFleet PROVE MainInv'
<1> USE DEF ProcessInv, MainInv
<1>1. /\ run = "start" /\ run' = "launch" /\ exit = "none" /\ exit' = "none"
      /\ UNCHANGED <<code, marker, adopts, wanted, boots, adopter, at, outcome>>
      /\ UNCHANGED <<members, loop, stopper, parent>>
      /\ started' = TRUE /\ Alive
  BY DEF StartFleet, Outside, clientVars, Start, stopVars, Alive
<1>2. MainTypeOK' /\ Stopping'
  BY <1>1 DEF MainTypeOK, Stopping
<1>3. Launching'
  BY <1>1 DEF Launching, Alive
<1>4. Adopting' /\ ExitIsClean' /\ MarkerMeansLaunched'
  BY <1>1 DEF Adopting, ExitIsClean, MarkerMeansLaunched
<1>. QED BY <1>2, <1>3, <1>4

LEMMA FleetStepInv == ASSUME ProcessInv, FleetStep PROVE MainInv'
<1> USE DEF ProcessInv, MainInv
<1>1. /\ UNCHANGED <<run, code, exit, marker, adopts, wanted, boots, adopter, at, outcome>>
      /\ UNCHANGED <<members, started, stopper, parent>> /\ Alive
  BY DEF FleetStep, Launch, Return, stopVars, mainVars, Outside, clientVars
<1>2. PICK d \in Addresses : Launch(d) \/ Return(d)
  BY DEF FleetStep
<1>3. loop \in [Addresses -> {"none", "running", "returned"}]
  BY DEF IndInv, FleetTypeOK
<1>4. run \notin {"settings", "fleet", "start"}
  BY <1>2 DEF Launching, Launch, Return
<1>5. todo' \subseteq todo /\ \A e \in Addresses : loop[e] # "none" => loop'[e] # "none"
  BY <1>2, <1>3 DEF Launch, Return
<1>6. MainTypeOK' /\ Launching' /\ Adopting'
  BY <1>1, <1>4 DEF MainTypeOK, Launching, Adopting, Alive
<1>7. Stopping'
  <2>1. CASE Launch(d)
    BY <1>1, <2>1 DEF Stopping, Launch
  <2>2. CASE Return(d)
    BY <1>1, <1>3, <2>2 DEF Stopping, Return
  <2>. QED BY <1>2, <2>1, <2>2
<1>8. ExitIsClean' /\ MarkerMeansLaunched'
  BY <1>1, <1>5 DEF ExitIsClean, MarkerMeansLaunched, Alive
<1>. QED BY <1>6, <1>7, <1>8

\* The marker is written behind Start's lock, which it held until the last
\* loop was launched.
LEMMA ReadyInv == ASSUME ProcessInv, writeReady PROVE MainInv'
<1> USE DEF ProcessInv, MainInv
<1>1. /\ run = "launch" /\ exit = "none" /\ todo = {}
      /\ UNCHANGED <<exit, adopts, wanted, boots, adopter, at, outcome, fleetVars>>
      /\ \/ marker' = TRUE /\ run' = (IF adopts THEN "adopt" ELSE "wait") /\ code' = code
         \/ code' = "failed" /\ run' = "stop" /\ marker' = marker
  BY DEF writeReady, Unlocked, Alive, Outside, clientVars
<1>2. \A d \in Addresses : loop[d] # "none"
  BY <1>1 DEF Launching, IndInv, Launched
<1>3. run' \in {"adopt", "wait", "stop"} /\ (run' = "wait" => ~adopts)
  BY <1>1
<1>4. MainTypeOK' /\ Launching'
  BY <1>1, <1>3 DEF MainTypeOK, Launching
<1>5. Stopping'
  BY <1>1 DEF Stopping, fleetVars, stopVars
<1>6. Adopting'
  BY <1>1, <1>3 DEF Adopting
<1>7. ExitIsClean' /\ MarkerMeansLaunched'
  BY <1>1, <1>2 DEF ExitIsClean, MarkerMeansLaunched, fleetVars
<1>. QED BY <1>4, <1>5, <1>6, <1>7

\* The end of the adoption, and the signal run() waits for.
LEMMA EndOfWaitInv ==
  ASSUME ProcessInv, AdoptedOrNot \/ AwaitSignal
  PROVE  MainInv'
<1> USE DEF ProcessInv, MainInv
<1>1. /\ run \in {"adopt", "wait"} /\ exit = "none"
      /\ UNCHANGED <<exit, marker, adopts, wanted, boots, adopter, at, outcome, fleetVars>>
      /\ \/ run' = "wait" /\ outcome = "connected" /\ code' = code
         \/ run' = "stop" /\ code' = IF parent THEN "ok" ELSE "failed"
  BY DEF AdoptedOrNot, AwaitSignal, Alive, Outside, clientVars
<1>2. MainTypeOK' /\ Launching' /\ Adopting'
  BY <1>1 DEF MainTypeOK, Launching, Adopting
<1>3. Stopping'
  BY <1>1 DEF Stopping, fleetVars, stopVars
<1>4. ExitIsClean' /\ MarkerMeansLaunched'
  BY <1>1 DEF ExitIsClean, MarkerMeansLaunched, fleetVars
<1>. QED BY <1>2, <1>3, <1>4

\* Stop cannot lock e.mu while Start still launches, and waits for every loop.
LEMMA StopFleetInv == ASSUME ProcessInv, StopFleet PROVE MainInv'
<1> USE DEF ProcessInv, MainInv
<1>1. /\ run = "stop" /\ exit = "none"
      /\ UNCHANGED <<mainVars, adopter, at, outcome>>
      /\ UNCHANGED <<members, todo, loop, started, parent>>
  BY DEF StopFleet, StopTake, StopCancel, StopWait, Alive, Outside, clientVars, mainVars
<1>2. stopper \in [Callers -> {"idle", "cancel", "wait", "over"}] /\ Main \in Callers
  BY MainAssumption DEF IndInv, FleetTypeOK
<1>3. /\ stopper'[Main] # "idle" => todo = {}
      /\ stopper'[Main] = "over" => \A d \in Addresses : loop[d] # "running"
  <2>1. CASE StopTake(Main)
    BY <1>2, <2>1 DEF StopTake, Unlocked
  <2>2. CASE StopCancel(Main)
    BY <1>2, <2>2 DEF StopCancel, Stopping
  <2>3. CASE StopWait(Main)
    BY <1>2, <2>3 DEF StopWait, Stopping
  <2>. QED BY <2>1, <2>2, <2>3 DEF StopFleet
<1>4. MainTypeOK' /\ Launching' /\ Adopting'
  BY <1>1 DEF MainTypeOK, Launching, Adopting, Alive, mainVars
<1>5. Stopping'
  BY <1>1, <1>3 DEF Stopping, mainVars
<1>6. ExitIsClean' /\ MarkerMeansLaunched'
  BY <1>1 DEF ExitIsClean, MarkerMeansLaunched, mainVars
<1>. QED BY <1>4, <1>5, <1>6

LEMMA LeaveMain == ASSUME ProcessInv, Leave \/ Kill PROVE MainInv'
<1> USE DEF ProcessInv, MainInv
<1>1. /\ UNCHANGED <<run, code, marker, adopts, wanted, boots, adopter, at, outcome>>
      /\ UNCHANGED <<members, todo, loop, started, stopper, parent>>
      /\ \/ exit' = "killed"
         \/ stopper[Main] = "over" /\ exit' = code
  BY DEF Leave, Kill, Exit, Outside, clientVars, fleetVars, stopVars
<1>2. exit = "none"
  BY DEF Leave, Kill, Alive
<1>3. MainTypeOK' /\ Launching' /\ Stopping' /\ Adopting'
  BY <1>1, <1>2 DEF MainTypeOK, Launching, Stopping, Adopting, Alive
<1>4. ExitIsClean' /\ MarkerMeansLaunched'
  BY <1>1 DEF Stopping, ExitIsClean, MarkerMeansLaunched
<1>. QED BY <1>3, <1>4

LEMMA SignalInv == ASSUME ProcessInv, Signal PROVE MainInv'
<1> USE DEF ProcessInv, MainInv
<1>1. /\ UNCHANGED <<run, code, marker, adopts, wanted, boots, adopter, at, outcome>>
      /\ exit = "none" /\ exit' \in {"none", "killed"}
      /\ UNCHANGED <<members, todo, loop, started, stopper>>
      /\ parent' = parent \/ parent' = TRUE
  BY DEF Signal, Exit, Alive, clientVars, ParentDone, fleetVars, stopVars
<1>2. MainTypeOK' /\ Launching' /\ Adopting'
  BY <1>1 DEF MainTypeOK, Launching, Adopting, Alive
<1>3. Stopping' /\ ExitIsClean' /\ MarkerMeansLaunched'
  BY <1>1 DEF Stopping, ExitIsClean, MarkerMeansLaunched
<1>. QED BY <1>2, <1>3

LEMMA RestartMain == ASSUME ProcessInv, Restart PROVE MainInv'
<1> USE DEF ProcessInv, MainInv
<1>1. /\ run # "settings" /\ run' = "fleet" /\ code' = "none" /\ exit' = "none"
      /\ boots' = boots + 1 /\ boots \in Nat
      /\ UNCHANGED <<adopts, wanted, adopter>>
      /\ members' = {} /\ todo' = {}
      /\ loop' = [d \in Addresses |-> "none"]
      /\ stopper' = [c \in Callers |-> "idle"]
  BY DEF Restart, NewFleet, MainTypeOK
<1>2. stopper'[Main] = "idle" /\ \A d \in Addresses : loop'[d] = "none"
  BY <1>1, MainAssumption
<1>3. MainTypeOK' /\ Launching' /\ Adopting'
  BY <1>1, <1>2 DEF MainTypeOK, Launching, Adopting
<1>4. Stopping' /\ ExitIsClean' /\ MarkerMeansLaunched'
  BY <1>1, <1>2 DEF Stopping, ExitIsClean, MarkerMeansLaunched
<1>. QED BY <1>3, <1>4

LEMMA ClientRunInv == ASSUME ProcessInv, runAdopt \/ Controller PROVE MainInv'
<1>1. UNCHANGED <<mainVars, fleetVars, adopter>>
  BY DEF runAdopt, ClientStep, Controller, Boots, Hears, Misses, BeginLogin, LoginReply,
         LoginCut, ReadReply, ReadCut, AdoptReply, AdoptCut, ReplyLost, Tick, GiveUp,
         Diagnosed, Expire, Steady, clientVars
<1>2. CASE Controller
  BY <1>1, <1>2, RunInv DEF Controller, Boots, Hears, Misses, clientVars
<1>3. CASE runAdopt
  <2>1. run # "settings"
    BY <1>3 DEF runAdopt, ProcessInv, MainInv, MainTypeOK, Adopting
  <2>2. run = "adopt" \/ adopter # "cli"
    BY <1>3 DEF runAdopt
  <2>. QED BY <1>1, <2>1, <2>2, RunInv
<1>. QED BY <1>2, <1>3

\* The invariant is inductive.
LEMMA StepProcess == ProcessInv /\ [Next]_vars => ProcessInv'
<1> SUFFICES ASSUME ProcessInv, [Next]_vars PROVE ProcessInv'
  OBVIOUS
<1>1. IndInv' /\ ClientInv'
  BY FleetInv, ClientInside DEF ProcessInv, MainInv, Adopting
<1>2. MainInv'
  <2>1. CASE UNCHANGED vars
    BY <2>1, RunInv DEF vars, adoptVars, clientVars
  <2>. QED BY <2>1, SettingsInv, FleetMain, StartInv, FleetStepInv, ReadyInv, EndOfWaitInv,
              StopFleetInv, LeaveMain, SignalInv, RestartMain, ClientRunInv
           DEF Next
<1>. QED BY <1>1, <1>2 DEF ProcessInv

\* Hence it always holds.
LEMMA AlwaysProcess == Spec => []ProcessInv
  BY InitProcess, StepProcess, PTL DEF Spec

-----------------------------------------------------------------------------
(* Theorems.                                                               *)

\* Fleet succeeds only when the controller has had every device of the fleet
\* connected since this client began, in any order of boots, informs, lost
\* replies and restarts (fleet.go, Fleet; client.go, WaitAdopted).
THEOREM SuccessMeansConnected == Spec => []AllConnected
<1>1. ProcessInv => AllConnected
  BY DEF ProcessInv, ClientInv
<1>. QED BY <1>1, AlwaysProcess, PTL

\* An adopt is sent only when the ones before it have completed, lost replies
\* and repeated requests included (fleet.go, Fleet's loop).
THEOREM NeverABurst == Spec => []OneAtATime
<1>1. ProcessInv => OneAtATime
  BY DEF ProcessInv, ClientInv
<1>. QED BY <1>1, AlwaysProcess, PTL

\* What the client reports is what it was told: of the placeholder, of a refused
\* login or adopt, of a token lost with its reply (client.go, Login; fleet.go,
\* adoptWithRetry).
THEOREM ReportsTruthfully == Spec => []DiagnosisTruthful
<1>1. ProcessInv => DiagnosisTruthful
  BY DEF ProcessInv, ClientInv
<1>. QED BY <1>1, AlwaysProcess, PTL

\* The process leaves by itself only with every loop ended, and with success only
\* when it was told to stop (main.go, run and its deferred Stop).
THEOREM AlwaysCleanExit == Spec => []ExitIsClean
<1>1. ProcessInv => ExitIsClean
  BY DEF ProcessInv, MainInv
<1>. QED BY <1>1, AlwaysProcess, PTL

\* Before the first restart, the marker stands only when every device of the
\* fleet has been launched (main.go, writeReady behind Start).
THEOREM ReadyMeansLaunched == Spec => []MarkerMeansLaunched
<1>1. ProcessInv => MarkerMeansLaunched
  BY DEF ProcessInv, MainInv
<1>. QED BY <1>1, AlwaysProcess, PTL

\* A process whose settings ask for adoption waits for its signal only with the
\* fleet adopted (adopt.go, resolveAdopt; main.go, run).
THEOREM AskedMeansAdopted == Spec => []NeverSilentlyPending
<1>1. ProcessInv => NeverSilentlyPending
  BY DEF ProcessInv, MainInv, Adopting, NeverSilentlyPending
<1>. QED BY <1>1, AlwaysProcess, PTL
=============================================================================
