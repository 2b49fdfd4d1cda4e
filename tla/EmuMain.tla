------------------------------ MODULE EmuMain ------------------------------
(***************************************************************************)
(* The unifi-emu process (cmd/unifi-emu/main.go, adopt.go) in a container  *)
(* that may be killed and restarted: it reads its settings, builds and     *)
(* starts the fleet, leaves the readiness marker, adopts the fleet if it   *)
(* is told to, waits for a signal, and stops the fleet on the way out.     *)
(*                                                                         *)
(* AdoptFleet's client is either this process or, as in the integration    *)
(* tests, a harness outside that waits for the marker.                     *)
(***************************************************************************)
EXTENDS EmuFleet, AdoptFleet

CONSTANTS
  Main,        \* the process's main goroutine, the only one to call Stop
  None,        \* a setting that is empty
  MaxBoots     \* bound: restarts of the container

\* The addresses to adopt are taken from the list Add has accepted, so a list it
\* would accept whole is a list of just these.
ASSUME MainAssumption ==
  /\ Callers = {Main}
  /\ Addresses = Macs
  /\ Order \in Lists
  /\ \A list \in Lists :
       (\A j \in DOMAIN list :
          list[j] # Refused /\ \A i \in 1 .. j - 1 : list[i] # list[j])
         => {list[j] : j \in DOMAIN list} = Macs

VARIABLES
  run,         \* where run() is
  code,        \* what it is about to return
  exit,        \* how the process ended, "none" while it runs
  marker,      \* the readiness marker exists; the container's disk keeps it
  adopts,      \* adoptConfig.enabled
  wanted,      \* history: the settings ask for adoption
  boots        \* restarts so far

mainVars == <<run, code, exit, marker, adopts, wanted, boots>>
vars == <<fleetVars, adoptVars, mainVars>>

-----------------------------------------------------------------------------
(* The adopt settings, with an explicit flag already put over its variable. *)

AdoptSettings ==
  [enabled : BOOLEAN, enabledExplicit : BOOLEAN, url : {None, "443", "other"},
   username : {None, "name"}, password : {None, "secret"},
   passwordFile : {None, "secret", "blank", "unreadable"},
   timeout : {"positive", "not"}, dialect : {None, "classic", "unifios", "typo"}]

\* The settings that count as asking for adoption; the site and the timeout have
\* defaults and do not.
settingsPresent(s) ==
  \E f \in {"url", "dialect", "username", "password", "passwordFile"} : s[f] # None

\* The file, when there is one, is the password.
PasswordUsable(s) == "secret" \in {s.passwordFile} \cup ({s.password} \cap
                        (IF s.passwordFile = None THEN {"secret"} ELSE {}))

\* "classic" and "unifios", or a guess from the port.
ResolvedDialect(s) ==
  IF s.dialect # None THEN s.dialect
  ELSE IF s.url = "443" THEN "unifios" ELSE "classic"

\* Faulty variant: forgetting the switch goes unnoticed.
resolveAdoptQuietly(s) ==
  IF ~s.enabled THEN "off"
  ELSE IF /\ None \notin {s.url, s.username} /\ PasswordUsable(s)
          /\ s.timeout = "positive" /\ s.dialect # "typo"
  THEN ResolvedDialect(s) ELSE "refused"

\* The dialect to adopt with, "off" or "refused".
resolveAdopt(s) ==
  IF ~s.enabled
  THEN IF settingsPresent(s) /\ ~s.enabledExplicit THEN "refused" ELSE "off"
  ELSE IF /\ None \notin {s.url, s.username} /\ PasswordUsable(s)
          /\ s.timeout = "positive" /\ s.dialect # "typo"
  THEN ResolvedDialect(s) ELSE "refused"

Wants(s) == s.enabled \/ (settingsPresent(s) /\ ~s.enabledExplicit)

-----------------------------------------------------------------------------
Init ==
  /\ FleetInit /\ positive      \* main keeps the default interval
  /\ AdoptInit
  /\ run = "settings" /\ code = "none" /\ exit = "none"
  /\ adopts = FALSE /\ wanted = FALSE
  /\ marker = FALSE
  /\ boots = 0

Alive == exit = "none"

\* The process ends, and every goroutine with it.
Exit(c) == exit' = c /\ alive' = FALSE

Outside == UNCHANGED <<boot, docs, clientVars, expired, interrupted, adoptHistory>>

Settings ==
  /\ run = "settings" /\ Alive
  /\ \E s \in AdoptSettings :
       /\ adopter = "harness" => ~Wants(s)
       /\ wanted' = Wants(s)
       /\ \/ resolveAdopt(s) = "refused" /\ Exit("failed") /\ UNCHANGED <<run, adopts, dialect>>
          \/ /\ resolveAdopt(s) # "refused"
             /\ run' = "fleet"
             /\ adopts' = (resolveAdopt(s) # "off")
             /\ dialect' = IF resolveAdopt(s) = "off" THEN dialect ELSE resolveAdopt(s)
             /\ UNCHANGED <<exit, alive>>
  /\ UNCHANGED <<code, marker, boots, fleetVars, boot, docs, adopter, at, k, placeholder,
                 fresh, seen, outcome, expired, interrupted, adoptHistory>>

\* The device list and the inform URL (FleetSpecs), and Add.
Fleet ==
  /\ run = "fleet" /\ Alive
  /\ \/ /\ \E list \in Lists :
             /\ Add(list)
             /\ IF Accepted(list) = DOMAIN list
                THEN run' = "start" /\ UNCHANGED <<exit, alive>>
                ELSE Exit("failed") /\ UNCHANGED run
     \/ Exit("failed") /\ UNCHANGED <<run, fleetVars>>
  /\ UNCHANGED <<code, marker, adopts, wanted, boots>> /\ Outside

StartFleet ==
  /\ run = "start" /\ Alive
  /\ Start
  /\ run' = "launch"
  /\ UNCHANGED <<code, exit, alive, marker, adopts, wanted, boots>> /\ Outside

\* The fleet's own goroutines.
FleetStep ==
  /\ Alive
  /\ \E d \in Addresses : Launch(d) \/ Return(d)
  /\ UNCHANGED <<mainVars, alive>> /\ Outside

\* Faulty variant: the marker is there before the fleet is.
writeReadyEarly ==
  /\ run = "launch" /\ Alive
  /\ \/ marker' = TRUE /\ run' = (IF adopts THEN "adopt" ELSE "wait") /\ UNCHANGED code
     \/ code' = "failed" /\ run' = "stop" /\ UNCHANGED marker
  /\ UNCHANGED <<fleetVars, exit, alive, adopts, wanted, boots>> /\ Outside

writeReady ==
  /\ run = "launch" /\ Alive
  /\ Unlocked
  /\ \/ marker' = TRUE /\ run' = (IF adopts THEN "adopt" ELSE "wait") /\ UNCHANGED code
     \/ code' = "failed" /\ run' = "stop" /\ UNCHANGED marker
  /\ UNCHANGED <<fleetVars, exit, alive, adopts, wanted, boots>> /\ Outside

\* The client, in this process or outside.
runAdopt ==
  /\ adopter = "cli" => run = "adopt" /\ Alive
  /\ adopter = "harness" => marker
  /\ ClientStep
  /\ UNCHANGED <<fleetVars, mainVars>>

\* Faulty variant: log.Fatal.
AdoptedOrFatal ==
  /\ run = "adopt" /\ Alive
  /\ at = "done"
  /\ IF outcome = "connected" THEN run' = "wait" /\ UNCHANGED <<exit, alive>>
     ELSE Exit(IF parent THEN "ok" ELSE "failed") /\ UNCHANGED run
  /\ UNCHANGED <<fleetVars, code, marker, adopts, wanted, boots>> /\ Outside

\* A signal during adoption is a shutdown, anything else a failure.
AdoptedOrNot ==
  /\ run = "adopt" /\ Alive
  /\ at = "done"
  /\ IF outcome = "connected" THEN run' = "wait" /\ UNCHANGED code
     ELSE run' = "stop" /\ code' = IF parent THEN "ok" ELSE "failed"
  /\ UNCHANGED <<fleetVars, exit, alive, marker, adopts, wanted, boots>> /\ Outside

AwaitSignal ==
  /\ run = "wait" /\ Alive
  /\ parent
  /\ run' = "stop"
  /\ code' = "ok"
  /\ UNCHANGED <<fleetVars, exit, alive, marker, adopts, wanted, boots>> /\ Outside

\* The deferred Stop.
StopFleet ==
  /\ run = "stop" /\ Alive
  /\ \/ stopper[Main] = "idle" /\ StopTake(Main)
     \/ StopCancel(Main)
     \/ StopWait(Main)
  /\ UNCHANGED <<mainVars, alive>> /\ Outside

Leave ==
  /\ run = "stop" /\ Alive
  /\ stopper[Main] = "over"
  /\ Exit(code)
  /\ UNCHANGED <<fleetVars, run, code, marker, adopts, wanted, boots>> /\ Outside

\* SIGINT or SIGTERM: before NotifyContext it ends the process.  The harness
\* stops its container when it is done with it.
Signal ==
  /\ Alive
  /\ adopter = "harness" => at = "done"
  /\ IF run \in {"settings", "fleet"}
     THEN Exit("killed") /\ UNCHANGED <<fleetVars, interrupted>>
     ELSE /\ ParentDone
          /\ interrupted' = (adopter = "cli")
          /\ UNCHANGED <<exit, alive>>
  /\ UNCHANGED <<run, code, marker, adopts, wanted, boots>>
  /\ UNCHANGED <<boot, docs, clientVars, expired, adoptHistory>>

\* The end of a container that is not restarted.
Kill ==
  /\ Alive
  /\ adopter = "harness"
  /\ Exit("killed")
  /\ UNCHANGED <<fleetVars, run, code, marker, adopts, wanted, boots>> /\ Outside

NewFleet ==
  /\ members' = {} /\ todo' = {}
  /\ started' = FALSE /\ holds' = FALSE /\ parent' = FALSE /\ derived' = FALSE
  /\ loop' = [d \in Addresses |-> "none"]
  /\ stopper' = [c \in Callers |-> "idle"]
  /\ took' = [c \in Callers |-> FALSE] /\ late' = [c \in Callers |-> FALSE]

NewClient ==
  /\ at' = "idle" /\ k' = 1 /\ seen' = FALSE /\ outcome' = "none"
  /\ placeholder' = FALSE /\ fresh' = FALSE
  /\ expired' = FALSE /\ interrupted' = FALSE /\ alive' = TRUE
  /\ told' = {} /\ landed' = {}

\* The container is started again, after its process ended or was killed at any
\* point: a new process, the same disk, the same environment, and a controller
\* that has not noticed.
Restart ==
  /\ adopter = "cli"
  /\ boots < MaxBoots
  /\ run # "settings"
  /\ boots' = boots + 1
  /\ NewFleet
  /\ NewClient
  /\ run' = "fleet" /\ code' = "none" /\ exit' = "none"
  /\ connected' = {d \in Macs : docs[d] = "connected"}
  /\ UNCHANGED <<boot, docs, adopter, dialect, positive, marker, adopts, wanted>>

Informing(d) == Alive /\ loop[d] = "running"

Controller ==
  /\ \/ Boots
     \/ \E d \in Macs : (Informing(d) /\ Hears(d)) \/ (~Informing(d) /\ Misses(d))
  /\ UNCHANGED <<fleetVars, mainVars>>

Next ==
  \/ Settings \/ Fleet \/ StartFleet \/ FleetStep \/ writeReady
  \/ runAdopt \/ AdoptedOrNot \/ AwaitSignal
  \/ StopFleet \/ Leave
  \/ Signal \/ Kill \/ Restart
  \/ Controller

\* A request is answered or cut off, a timer fires, and a select that keeps
\* finding the context done takes that case; a controller that keeps being asked
\* for a document says in the end what it has.
Fairness ==
  /\ WF_vars(runAdopt /\ (LoginCut \/ ReadCut \/ AdoptReply \/ AdoptCut \/ Tick \/ Diagnosed))
  /\ SF_vars(runAdopt /\ GiveUp)
  /\ SF_vars(runAdopt /\ \E r \in Reads : Settle(r) /\ Settled(r))
  /\ WF_vars(runAdopt /\ \E r \in Reads : ReadReply(r))

Spec == Init /\ [][Next]_vars /\ Fairness

-----------------------------------------------------------------------------
(* Properties. *)

\* The process never leaves by itself while a device informs, and reports success
\* only when it was told to stop (main.go, run: "a failed adoption can stop the
\* fleet on the way out").
ExitIsClean ==
  exit \in {"ok", "failed"} =>
    /\ \A d \in Addresses : loop[d] # "running"
    /\ exit = "ok" => parent

\* In a container that was never restarted, the marker means that every device of
\* the fleet was launched (main.go, run: "every device in the fleet has an inform
\* loop running, which is the whole of what ready claims").
MarkerMeansLaunched == boots = 0 /\ marker => \A d \in Addresses : loop[d] # "none"

\* Whoever set anything that only adoption needs does not get a fleet that sits
\* there pending: it is adopted, or the process ends (adopt.go, resolveAdopt: "a
\* container that informs but silently never adopts is indistinguishable from one
\* that is merely slow").
NeverSilentlyPending ==
  run = "wait" /\ wanted /\ adopter = "cli" => outcome = "connected"
=============================================================================
