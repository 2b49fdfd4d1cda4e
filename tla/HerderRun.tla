------------------------------ MODULE HerderRun ------------------------------
(***************************************************************************)
(* One run of unifi-emu-herder (internal/herder/run.go): validation, the   *)
(* concurrent launch and health wait of the device containers, inspection, *)
(* the ready event, the runtime monitor, and the one cleanup path, while   *)
(* signals arrive, the caller gives up, the startup deadline passes,       *)
(* stdout breaks, containers crash or are meddled with, and any Docker     *)
(* call may fail.                                                          *)
(*                                                                         *)
(* The main goroutine is pc.  The goroutines start and cleanup spawn per   *)
(* unit are the functions launch, health and removal.  The Docker daemon   *)
(* and the containers are external.                                        *)
(***************************************************************************)
EXTENDS Naturals, Sequences

CONSTANTS
  Units,               \* number of planned containers
  DockerFailureLimit,  \* inspect failures that mean the daemon is gone
  MaxBoots,            \* bound: how often one container may be started
  Restartable,         \* bound: the containers somebody may start again
  None                 \* no value yet

ASSUME HerderAssumption ==
  /\ Units \in Nat \ {0}
  /\ DockerFailureLimit \in Nat \ {0}
  /\ MaxBoots \in Nat \ {0}

Unit == 1 .. Units

VARIABLES
  pc,           \* where the main goroutine is
  step,         \* the validation step it is at
  unit,         \* the unit an inspection loop is at
  phase,        \* run.phase
  startCtx,     \* the startup context: "live", "canceled" or "deadline"
  callerDone,   \* the caller has cancelled the context it gave to Run
  stopped,      \* run.stopped: a signal asked for it
  launch,       \* per unit: Backend.Launch
  health,       \* per unit: Backend.WaitHealthy
  recorded,     \* run.units: units with a handle to terminate
  baseline,     \* per unit: the start Inspect saw before ready
  consecutive,  \* monitor's count of inspect failures
  outcome,      \* what finish is called with
  removal,      \* per unit: Instance.Terminate
  broken,       \* Writer.broken
  events,       \* events written to stdout
  report,       \* code and phase of the failed event, reason of the stopped one
  exit,         \* exit status
  cont,         \* external: each container
  boots,        \* external: how often it was started (StartedAt)
  attached,     \* external: it is on the caller's network and no other
  streak        \* history: inspect failures since the last success

ctxVars == <<startCtx, callerDone, stopped>>
workVars == <<launch, health, recorded, unit, baseline, consecutive>>
outVars == <<broken, events, report, exit>>
worldVars == <<cont, boots, attached>>
vars == <<pc, step, phase, startCtx, callerDone, stopped, launch, health,
          recorded, unit, baseline, consecutive, outcome, removal, broken, events,
          report, exit, cont, boots, attached, streak>>

-----------------------------------------------------------------------------
(* Errors.  An error is the Failure it carries and what a context error in *)
(* its chain says, if there is one.                                        *)

Error(code, ph, chain) == [code |-> code, phase |-> ph, chain |-> chain]
Failure(code, ph) == [kind |-> "failure", code |-> code, phase |-> ph]
Stop == [kind |-> "stop"]
Reason(why) == [kind |-> "stopped", reason |-> why]

\* What a per-unit goroutine is doing, whether it has handed a container handle
\* back, and the error it returned.
Call(at, handle, e) == [at |-> at, handle |-> handle, error |-> e]

\* Faulty variant: whatever failed, a done context explains it.
ClassifyByContextAlone(ctx, e, ph) ==
  IF ctx = "live" THEN Failure(e.code, e.phase)
  ELSE IF ctx = "deadline" THEN Failure("startup_timeout", ph) ELSE Stop

\* A context outcome wins only if the context is done and is what ended the
\* operation; a Failure in the chain keeps its own code and phase.
Classify(ctx, e, ph) ==
  IF ctx = "live" \/ e.chain # ctx THEN Failure(e.code, e.phase)
  ELSE IF ctx = "deadline" THEN Failure("startup_timeout", ph) ELSE Stop

\* ctx.Err() itself, checked between two operations.
ContextOutcome(ctx, ph) ==
  IF ctx = "deadline" THEN Failure("startup_timeout", ph) ELSE Stop

\* The errors an operation under ctx may return, on top of its own failures:
\* one that wraps the context's error once the context is done.
Chains(ctx) == {"none"} \cup ({ctx} \ {"live"})

\* Faulty variant: the docker_unavailable row lists runtime only.
PhasesOfMissingRows(code) ==
  CASE code = "docker_unavailable" -> {"runtime"}
    [] OTHER -> {"validate", "pull", "start", "health", "runtime", "cleanup"}

\* protocol.go, codeMatrix.
PhasesOf(code) ==
  CASE code \in {"invalid_request", "invalid_runtime_config", "network_not_found",
                 "inform_url_invalid", "docker_version_unsupported",
                 "reaper_disabled", "synthetic_model_unknown",
                 "synthetic_image_required", "capability_unsupported"}
         -> {"validate"}
    [] code \in {"image_pull_failed", "image_invalid"} -> {"pull"}
    [] code = "startup_timeout" -> {"validate", "pull", "start", "health"}
    [] code \in {"container_start_failed", "endpoint_mac_mismatch"} -> {"start"}
    [] code \in {"device_unhealthy", "device_exited"} -> {"health", "runtime"}
    [] code \in {"device_restarted", "network_detached"} -> {"runtime"}
    [] code = "docker_unavailable"
         -> {"validate", "pull", "start", "health", "runtime"}
    [] OTHER -> {"cleanup"}

\* run.validate, in order.  Steps that talk to the daemon take the startup
\* context.
ValidateSteps == <<
  [codes |-> {"docker_unavailable"}, phase |-> "validate", ctx |-> TRUE],
  [codes |-> {"invalid_request"}, phase |-> "validate", ctx |-> FALSE],
  [codes |-> {"invalid_runtime_config"}, phase |-> "validate", ctx |-> FALSE],
  [codes |-> {"invalid_request"}, phase |-> "validate", ctx |-> FALSE],
  [codes |-> {"inform_url_invalid"}, phase |-> "validate", ctx |-> FALSE],
  [codes |-> {"reaper_disabled"}, phase |-> "validate", ctx |-> FALSE],
  [codes |-> {"docker_unavailable", "docker_version_unsupported"},
   phase |-> "validate", ctx |-> TRUE],
  [codes |-> {"network_not_found"}, phase |-> "validate", ctx |-> TRUE],
  [codes |-> {"synthetic_model_unknown", "synthetic_image_required"},
   phase |-> "validate", ctx |-> FALSE],
  [codes |-> {"docker_unavailable", "capability_unsupported"},
   phase |-> "validate", ctx |-> TRUE],
  [codes |-> {"image_pull_failed", "image_invalid", "startup_timeout"},
   phase |-> "pull", ctx |-> TRUE] >>

RequestStep == 2

-----------------------------------------------------------------------------
Init ==
  /\ pc = "begin"
  /\ step = 1
  /\ phase = "validate"
  /\ startCtx = "live"
  /\ callerDone = FALSE
  /\ stopped = FALSE
  /\ launch = [u \in Unit |-> Call("idle", FALSE, None)]
  /\ health = [u \in Unit |-> Call("idle", FALSE, None)]
  /\ recorded = {}
  /\ unit = 1
  /\ baseline = [u \in Unit |-> 0]
  /\ consecutive = 0
  /\ outcome = None
  /\ removal = [u \in Unit |-> "idle"]
  /\ broken = FALSE
  /\ events = <<>>
  /\ report = None
  /\ exit = "none"
  /\ cont = [u \in Unit |-> "absent"]
  /\ boots = [u \in Unit |-> 0]
  /\ attached = [u \in Unit |-> FALSE]
  /\ streak = 0

Running == exit = "none"

\* Every path out of validate, start and monitor leads into finish.
Finish(o) == outcome' = o /\ pc' = "cleanup"

-----------------------------------------------------------------------------
(* Contexts and signals. *)

\* The signal context is done: a signal ended it, or its parent's end did.
cancelled == stopped \/ callerDone

CancelStart == startCtx' = IF startCtx = "live" THEN "canceled" ELSE startCtx

ContextStep == UNCHANGED <<pc, step, phase, outcome, removal, streak>>
               /\ UNCHANGED <<workVars, outVars, worldVars>>

\* watchSignals takes the first stop signal; later ones change nothing.  Once
\* the caller's context is done, its select may still take one first.
Signal ==
  /\ Running /\ pc # "begin"
  /\ ~stopped
  /\ stopped' = TRUE
  /\ CancelStart
  /\ UNCHANGED callerDone
  /\ ContextStep

\* The caller cancels the context that both others are made from.
CallerCancels ==
  /\ Running /\ pc # "begin"
  /\ ~callerDone
  /\ callerDone' = TRUE
  /\ CancelStart
  /\ UNCHANGED stopped
  /\ ContextStep

\* The startup deadline passes.  It ends the startup context only.
DeadlinePasses ==
  /\ Running /\ pc # "begin"
  /\ startCtx = "live"
  /\ startCtx' = "deadline"
  /\ UNCHANGED <<callerDone, stopped>>
  /\ ContextStep

-----------------------------------------------------------------------------
(* execute and validate. *)

\* started is flushed before anything else; if stdout is already gone the run
\* is over and nothing was created.
EmitStarted ==
  /\ pc = "begin"
  /\ \/ /\ events' = <<"started">>
        /\ pc' = "validate"
        /\ UNCHANGED <<broken, exit>>
     \/ /\ broken' = TRUE
        /\ exit' = "1"
        /\ pc' = "done"
        /\ UNCHANGED events
  /\ UNCHANGED <<step, phase, outcome, removal, report, streak>>
  /\ UNCHANGED <<ctxVars, workVars, worldVars>>

LastStep == Len(ValidateSteps)

ValidatePasses ==
  /\ pc = "validate"
  /\ step < LastStep
  /\ step' = step + 1
  /\ phase' = ValidateSteps[step'].phase
  /\ UNCHANGED <<pc, outcome, removal, streak>>
  /\ UNCHANGED <<ctxVars, workVars, outVars, worldVars>>

ValidateFails ==
  /\ pc = "validate"
  /\ LET s == ValidateSteps[step]
         ctx == IF s.ctx THEN startCtx ELSE "live"
     IN  \E code \in s.codes, chain \in Chains(ctx) :
           Finish(Classify(ctx, Error(code, s.phase, chain), s.phase))
  /\ UNCHANGED <<step, phase, removal, streak>>
  /\ UNCHANGED <<ctxVars, workVars, outVars, worldVars>>

\* Every image is there.  The context decides whether start begins at all.
Prepared ==
  /\ pc = "validate"
  /\ step = LastStep
  /\ IF startCtx = "live"
     THEN /\ pc' = "launch"
          /\ phase' = "start"
          /\ launch' = [u \in Unit |-> Call("creating", FALSE, None)]
          /\ UNCHANGED outcome
     ELSE /\ Finish(ContextOutcome(startCtx, "pull"))
          /\ UNCHANGED <<phase, launch>>
  /\ UNCHANGED <<step, removal, streak, health, recorded, unit, baseline, consecutive>>
  /\ UNCHANGED <<ctxVars, outVars, worldVars>>

-----------------------------------------------------------------------------
(* start: Backend.Launch, one goroutine per unit. *)

LaunchErrors ==
  {Error("container_start_failed", "start", c) : c \in Chains(startCtx)}

\* The engine creates the container and the library hands back its handle.
Create(u) ==
  /\ launch[u].at = "creating"
  /\ cont' = [cont EXCEPT ![u] = "created"]
  /\ attached' = [attached EXCEPT ![u] = TRUE]
  /\ launch' = [launch EXCEPT ![u] = Call("starting", TRUE, None)]
  /\ UNCHANGED <<pc, step, phase, outcome, removal, streak, boots>>
  /\ UNCHANGED <<health, recorded, unit, baseline, consecutive>>
  /\ UNCHANGED <<ctxVars, outVars>>

\* Creation fails with no container, with a container and its handle, or with
\* a container and no handle, which is then reclaimed by label.
CreateFails(u) ==
  /\ launch[u].at = "creating"
  /\ \/ /\ \E e \in LaunchErrors :
             launch' = [launch EXCEPT ![u] = Call("returned", FALSE, e)]
        /\ UNCHANGED cont
     \/ /\ \E e \in LaunchErrors :
             launch' = [launch EXCEPT ![u] = Call("returned", TRUE, e)]
        /\ cont' = [cont EXCEPT ![u] = "created"]
     \/ /\ launch' = [launch EXCEPT ![u] = Call("reclaiming", FALSE, None)]
        /\ cont' = [cont EXCEPT ![u] = "created"]
  /\ UNCHANGED <<pc, step, phase, outcome, removal, streak, boots, attached>>
  /\ UNCHANGED <<health, recorded, unit, baseline, consecutive>>
  /\ UNCHANGED <<ctxVars, outVars>>

\* removeUnitContainers, best effort, on a context of its own.
Reclaim(u) ==
  /\ launch[u].at = "reclaiming"
  /\ \E c \in {"absent", "created"} : cont' = [cont EXCEPT ![u] = c]
  /\ \E e \in LaunchErrors :
       launch' = [launch EXCEPT ![u] = Call("returned", FALSE, e)]
  /\ UNCHANGED <<pc, step, phase, outcome, removal, streak, boots, attached>>
  /\ UNCHANGED <<health, recorded, unit, baseline, consecutive>>
  /\ UNCHANGED <<ctxVars, outVars>>

StartContainer(u) ==
  /\ launch[u].at = "starting"
  /\ cont' = [cont EXCEPT ![u] = "starting"]
  /\ boots' = [boots EXCEPT ![u] = @ + 1]
  /\ launch' = [launch EXCEPT ![u] = Call("returned", TRUE, None)]
  /\ UNCHANGED <<pc, step, phase, outcome, removal, streak, attached>>
  /\ UNCHANGED <<health, recorded, unit, baseline, consecutive>>
  /\ UNCHANGED <<ctxVars, outVars>>

StartContainerFails(u) ==
  /\ launch[u].at = "starting"
  /\ \E e \in LaunchErrors :
       launch' = [launch EXCEPT ![u] = Call("returned", TRUE, e)]
  /\ UNCHANGED <<pc, step, phase, outcome, removal, streak>>
  /\ UNCHANGED <<health, recorded, unit, baseline, consecutive>>
  /\ UNCHANGED <<ctxVars, outVars, worldVars>>

Failing(calls) == {u \in Unit : calls[u].error # None}

\* The error that decides: the one of the first failing unit in index order.
FirstError(calls) ==
  calls[CHOOSE u \in Failing(calls) : \A v \in Failing(calls) : u <= v].error

Returned(calls) == \A u \in Unit : calls[u].at = "returned"

\* Faulty variant: a handle returned with an error is dropped.
HandlesOnSuccess == {u \in Unit : launch[u].handle /\ launch[u].error = None}

Handles == {u \in Unit : launch[u].handle}

\* wg.Wait: everything that came up is recorded before a failure is reported.
LaunchJoin ==
  /\ pc = "launch"
  /\ Returned(launch)
  /\ recorded' = Handles
  /\ IF Failing(launch) # {}
     THEN /\ Finish(Classify(startCtx, FirstError(launch), "start"))
          /\ UNCHANGED <<phase, health>>
     ELSE IF startCtx # "live"
     THEN /\ Finish(ContextOutcome(startCtx, "start"))
          /\ UNCHANGED <<phase, health>>
     ELSE /\ pc' = "health"
          /\ phase' = "health"
          /\ health' = [u \in Unit |-> Call("waiting", TRUE, None)]
          /\ UNCHANGED outcome
  /\ UNCHANGED <<step, removal, streak, launch, unit, baseline, consecutive>>
  /\ UNCHANGED <<ctxVars, outVars, worldVars>>

-----------------------------------------------------------------------------
(* start: Backend.WaitHealthy, one goroutine per unit, then the inspections. *)

\* The wait strategy has a deadline of its own, so its error may wrap a
\* deadline while the startup context is still live.
HealthErrors ==
  {Error("device_unhealthy", "health", c) : c \in Chains(startCtx) \cup {"deadline"}}

\* Faulty variant: a wait without any deadline.
WaitHealthyForever(u) ==
  /\ health[u].at = "waiting"
  /\ cont[u] = "healthy"
  /\ health' = [health EXCEPT ![u] = Call("returned", TRUE, None)]
  /\ UNCHANGED <<pc, step, phase, outcome, removal, streak>>
  /\ UNCHANGED <<launch, recorded, unit, baseline, consecutive>>
  /\ UNCHANGED <<ctxVars, outVars, worldVars>>

WaitHealthy(u) ==
  /\ health[u].at = "waiting"
  /\ \/ /\ cont[u] = "healthy"
        /\ health' = [health EXCEPT ![u] = Call("returned", TRUE, None)]
     \/ \E e \in HealthErrors :
          health' = [health EXCEPT ![u] = Call("returned", TRUE, e)]
  /\ UNCHANGED <<pc, step, phase, outcome, removal, streak>>
  /\ UNCHANGED <<launch, recorded, unit, baseline, consecutive>>
  /\ UNCHANGED <<ctxVars, outVars, worldVars>>

HealthJoin ==
  /\ pc = "health"
  /\ Returned(health)
  /\ IF Failing(health) # {}
     THEN Finish(Classify(startCtx, FirstError(health), "health")) /\ UNCHANGED phase
     ELSE IF startCtx # "live"
     THEN Finish(ContextOutcome(startCtx, "health")) /\ UNCHANGED phase
     ELSE pc' = "inspect" /\ phase' = "start" /\ UNCHANGED outcome
  /\ UNCHANGED <<step, removal, streak>>
  /\ UNCHANGED <<workVars, ctxVars, outVars, worldVars>>

Up(u) == cont[u] \in {"starting", "healthy", "unhealthy"}

\* Backend.Inspect labels its own failure with phase runtime, whoever calls.
InspectErrors(ctx) ==
  {Error("docker_unavailable", "runtime", c) : c \in Chains(ctx)}

\* checkAttachment.  A container that is not up has no address.  A port
\* binding or a MAC mismatch can turn up on any container.
Inspect ==
  /\ pc = "inspect"
  /\ \/ /\ \E e \in InspectErrors(startCtx) : Finish(Classify(startCtx, e, "start"))
        /\ UNCHANGED <<unit, baseline>>
     \/ /\ \E code \in {"container_start_failed", "endpoint_mac_mismatch"} :
             Finish(Failure(code, "start"))
        /\ UNCHANGED <<unit, baseline>>
     \/ /\ attached[unit] /\ Up(unit)
        /\ baseline' = [baseline EXCEPT ![unit] = boots[unit]]
        /\ IF unit < Units
           THEN unit' = unit + 1 /\ UNCHANGED <<pc, outcome>>
           ELSE IF startCtx = "live"
           THEN unit' = 1 /\ pc' = "ready" /\ UNCHANGED outcome
           ELSE Finish(ContextOutcome(startCtx, "start")) /\ UNCHANGED unit
  /\ UNCHANGED <<step, phase, removal, streak, launch, health, recorded, consecutive>>
  /\ UNCHANGED <<ctxVars, outVars, worldVars>>

\* Faulty variant: a failed write is not remembered.
EmitReadyWithoutLatch ==
  /\ pc = "ready"
  /\ \/ /\ events' = Append(events, "ready")
        /\ pc' = "monitor"
        /\ phase' = "runtime"
        /\ UNCHANGED outcome
     \/ /\ Finish(Stop)
        /\ UNCHANGED <<events, phase>>
  /\ UNCHANGED <<step, removal, streak, broken, report, exit>>
  /\ UNCHANGED <<workVars, ctxVars, worldVars>>

EmitReady ==
  /\ pc = "ready"
  /\ \/ /\ events' = Append(events, "ready")
        /\ pc' = "monitor"
        /\ phase' = "runtime"
        /\ UNCHANGED <<broken, outcome>>
     \/ /\ broken' = TRUE
        /\ Finish(Stop)
        /\ UNCHANGED <<events, phase>>
  /\ UNCHANGED <<step, removal, streak, report, exit>>
  /\ UNCHANGED <<workVars, ctxVars, worldVars>>

-----------------------------------------------------------------------------
(* monitor. *)

SignalCtx == IF cancelled THEN "canceled" ELSE "live"

\* Faulty variant: only select looks at the context.
MonitorLoopWithoutCheck ==
  /\ pc = "monitor"
  /\ pc' = "select"
  /\ UNCHANGED <<step, phase, outcome, removal, streak>>
  /\ UNCHANGED <<workVars, ctxVars, outVars, worldVars>>

\* The check at the head of the loop.
MonitorLoop ==
  /\ pc = "monitor"
  /\ IF cancelled THEN Finish(Stop) ELSE pc' = "select" /\ UNCHANGED outcome
  /\ UNCHANGED <<step, phase, removal, streak>>
  /\ UNCHANGED <<workVars, ctxVars, outVars, worldVars>>

\* With both channels ready, select may take either.
Select ==
  /\ pc = "select"
  /\ \/ cancelled /\ Finish(Stop)
     \/ pc' = "poll" /\ UNCHANGED outcome
  /\ UNCHANGED <<step, phase, removal, streak>>
  /\ UNCHANGED <<workVars, ctxVars, outVars, worldVars>>

\* Faulty variant: the start time is not compared.
VerdictWithoutBaseline(u) ==
  CASE ~Up(u) -> "device_exited"
    [] Up(u) /\ cont[u] = "unhealthy" -> "device_unhealthy"
    [] Up(u) /\ cont[u] # "unhealthy" /\ ~attached[u] -> "network_detached"
    [] OTHER -> None

\* checkRuntimeState: the verdicts in the order it tests them.
Verdict(u) ==
  CASE ~Up(u) -> "device_exited"
    [] Up(u) /\ cont[u] = "unhealthy" -> "device_unhealthy"
    [] Up(u) /\ cont[u] # "unhealthy" /\ boots[u] # baseline[u] -> "device_restarted"
    [] Up(u) /\ cont[u] # "unhealthy" /\ boots[u] = baseline[u] /\ ~attached[u]
         -> "network_detached"
    [] OTHER -> None

\* Faulty variant: one failure too many is tolerated.
PollFailsOneTooMany ==
  /\ pc = "poll"
  /\ consecutive' = consecutive + 1
  /\ streak' = streak + 1
  /\ unit' = 1
  /\ IF consecutive' > DockerFailureLimit
     THEN \E e \in InspectErrors(SignalCtx) : Finish(Classify(SignalCtx, e, "runtime"))
     ELSE pc' = "monitor" /\ UNCHANGED outcome
  /\ UNCHANGED <<step, phase, removal, launch, health, recorded, baseline>>
  /\ UNCHANGED <<ctxVars, outVars, worldVars>>

\* The daemon does not answer for this unit: the rest of the pass is skipped.
PollFails ==
  /\ pc = "poll"
  /\ consecutive' = consecutive + 1
  /\ streak' = streak + 1
  /\ unit' = 1
  /\ IF consecutive' >= DockerFailureLimit
     THEN \E e \in InspectErrors(SignalCtx) : Finish(Classify(SignalCtx, e, "runtime"))
     ELSE pc' = "monitor" /\ UNCHANGED outcome
  /\ UNCHANGED <<step, phase, removal, launch, health, recorded, baseline>>
  /\ UNCHANGED <<ctxVars, outVars, worldVars>>

\* One unit inspected.  Only a whole pass resets the count.
Poll ==
  /\ pc = "poll"
  /\ streak' = 0
  /\ IF Verdict(unit) # None
     THEN Finish(Failure(Verdict(unit), "runtime")) /\ UNCHANGED <<unit, consecutive>>
     ELSE IF unit < Units
     THEN unit' = unit + 1 /\ UNCHANGED <<pc, outcome, consecutive>>
     ELSE unit' = 1 /\ consecutive' = 0 /\ pc' = "monitor" /\ UNCHANGED outcome
  /\ UNCHANGED <<step, phase, removal, launch, health, recorded, baseline>>
  /\ UNCHANGED <<ctxVars, outVars, worldVars>>

-----------------------------------------------------------------------------
(* finish: the one cleanup path, on a context of its own. *)

\* validate leaves its first step only once the backend came up.
BackendUp == step > 1

Cleanup ==
  /\ pc = "cleanup"
  /\ IF BackendUp
     THEN /\ pc' = "terminating"
          /\ removal' = [u \in Unit |-> IF u \in recorded THEN "removing" ELSE "idle"]
     ELSE pc' = "report" /\ UNCHANGED removal
  /\ UNCHANGED <<step, phase, outcome, streak>>
  /\ UNCHANGED <<workVars, ctxVars, outVars, worldVars>>

\* Instance.Terminate, one goroutine per unit.  It may fail with the container
\* still there, or after having removed it.
Terminate(u) ==
  /\ removal[u] = "removing"
  /\ \/ /\ removal' = [removal EXCEPT ![u] = "removed"]
        /\ cont' = [cont EXCEPT ![u] = "absent"]
     \/ /\ removal' = [removal EXCEPT ![u] = "failed"]
        /\ \E c \in {"absent", cont[u]} : cont' = [cont EXCEPT ![u] = c]
  /\ UNCHANGED <<pc, step, phase, outcome, streak, boots, attached>>
  /\ UNCHANGED <<workVars, ctxVars, outVars>>

Owned == {u \in Unit : cont[u] # "absent"}

\* The write of one terminal event: Writer refuses a code outside its phases
\* and a broken stream; a failed write leaves exit 1.
EmitTerminal(event, rep, allowed) ==
  /\ pc' = "done"
  /\ report' = rep
  /\ \/ /\ allowed /\ ~broken
        /\ events' = Append(events, event)
        /\ exit' = IF event = "stopped" THEN "0" ELSE "1"
        /\ UNCHANGED broken
     \/ /\ ~broken
        /\ broken' = TRUE
        /\ exit' = "1"
        /\ UNCHANGED events
     \/ /\ broken \/ ~allowed
        /\ exit' = "1"
        /\ UNCHANGED <<events, broken>>
  /\ UNCHANGED <<step, phase, outcome, removal, streak>>
  /\ UNCHANGED <<workVars, ctxVars, worldVars>>

ReportUnclean ==
  EmitTerminal("failed_unclean", Failure("cleanup_failed", "cleanup"), TRUE)

stopReason == IF stopped THEN "signal" ELSE "canceled"

ReportClean ==
  IF outcome = Stop THEN EmitTerminal("stopped", Reason(stopReason), TRUE)
  ELSE EmitTerminal("failed", outcome, outcome.phase \in PhasesOf(outcome.code))

\* No backend, so nothing to stop and nothing to prove.
ReportWithoutBackend == pc = "report" /\ ReportClean

TerminatesReturned == \A u \in Unit : removal[u] # "removing"

\* Backend.Remaining does not answer.
ConfirmFails ==
  /\ pc = "terminating" /\ TerminatesReturned
  /\ ReportUnclean

\* Faulty variant: termination errors are the only evidence looked at.
ConfirmByErrorsAlone ==
  /\ pc = "terminating" /\ TerminatesReturned
  /\ IF \E u \in Unit : removal[u] = "failed" THEN ReportUnclean ELSE ReportClean

\* Backend.Remaining counts what still carries the run's label.
Confirm ==
  /\ pc = "terminating" /\ TerminatesReturned
  /\ IF Owned # {} \/ \E u \in Unit : removal[u] = "failed"
     THEN ReportUnclean
     ELSE ReportClean

-----------------------------------------------------------------------------
(* External: what containers do on their own or at somebody else's hand.   *)

WorldStep == UNCHANGED <<pc, step, phase, outcome, removal, streak>>
             /\ UNCHANGED <<workVars, ctxVars, outVars>>

\* From cleanup on, all that is read of a container is whether it exists, and
\* that changes only by Terminate: the rest is left as it was.
Observed == Running /\ outcome = None

HealthChanges(u) ==
  /\ Observed /\ Up(u)
  /\ \E h \in {"healthy", "unhealthy"} \ {cont[u]} : cont' = [cont EXCEPT ![u] = h]
  /\ UNCHANGED <<boots, attached>>
  /\ WorldStep

Crash(u) ==
  /\ Observed /\ Up(u)
  /\ cont' = [cont EXCEPT ![u] = "exited"]
  /\ UNCHANGED <<boots, attached>>
  /\ WorldStep

\* Somebody restarts it, running or not.  Restartable and MaxBoots bound which
\* and how often.
ExternalRestart(u) ==
  /\ Observed /\ (Up(u) \/ cont[u] = "exited")
  /\ u \in Restartable /\ boots[u] < MaxBoots
  /\ cont' = [cont EXCEPT ![u] = "starting"]
  /\ boots' = [boots EXCEPT ![u] = @ + 1]
  /\ UNCHANGED attached
  /\ WorldStep

Detach(u) ==
  /\ Observed /\ (Up(u) \/ cont[u] = "exited")
  /\ attached[u]
  /\ attached' = [attached EXCEPT ![u] = FALSE]
  /\ UNCHANGED <<cont, boots>>
  /\ WorldStep

\* Somebody connects it again, to the caller's network and no other.
Reattach(u) ==
  /\ Observed /\ (Up(u) \/ cont[u] = "exited")
  /\ ~attached[u]
  /\ attached' = [attached EXCEPT ![u] = TRUE]
  /\ UNCHANGED <<cont, boots>>
  /\ WorldStep

-----------------------------------------------------------------------------
Validate == ValidatePasses \/ ValidateFails

UnitStep(u) ==
  \/ Create(u) \/ CreateFails(u) \/ Reclaim(u)
  \/ StartContainer(u) \/ StartContainerFails(u)
  \/ WaitHealthy(u) \/ Terminate(u)

WorldAct(u) ==
  HealthChanges(u) \/ Crash(u) \/ ExternalRestart(u) \/ Detach(u) \/ Reattach(u)

\* Steps of the main goroutine other than validation and polling.
MainStep ==
  \/ EmitStarted \/ Prepared \/ LaunchJoin \/ HealthJoin \/ Inspect \/ EmitReady
  \/ MonitorLoop \/ Select
  \/ Cleanup \/ ReportWithoutBackend \/ ConfirmFails \/ Confirm

Next ==
  \/ Signal \/ CallerCancels \/ DeadlinePasses
  \/ Validate \/ MainStep
  \/ PollFails \/ Poll
  \/ \E u \in Unit : UnitStep(u) \/ WorldAct(u)

Spec == Init /\ [][Next]_vars

\* What the code guarantees.  The startup deadline comes.  Every step under the
\* startup context, the wait strategy's or cleanup's own timeout ends.  An
\* inspection of the monitor is only sure to end once the signal context does.
Fairness ==
  /\ WF_vars(DeadlinePasses)
  /\ WF_vars(MainStep)
  /\ WF_vars(step # RequestStep /\ Validate)
  /\ WF_vars(cancelled /\ (PollFails \/ Poll))
  /\ \A u \in Unit : WF_vars(UnitStep(u))

\* What the environment has to add: the caller closes the request stream.
RequestEnds == WF_vars(step = RequestStep /\ Validate)

OpenRequestSpec == Spec /\ Fairness
FairSpec == OpenRequestSpec /\ RequestEnds

-----------------------------------------------------------------------------
(* Properties. *)

Phases == {"validate", "pull", "start", "health", "runtime", "cleanup"}
Codes ==
  (UNION {ValidateSteps[i].codes : i \in 1 .. LastStep})
  \cup {"container_start_failed", "endpoint_mac_mismatch", "device_unhealthy",
        "device_exited", "device_restarted", "network_detached"}
Outcomes == {None, Stop} \cup {Failure(code, ph) : code \in Codes, ph \in Phases}
Events == {"started", "ready", "stopped", "failed", "failed_unclean"}
ContainerStates == {"absent", "created", "starting", "healthy", "unhealthy", "exited"}
Contexts == {"live", "canceled", "deadline"}
UnitErrors ==
  {Error("container_start_failed", "start", c) : c \in {"none", "canceled", "deadline"}}
  \cup {Error("device_unhealthy", "health", c) : c \in {"none", "canceled", "deadline"}}
Places == {"idle", "creating", "starting", "reclaiming", "waiting", "returned"}
Calls == [at : Places, handle : BOOLEAN, error : UnitErrors \cup {None}]

\* The shape of every variable of a run.
TypeOK ==
  /\ pc \in {"begin", "validate", "launch", "health", "inspect", "ready", "monitor",
             "select", "poll", "cleanup", "terminating", "report", "done"}
  /\ step \in 1 .. LastStep
  /\ phase \in Phases
  /\ startCtx \in Contexts
  /\ callerDone \in BOOLEAN
  /\ stopped \in BOOLEAN
  /\ launch \in [Unit -> Calls]
  /\ health \in [Unit -> Calls]
  /\ recorded \in SUBSET Unit
  /\ unit \in Unit
  /\ baseline \in [Unit -> 0 .. MaxBoots]
  /\ consecutive \in 0 .. DockerFailureLimit
  /\ outcome \in Outcomes
  /\ removal \in [Unit -> {"idle", "removing", "removed", "failed"}]
  /\ broken \in BOOLEAN
  /\ events \in Seq(Events)
  /\ report \in Outcomes \cup {Failure("cleanup_failed", "cleanup")}
                         \cup {Reason(why) : why \in {"signal", "canceled"}}
  /\ exit \in {"none", "0", "1"}
  /\ cont \in [Unit -> ContainerStates]
  /\ boots \in [Unit -> 0 .. MaxBoots]
  /\ attached \in [Unit -> BOOLEAN]
  /\ streak \in 0 .. DockerFailureLimit

Last(s) == s[Len(s)]

\* A run that ends with stdout intact has said so: the code and phase it ends
\* with are always a pair the protocol matrix allows, so the Writer never
\* swallows the terminal event (protocol.go, Failed).
TerminalEventAlways ==
  pc = "done" /\ ~broken => Last(events) \in {"stopped", "failed", "failed_unclean"}

\* Every container a Launch handed back, with or without an error, has been
\* terminated when the run ends, on stdout's loss too (run.go, start: "Record
\* everything that came up before reporting a failure").
EveryHandleTerminated ==
  pc = "done" =>
    \A u \in Unit : launch[u].handle => removal[u] \in {"removed", "failed"}

Stopped == "stopped" \in {events[i] : i \in 1 .. Len(events)}

\* stopped is only ever the answer to a signal or to the caller's cancellation,
\* and names the one it answers: no failure, timeout or lost write ends in it
\* (run.go, errStopped: "a signal or caller cancellation ended the run cleanly";
\* protocol.go, Stopped, speaks of a signal only).
StoppedMeansAsked ==
  Stopped => \/ report = Reason("signal") /\ stopped
             \/ report = Reason("canceled") /\ callerDone /\ ~stopped

FailedUnits == Failing(launch) \cup Failing(health)

ErrorsOf(u) == {launch[u].error, health[u].error} \ {None}

\* When every launch or health failure is one the container earned, none of them
\* wrapping a context error, the run ends as that failure, whatever signal or
\* deadline came in meanwhile (run.go, classify).
EarnedFailureKept ==
  /\ outcome # None
  /\ FailedUnits # {}
  /\ \A u \in FailedUnits : \A e \in ErrorsOf(u) : e.chain = "none"
  => outcome \in {Failure(e.code, e.phase) : e \in UNION {ErrorsOf(u) : u \in FailedUnits}}

\* Once ready, docker_unavailable means the daemon failed DockerFailureLimit
\* inspections with no answer in between (run.go, dockerFailureLimit: "how many
\* consecutive inspect failures mean the Docker API is gone rather than briefly
\* busy. A success resets the count").
UnavailableMeansConsecutive ==
  /\ outcome = Failure("docker_unavailable", "runtime")
  /\ "ready" \in {events[i] : i \in 1 .. Len(events)}
  => streak >= DockerFailureLimit

EarnedBeforeSignal ==
  ~cancelled /\ \E u \in FailedUnits : \A e \in ErrorsOf(u) : e.chain = "none"

\* A failure that had already happened when the signal came keeps the run from
\* ending in a clean stop (run.go, classify: "a failure that had already
\* happened keeps its code even though a signal cancelled the context").
AnyEarnedFailureKept == [](EarnedBeforeSignal => [](outcome # Stop))

\* The events, the exit status and the containers keep the promise made to the
\* caller (protocol.go, Writer; run.go, finish).
Protocol == INSTANCE HerderProtocol WITH owned <- Owned
KeepsProtocol == Protocol!Spec

Replaced(u) == ~Up(u) \/ boots[u] # baseline[u]

Watching == pc \in {"monitor", "select", "poll"}

Caught == pc = "done" \/ [](pc = "poll")

\* A device container that exits or restarts after ready ends the run, unless
\* the daemon never answers one inspection again: no later change, a restart
\* after a crash included, hides it.  One that leaves the network ends the run
\* if it stays away; between two polls it may leave and come back unseen
\* (readiness.go, checkRuntimeState).
FaultEndsRun ==
  /\ (Watching /\ \E u \in Unit : Replaced(u)) ~> Caught
  /\ \A u \in Unit : (Watching /\ []~attached[u]) ~> Caught

\* A signal or the caller's cancellation ends the run at any stage, however slow
\* the daemon is (run.go, watchSignals, finish).
SignalEndsRun == cancelled ~> pc = "done"

\* Startup ends: in readiness or in a failure (run.go, execute: "The startup
\* deadline starts after `started` is flushed and covers validation, pulls,
\* creation, start and readiness").
StartupEnds == pc = "validate" ~> pc \in {"monitor", "done"}
=============================================================================
