# unifi-emu in TLA+

This directory specifies and checks the parts of unifi-emu that keep state or
decide something: the emulated device and its adoption handshake, the fleet, the
`unifi-emu` process with its adopt client, and `unifi-emu-herder`, which plans and
runs devices in Docker containers for a test harness. Modules are translated from
the Go source; comments name the file and, where it helps, the line.

## 1. Inventory

| Component | State it keeps | Operations | What makes it correct | Module |
|---|---|---|---|---|
| inform session (`inform/session.go`) | key, cfgversion, adopted, cipher, URL, provisioned tables, version, boot time | `EncodeInform`, `Apply` (set-adopt, setparam, setstate, noop, upgrade, setdefault, reboot) | a real key is not clobbered by a stray `mgmt_cfg`; a factory reset forgets everything | `InformDevice` |
| packets and crypto (`inform/packet.go`, `crypto.go`) | none | `Encode`, `EncodeGCM`, `Decode`, `ParseKey` | an inform is sent, and its reply read, under one key; malformed keys are refused | as a guard in `InformDevice`; no bytes |
| device runtime (`device.go`, `loop.go`) | public state PENDING / ADOPTING / CONNECTED, interval, the inform in flight | `run`, `informOnce`, `applyResponse`, `State` | public state and session agree; CONNECTED only after an adopted inform got a reply; Stop returns | `InformDevice`, `Adoption` |
| fleet (`emu.go`) | device map, started flag, cancel function, WaitGroup | `Add`, `Start`, `State`, `WaitState`, `Stop` | every device launched once; when a Stop returns no loop runs; Stop returns | `EmuFleet` |
| adopt client and driver (`internal/adopt`) | CSRF token, last placeholder, current device | `Login`, `Adopt`, `DeviceByMAC`, `WaitAdopted`, `Fleet` | one adoption at a time, success and diagnosis are true, the budget ends every wait | `AdoptFleet` |
| `unifi-emu` CLI (`cmd/unifi-emu`) | device list, adopt settings, readiness marker | `fleetSpecs`, `expandFleet`, `resolveAdopt`, `writeReady`, `runAdopt`, `run` | one source decides; addresses apart; exit status and marker are true | `FleetSpecs`, `EmuMain` |
| herder run (`internal/herder/run.go`) | phase, contexts, launched units, baselines, failure counter, outcome | `validate`, `start`, `monitor`, `finish`, `cleanup`, `classify`, `watchSignals` | see `HerderRun` below | `HerderRun` |
| herder protocol (`protocol.go`) | events written, broken latch | `Started`, `Ready`, `Failed`, `Stopped` | event order, one terminal event, code allowed in its phase | `HerderProtocol`, `HerderRun` |
| herder backend (`backend.go`, `readiness.go`) | none of its own; Docker's containers | `Launch`, `WaitHealthy`, `Inspect`, `Terminate`, `Remaining` | nothing left behind unreported | `HerderRun` |
| herder images (`images.go`) | none | `PullAndInspect` | pulls come before any container | outcomes only, in `HerderRun` |
| herder planning (`identity.go`, `plan.go`, `request.go`, `runtimeconfig.go`, `containers.go`) | claimed and final identities, the plan | `DecodeRequest`, `ResolveRuntimeConfig`, `Allocate`, `BuildPlan`, `buildContainerRequest` | identities apart, supplied values kept, bounded draws, each device planned once, the container runs what was planned | `HerderPlan`, `FleetPlan` |

Not modelled: payload tables and `modelgen` (static data), `discovery` (a stateless
codec), DNS resolution of the inform URL, log following, `-V` and `-healthcheck`,
the herder's flag parsing, and `State`, `WaitState`, `Devices`, `PostRaw`, `DoRaw`, which
read and change nothing the program depends on. They keep no state a model checker
could explore. What a real controller does with a device that comes back on the
default key after a restart is in no source, so no property is about it.

How the parts interact. A device's goroutine posts an inform and applies the
reply; readers of `State` look in between its critical sections. A controller is
reachable only through replies to informs. The adopt client asks for the
controller's view over HTTP and commands it. The herder hands identities to the
process in a synthetic container in `UNIFI_EMU_DEVICES_JSON`. The herder talks to the Docker daemon (calls that
fail, hang until their context ends, or half succeed), to its caller (signals
in, NDJSON events on stdout out), and to containers that change on their own.

The hard behaviour is: four separate critical sections per inform cycle; lost
and repeated replies and late configuration; per-unit goroutines whose errors
meet a signal, the startup deadline and the wait strategy's own deadline; a
monitor whose inspections fail now and then; cleanup that may itself fail; a
stdout that may break between two events; requests whose answer is lost and that
are sent again; a budget that ends inside any of them; a process killed and
restarted at any point. `PROJECT.json` lists each hazard at
its line.

## 2. Plan

Order: the device, because adoption is what the program exists for; the
handshake with a controller; the herder run, the most concurrent part; then the
planners, the fleet, and the process that adopts it.

1. `Adoption` (abstract) and `InformDevice` with its proofs: done.
2. `AdoptionHandshake`, `InformDevice` composed with a controller: done, with its
   proofs.
3. `HerderProtocol` (abstract) and `HerderRun`: done, with its proofs.
4. `HerderPlan`, `FleetSpecs` and their composition `FleetPlan`: done, with their
   proofs.
5. `EmuFleet`: done, with its proofs.
6. `AdoptFleet`, and `EmuMain`, which composes it with `EmuFleet`: done, with their
   proofs.
7. Every invariant, action property and refinement of the passing runs is proved.
   Left: the loop of `EmuFleet` as a proved abstraction of `InformDevice`, instead of
   by its liveness property alone.

## 3. Modules

**`Adoption`** says what a device promises: three public states, the key, and
whether the controller has received an adopted inform since the last reset.
CONNECTED needs that; a reset forgets all.

**`InformDevice`** is one device against a controller that may answer anything.
`session` is `inform.Session`; operators `ApplySetAdopt`, `ApplySetParam`, ... are
`Apply`'s cases on that record. `state`, `interval` are the device's. `pc` is
where `informOnce` is, one action per critical section or blocking call:

| Action | Code |
|---|---|
| `Encode`, `EncodeFails` | `loop.go:100-109`, first lock |
| `Arrive` | the controller receives the POST (environment) |
| `NoReply` | every early return of `loop.go:116-144` |
| `Receive` | decode, then the sample of `loop.go:145-147` |
| `Apply(m)` | `device.applyResponse` and `Session.Apply`, one lock |
| `Settle` | `loop.go:149-156` |
| `Wake`, `Exit` | the select of `device.run` |
| `Cancel` | `Emu.Stop` or the caller's context |

`heard`, `since` and `last` are history variables that the properties use and no
guard reads. Keys are abstract values: the default key, keys that
`ParseKey` accepts, and malformed values it refuses.

**`AdoptionHandshake`** adds an external controller that follows
`docs/PROTOCOL.md`: an operator adopts and forgets, the key travels by `set-adopt`
or by `mgmt_cfg` (`channel`, fixed at the start), configuration keeps being pushed,
and informs and replies get lost. A `mgmt_cfg` of any adoption that has ended (`Late`)
may be delivered at any inform, and again: to a device that is adopted, to one that is
being adopted, and to one a reset has put back on the default key. Only informs the
controller can decrypt are answered (`Readable`); between a forget and the next adoption
it reads the default key alone. `overtaken` is history: the device's key came to it in a
late `mgmt_cfg`.

**`HerderProtocol`** is what a harness may rely on: the order of events, the exit
status, and that `stopped` or a `failed` event claiming complete cleanup leaves no
container.

**`HerderRun`** is one run. `pc` is the main goroutine; `launch`, `health` and
`removal` are the goroutines it spawns per unit. An error is the public code and
phase it carries and which context error, if any, its chain wraps; `Classify` is
`run.classify` on those. The daemon and the containers are external: any Docker
call may fail, creation may leave a container with or without a handle, and
containers turn unhealthy, exit, are restarted, leave the network and come back to it
while the herder reads them; from cleanup on it asks only whether they exist, so the
model leaves the rest alone there (`Observed`). The signal context ends by a signal (`stopped`) or with the
caller's context (`callerDone`); what the code sees is `cancelled`, and `stopReason`
tells the two apart at the end.
`ValidateSteps` lists validation's steps with the codes each may return.

| Action | Code |
|---|---|
| `EmitStarted` | `execute`, `Writer.Started` |
| `Signal`, `CallerCancels`, `DeadlinePasses` | `watchSignals`; the caller's context, parent of both others; the startup context |
| `ValidatePasses`, `ValidateFails`, `Prepared` | `validate` |
| `Create`, `CreateFails`, `Reclaim`, `StartContainer(Fails)` | `Backend.Launch` |
| `LaunchJoin`, `HealthJoin`, `Inspect` | `start` |
| `WaitHealthy` | `Backend.WaitHealthy` |
| `EmitReady` | `execute`, `Writer.Ready` |
| `MonitorLoop`, `Select`, `Poll`, `PollFails` | `monitor` |
| `Cleanup`, `Terminate` | `cleanup` |
| `Confirm`, `ConfirmFails`, `ReportWithoutBackend` | the rest of `finish`, with the terminal event |

**`Devices`** declares what the planners share: models, profiles, addresses and
their spellings. **`HerderPlan`** is `run.validate` from the decoded request to the
plan. A claim is a field with a value; `reserved` and `final` are the two
identity sets of `Allocate`, whose three passes are `Supply`, `Finish` and
`Skip`/`Draw`/`Exhausted`, one device or one draw a step. **`FleetSpecs`** is the way of
the command from its five sources, default fleet and flags to `Emu.Add`.
**`FleetPlan`** puts both behind each other: a user's process runs `FleetSpecs` alone,
the herder's synthetic container runs it on the `Payload` of the plan.

| Action | Code |
|---|---|
| `DecodeRequest`, `ResolveRuntime` | `request.go`, `runtimeconfig.go` |
| `Supply`, `Finish`, `Skip`, `Draw`, `Exhausted` | `Allocate`, `generate` |
| `BuildPlan` | `BuildPlan`, `ResolveSyntheticImage` |
| `fleetSpecs`, `readSource`, `defaultFleet`, `malformedList` | `devices.go` |
| `containerIPv4`, `expandFleet`, `Add` | `main.go:143-167`, `Emu.Add` |

**`EmuFleet`** is `Emu` under concurrent callers. `Start` holds the mutex until its
last `Launch`; the three parts of `Stop` are steps of their own, since only the first
is under the lock. A loop is abstracted to running until a context ends, which
`InformDevice` shows of one device (`StopsAfterCancel`).

**`AdoptFleet`** is the adopt client. `at` is the request or wait it is in; a request
is answered, cut off by the context, or answered with the answer lost (`ReplyLost`),
after which go-retryablehttp sends it again. The controller is external: it boots,
lists a device it hears (too young to be adopted at first), adopts, connects, and may
replace UniFi OS's CSRF token with any reply. `seen` is `waitPending`'s: once the
device has been listed, giving up is reported as "not pending", else as "never listed",
whatever the last error was. `told` and `landed` are history. **`EmuMain`** is the process around both:
settings, fleet, marker, adoption, signals, exit, and restarts that keep the
container's disk. The client is the process's own, or that of the integration
tests' harness outside, which waits for the marker and has a `Check`.

| Action | Code |
|---|---|
| `LoginReply`, `LoginCut` | `Client.Login`, `Client.login` |
| `ReadReply`, `ReadCut` (`Lookup`, `Settle`, `Watch`) | `deviceByMAC` in `waitPending`, `adoptWithRetry`, `WaitAdopted` |
| `AdoptReply`, `AdoptCut` | `Client.Adopt` in `adoptWithRetry` |
| `Tick`, `GiveUp` | the two cases of every wait's select |
| `Settings`, `Fleet`, `StartFleet`, `writeReady`, `runAdopt`, `AdoptedOrNot`, `AwaitSignal`, `StopFleet`, `Leave` | `main.go`, `run`, in order |

Definitions introduced by "Faulty variant" are plausible bugs. Nothing uses them;
each is meant to replace the definition after it, to see that a property notices.

## 4. Runs

Bounds are in the `.cfg` files.

| Run | Shows |
|---|---|
| `MCInformDevice` | the invariants and action properties of the device, its refinement of `Adoption`, and `cancelled ~> stopped` with no assumption about the controller |
| `MCAdoptionHandshake` | for both kinds of controller: the device leaves the controller's reach only on a late `mgmt_cfg` that finds it on the default key; short of that every adoption completes or is forgotten; the last one lasts, late replies or not |
| `MCHerderRun` | two units: protocol refinement, terminal events, cleanup of every handle, failure precedence, who is behind a stop; a signal or the caller's cancellation ends the run, startup ends, and an exit, a restart or a lasting detachment after ready ends the run |
| `MCFleetPlan` | identities apart and supplied values kept, each device in one container, planning ends; one source decides, addresses apart; the synthetic container runs the planned identities and refuses little |
| `MCEmuFleet` | three goroutines calling `Stop` around `Add` and `Start`: every device launched, no loop outlives a `Stop` that came after `Start`, every such `Stop` returns |
| `MCEmuMain` | success, diagnosis, exit status and marker are true; one adoption at a time; the budget ends every wait and an adopt that landed is settled |

Six runs show that the code does not do what a comment or a document says of it:

- `MCHerderRunStreak`: with several units, a successful inspection of one does not
  reset the failure count of the others (`run.go:22-24`).
- `MCHerderRunEarned`: a failure that happened before a signal is dropped when a
  unit with a lower index was cut short by the signal (`run.go:477-480`).
- `MCHerderRunStdin`: while the request stream stays open, neither the startup
  deadline nor a signal ends validation (`run.go:146-147`).
- `MCFleetPlanGateways`: the herder accepts a request for two gateways that its
  synthetic container refuses (`plan.go:84-86`).
- `MCEmuMainCheck`: `WaitAdopted` polls on after the devices died
  (`fleet.go:40-43`).
- `MCEmuMainSpelling`: a MAC written with dashes is listed by the controller and
  reported as never listed (`fleet.go:107-109`, `emu.go:49-50`).

Seen while modelling, and left without a run:

- A `mgmt_cfg` left over from an ended adoption is taken by a device on the default key
  (`session.go:272`), which then informs under a key its controller no longer holds, and
  nothing but a restart brings it back. `PROTOCOL.md` does not say otherwise (the key is
  applied if the device still has the default one), so this is no disagreement;
  `ControllerCanRead` and `AdoptionCompletes` except it, and `AdoptionLasts` need not.
- `stopped` does not always answer a signal: a run whose caller cancels its context ends
  so too, with reason `canceled` (`run.go:31-33`, `536-543`; `run_test.go:974` drives it),
  where `protocol.go:303-304` says "a caller-requested signal was handled". The shipped
  command passes `context.Background()` and never meets it. `StoppedMeansAsked` is what
  holds: a stop answers one of the two and names it.
- A container that is disconnected and connected again between two polls is never missed
  (`readiness.go:71-84`): `StartedAt`, `RestartCount` and the networks are as before.
  `FaultEndsRun` claims a detachment only if it lasts.
- A *deadline* on the caller's context would be classified as `startup_timeout` in phase
  `runtime`, a pair the protocol matrix refuses (`run.go:487`). No caller sets one, and
  the model's caller only cancels.
- `use_aes_gcm=false` takes a device back to CBC (`session.go:277`), where
  `PROTOCOL.md:90-91` sees no path back.
- `Backend.Inspect` reports an inspection that fails before ready in phase `runtime`
  (`backend.go:135`, `protocol.go:20`).
- The marker is never removed, so after a restart `-healthcheck` answers 0 before a
  device informs; `MarkerMeansLaunched` is stated up to the first restart and says
  nothing of this.
- That later signals do not shorten cleanup is in how the code makes its contexts
  (`run.go:378-384`); the model's cleanup has none, so no property would notice a change.
- `-models` of white space hides `SIM_MODELS` (`devices.go:85-93`);
  `OneSourceDecides` excepts it.
- A signal during the 15 s of `logAdoptDiagnosis` turns a real adopt failure into
  exit status 0 (`main.go:222-226`); `ExitIsClean` allows it, and is about the rest.
- `Login` masks a rejection that arrives as the budget ends, if there had been a
  placeholder (`client.go:171`); a token whose replacement was lost on the way
  makes an adopt fail for good.
- A `Stop` that takes the mutex before `Start` cancels nothing. `StopMeansStopped` and
  `StopEnds` are about the ones after.
- `resolveAdopt` counts neither the site nor the timeout as a sign that adoption is
  wanted; `NeverSilentlyPending` is about the settings it does count.

One more thing the device does is worth knowing: a second `set-adopt` with another
key, applied while ADOPTING, is settled to CONNECTED in the same cycle, before
any inform used that key. `Adoption` therefore promises an adopted inform, not one
under the latest key.

Why the bounds are enough. Two real keys are needed to replace one by another,
one malformed key to wedge; one table shows presence, two cfgversions a change;
the URL, firmware version, interval and uptime clock appear in no guard, so one
value each is enough for TLC (the proofs cover every set). Two units show every
order of two goroutines and of two inspections in a pass; the code treats
further units alike. `DockerFailureLimit` is 2 where its value does not matter and
3 (the source's) where it does. `MaxBoots` 2 and
`Restartable` allow one restart, of the unit that is polled last, so that a failing
inspection of the other can come before it is seen; a restart is measured against that
unit's own baseline, and a second one differs in nothing.
Requests of up to three devices show a supplied, a derived and a drawn value in every
order; eight addresses with three local ones and two draws make collisions and
exhaustion happen; the base is two short of the end, so that automatic MACs wrap.
Two devices and three callers of `Stop` show a caller that cancels, one that finds
nothing to cancel, and Start's own. In `MCEmuMain` one restart at any point is
enough for every state a second process can find; a controller starts without the
fleet or with all of it offline; `Dashed` is empty because a spelling the controller
does not use makes adoption fail at once, which its own run shows. Deadlock
checking is off where the system stops: everywhere but in the handshake.

## 5. Fairness

`InformDevice`: the goroutine's own steps are weakly fair. Once the context is
done the POST is aborted, hence fairness of `cancelled /\ NoReply` only. `Exit` is
strongly fair because a Go select picks at random among ready cases. Nothing is
assumed of the controller.

`AdoptionHandshake` adds strong fairness of delivery: informs and replies that
keep being sent keep getting through sometimes, the setparam of an adopted device
among them. A late reply need never be sent, and the operator is not fair.

`HerderRun`: the deadline comes; calls under the startup context end because the
deadline does, cleanup calls because of their own timeout; a monitor inspection
is only sure to end once the signal context is done, since it has no timeout of
its own. `FaultEndsRun` accordingly leaves room for a daemon that never answers one
inspection. One thing the code does not guarantee is a separate assumption,
`RequestEnds`: the caller closes the request stream.

`FleetPlan` assumes that the herder keeps planning. `EmuFleet`: each goroutine that has
begun something is scheduled, and a loop whose context is done returns.

`EmuMain`: requests are answered or cut off, timers fire, and a select that keeps
finding the context done takes that case some time (strong, as Go picks at random).
Strong fairness of `Settle` on a document that says adopted: a controller asked again
and again answers sometimes. Nothing else is assumed of the controller: it
need not boot, list or connect anything, so no property says that adoption succeeds.

## 6. Proofs

Every invariant, every action property and both refinements of the passing runs
are theorems, for every value of the constants that satisfies the modules' named
assumptions. Each proof has an inductive invariant, which TLC checked on the run's
instance first, one step per action, and a last temporal step. None uses fairness.

**The device** (`InformDevice_proofs`; `ConstantsAssumption`, `NoneAssumption`). Type
correctness, `LayersAgree`, `ResetForgets`, `RealKeyIsKept`, `RekeyLeavesConnected`,
`MalformedKeyIsTerminal`, and the refinement of `Adoption`. `IndInv` is the type
invariant, `LayersAgree`, and two strengthenings. `InFlight` ties the inform in flight
to the session: while one is out, its key and adopted flag are the session's, since
only `Apply` changes them and no inform is out then; it also says that a reply is only
applied under a well-formed key. `HeardFirst` says that a sample of ADOPTING, and
CONNECTED itself, imply that an adopted inform has been heard; without it `Settle`
could not be shown to implement `Connect`.

**The handshake** (`AdoptionHandshake_proofs`; also `HandshakeAssumption`).
`StillADevice`: every behaviour of the composition is one of the device, hence all of
the above holds in it. `NeverOutOfReach`: `ControllerCanRead`, for any number of
adoptions and with late `mgmt_cfg` replies in every state. It is not inductive, since what
the controller can read changes: a forget keeps the device readable only because an
adopted one holds the key of this adoption, and going back to idle only because the
device is on the default key by then (`Reading`). The latter holds because the
controller goes back to idle only when an inform showed the reset; by `InFlight` what is
on the wire is what the device is, and by `LayersAgree` a device that is reset holds the
default key. A late reply changes the key only through the gate, from the default one,
and that is what `overtaken` records.

**A herder run** (`HerderRun_proofs`; `HerderAssumption`, any number of units).
`TypeOK`, `TerminalEventAlways`, `EveryHandleTerminated`, `StoppedMeansAsked`,
`EarnedFailureKept`, and `ImplementsProtocol`, the refinement of `HerderProtocol`. The
invariant says, place by place, what the main goroutine may rely on: the per-unit
goroutines run only while it waits for them (`Joined`); what came up is what is
recorded, and every record has a removal (`Recorded`); each error is of its goroutine's
kind, so that the outcome is a pair the protocol has a row for (`Judged`), which is why
the terminal event is never swallowed; a launch or health failure is behind every
place but cleanup (`Heeded`), so that `EarnedFailureKept` is decided in the two
joins; a stop came from a signal, the caller or a lost stdout (`Signalled`); what has been said
is what the place implies (`Said`). `Fresh` and `Counted` bound restarts and failed
inspections. In the refinement `Report` is the only step that needs more than its
guard: the claim of complete cleanup is true because of `Recorded`.

**Planning** (`HerderPlan_proofs`; `PlanAssumption`, `DerivedAssumption`,
`DevicesAssumption`). `PlanTypeOK`, `IdentitiesApart`, `SuppliedKept` and `PlannedOnce`.
The invariant follows the three passes: what is reserved is what has been supplied so
far and is apart; what is final is apart from it; each finished identity contains
what its device supplied, and its other claims are final. A new claim is then outside
both sets, which is what keeps identities apart. That a synthetic unit is unique rests
on the first synthetic device, which exists by well-foundedness of the order on Nat
(`FirstOf`).

**Both ways to a fleet** (`FleetPlan_proofs`; also `FleetAssumption`: a list is a finite
sequence of records with the four attributes, and neither a reason nor the
container's address is the empty value). `OneSourceDecides`, `AddressesApart`,
`IdentityHandedOver`, `RefusedForLittle`, and the planner's own properties beside a
container. `Deciding` says that the list's origin is the only source that is set, or that
none is, at every place behind `fleetSpecs`; it needs that a set of one element has no
other (`AtMostOne`) and goes source by source through the switch (`ChosenIsActive`).
`Automatic` says what `expandFleet` gave a list of models; two automatic MACs differ
because counts less than a whole turn apart do not meet in a counter (`NoWrap`), past
its end included. `Handed` says that the container's entries are the synthetic devices in
request order. The order needs that a finite set of numbers has ranks (`Ranks`), so that
`Nth` is a bijection from `1 .. Cardinality(Synthetic)`; that the addresses are apart then
comes from the planner's invariant, and that a model is known from `Runnable`.
`RefusedForTwoGateways` shows that requests with two gateways are the only ones for
which `MCFleetPlanGateways` has a counterexample.

**The fleet** (`EmuFleet_proofs`; `ListsAssumption`). `FleetTypeOK`, `AllLaunched` and
`StopMeansStopped` for any devices, lists and callers. `Launched` says that after `Start`
every member outside `todo` has a loop, `Ordered` that a `Stop` which locked the mutex
after `Start` found `todo` empty: hence no loop begins behind it, and those that
`StopWait` saw ended are all.

**The process and its client** (`AdoptFleet_proofs`, `EmuMain_proofs`;
`OrderAssumption`, `MainAssumption`). `AllConnected`, `OneAtATime`, `DiagnosisTruthful`,
`ExitIsClean`, `MarkerMeansLaunched` and `NeverSilentlyPending`, across any number of
restarts. `AllConnected` speaks of the whole fleet at the end and holds because of what
held each time the client left a device (`Known`, `OneByOne`); `DiagnosisTruthful`
because of what the client keeps of the answer it waits or fails on (`Told`). The
process adds what ties fleet and client to the course of `run`: `Launching` (no loop
before `Start`, and `Start` gets the whole list), `Stopping` (the deferred `Stop` is the
last act) and `Adopting` (the settings' verdict is kept until it is acted on).
`MainAssumption` says that a list `Add` accepts names exactly the devices to adopt:
`main.go:193-199` takes their MACs from the specs that were added.

Only model-checked: the liveness properties (`StopsAfterCancel`, `AdoptionCompletes`,
`AdoptionLasts`, `SignalEndsRun`, `StartupEnds`, `FaultEndsRun`, `PlanningEnds`, `StopEnds`,
`BudgetEnds`, `LandedAdoptSettles`), since fairness is about ENABLED, which the prover
does not have; and the six runs that find a violation, which are about one instance
by nature.

## 7. Abstractions

Bytes, encryption, compression, JSON and log text are left out, as are the
payload tables' contents. Time is the order of events: intervals and timeouts
elapse at any moment. `POST` transport errors, HTTP statuses and undecodable
bodies are one action, since the code treats them alike. Set-adopt URLs are
carried but nothing is assumed of where they lead. In the herder, device lists in
events, redaction and logs are left out, and a container removed by someone else
shows as an inspection that fails. In the planners, text is left out: which
values the syntax checks refuse is a constant, a derived serial or name is a tuple of
what it is made of, and addresses are numbers. `SIM_MAC_BASE` and `SIM_IP_BASE` are
taken to be valid. In `EmuMain` the harness stops its container only when it is done,
or sees it die; a container that is not restarted is only interesting there.
