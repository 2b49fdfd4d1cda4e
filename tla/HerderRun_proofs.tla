-------------------------- MODULE HerderRun_proofs --------------------------
(***************************************************************************)
(* What a run of unifi-emu-herder guarantees for any number of containers: *)
(* it cleans up after itself, it always says how it ended and says so      *)
(* truthfully, and it keeps the promise of HerderProtocol.                 *)
(***************************************************************************)
EXTENDS HerderRun, WellFoundedInduction, SequenceTheorems, TLAPS

\* The signal context is done if either of its two sources is.
USE DEF cancelled

\* Where the main goroutine is before finish, and in it.
Starting == {"begin", "validate", "launch", "health", "inspect", "ready"}
Working == Starting \cup {"monitor", "select", "poll"}
Finishing == {"cleanup", "terminating", "report"}

\* A container is started by its Launch at the end of it, and by others later.
Fresh ==
  \A u \in Unit :
    /\ launch[u].at # "returned" => boots[u] = 0 /\ cont[u] \in {"absent", "created"}
    /\ launch[u].at = "idle" => cont[u] = "absent"

\* The goroutines of start run only while start waits for them.
Joined ==
  \A u \in Unit :
    /\ pc \in {"begin", "validate"} \/ step = 1 => launch[u] = Call("idle", FALSE, None)
    /\ pc # "launch" => launch[u].at \in {"idle", "returned"}
    /\ pc \in {"begin", "validate", "launch"} => health[u] = Call("idle", FALSE, None)
    /\ pc # "health" => health[u].at # "waiting"

\* What came up is recorded when launch is over, and cleaned up from there.
Recorded ==
  /\ pc # "launch" => recorded = Handles
  /\ pc = "report" => step = 1
  /\ \A u \in Unit :
       /\ pc \notin {"terminating", "done"} => removal[u] = "idle"
       /\ pc = "terminating" /\ u \in recorded => removal[u] # "idle"
       /\ pc = "done" => removal[u] # "removing" /\ (u \in recorded => removal[u] # "idle")

\* Only the signal context, or a lost stdout, stops a run.
Signalled ==
  /\ startCtx = "canceled" => cancelled
  /\ pc \in Finishing /\ outcome = Stop => cancelled \/ broken

\* A goroutine's error is one of its own, and a run ends with a failure that
\* the protocol has a row for.
AnyChain == {"none", "canceled", "deadline"}
LaunchFailures == {Error("container_start_failed", "start", c) : c \in AnyChain}
HealthFailures == {Error("device_unhealthy", "health", c) : c \in AnyChain}
Allowed(o) == o = Stop \/ o.phase \in PhasesOf(o.code)
Endings == {Stop} \cup {Failure(code, ph) : code \in Codes, ph \in Phases}

Judged ==
  /\ \A u \in Unit : /\ launch[u].error \in LaunchFailures \cup {None}
                     /\ health[u].error \in HealthFailures \cup {None}
  /\ pc \in Working => outcome = None
  /\ pc \in Finishing => outcome \in Endings /\ Allowed(outcome)

\* No failure is passed over.
Heeded ==
  /\ pc \notin {"launch"} \cup Finishing \cup {"done"} => Failing(launch) = {}
  /\ pc \in {"inspect", "ready", "monitor", "select", "poll"} => Failing(health) = {}
  /\ EarnedFailureKept

\* What has been said so far.
Said ==
  /\ exit = "none" <=> pc # "done"
  /\ pc = "begin" => events = <<>>
  /\ pc \in Starting \ {"begin"} => events = <<"started">>
  /\ pc \in (Working \cup Finishing) \ {"begin"} => events # <<>>
  /\ Stopped => pc = "done"
  /\ StoppedMeansAsked
  /\ TerminalEventAlways

\* Both counts of failed inspections, short of the limit while the run goes on.
Counted ==
  /\ streak <= consecutive
  /\ pc \in Working => consecutive < DockerFailureLimit

IndInv ==
  /\ TypeOK /\ Fresh /\ Joined /\ Recorded /\ Signalled
  /\ Judged /\ Heeded /\ Said /\ Counted

-----------------------------------------------------------------------------
(* Operators. *)

\* Validation's table: its steps are 1 .. 11, and each error it may return has
\* a row of the protocol's matrix in its phase, as does a timeout there.
LEMMA Table ==
  /\ LastStep = 11
  /\ \A i \in 1 .. LastStep :
       /\ ValidateSteps[i].phase \in {"validate", "pull"}
       /\ ValidateSteps[i].codes \subseteq Codes
       /\ \A code \in ValidateSteps[i].codes : ValidateSteps[i].phase \in PhasesOf(code)
<1>1. LastStep = 11
  BY DEF LastStep, ValidateSteps
<1>2. ASSUME NEW i \in 1 .. 11
      PROVE  /\ ValidateSteps[i].phase \in {"validate", "pull"}
             /\ \A code \in ValidateSteps[i].codes : ValidateSteps[i].phase \in PhasesOf(code)
  <2>1. i \in {1, 2, 3, 4, 5, 6, 7, 8, 9, 10, 11}
    OBVIOUS
  <2>2. CASE i = 1
    BY <2>2 DEF ValidateSteps, PhasesOf
  <2>3. CASE i \in {2, 3, 4, 5, 6}
    BY <2>3 DEF ValidateSteps, PhasesOf
  <2>4. CASE i \in {7, 8, 9}
    BY <2>4 DEF ValidateSteps, PhasesOf
  <2>5. CASE i \in {10, 11}
    BY <2>5 DEF ValidateSteps, PhasesOf
  <2> QED BY <2>1, <2>2, <2>3, <2>4, <2>5
<1>3. \A i \in 1 .. LastStep : ValidateSteps[i].codes \subseteq Codes
  BY DEF Codes
<1> QED BY <1>1, <1>2, <1>3

\* Units are numbered, so of any there are one comes first.
LEMMA FirstUnit ==
  ASSUME NEW S \in SUBSET Unit, S # {}
  PROVE  \E u \in S : \A v \in S : u <= v
<1>1. S \subseteq Nat
  BY HerderAssumption DEF Unit
<1>2. PICK u \in S : \A v \in S : ~(<<v, u>> \in OpToRel(<, Nat))
  BY <1>1, NatLessThanWellFounded, WFMin
<1>3. \A v \in S : ~(v < u)
  BY <1>1, <1>2 DEF OpToRel
<1> QED BY <1>1, <1>3

\* The error that decides is the error of a unit that failed.
LEMMA FirstErrorIsOne ==
  ASSUME NEW calls, Failing(calls) # {}
  PROVE  \E u \in Failing(calls) : FirstError(calls) = calls[u].error
<1>1. Failing(calls) \in SUBSET Unit
  BY DEF Failing
<1>2. PICK u \in Failing(calls) : \A v \in Failing(calls) : u <= v
  BY <1>1, FirstUnit
<1> QED BY <1>2 DEF FirstError

\* What classify makes of an error is the error itself, a timeout of this phase,
\* or a stop; and only a context error of the same kind makes it the latter two.
LEMMA ClassifyFacts ==
  ASSUME NEW ctx \in Contexts, NEW code, NEW ph, NEW chain \in AnyChain, NEW now
  PROVE  LET e == Error(code, ph, chain)
             o == Classify(ctx, e, now)
         IN  /\ o \in {Failure(code, ph), Failure("startup_timeout", now), Stop}
             /\ o = Stop => ctx = "canceled"
             /\ chain = "none" => o = Failure(code, ph)
             /\ ctx # "deadline" => o \in {Failure(code, ph), Stop}
BY DEF Contexts, AnyChain, Error, Classify, Failure, Stop

\* A context gives no error chain that Classify does not know.
LEMMA ChainsFacts ==
  \A ctx \in Contexts : Chains(ctx) \subseteq AnyChain
BY DEF Contexts, Chains, AnyChain

\* A failure with a row in the matrix is an allowed ending.
LEMMA AllowedFacts ==
  /\ \A code \in Codes, ph \in Phases : ph \in PhasesOf(code) =>
       Failure(code, ph) \in Endings /\ Allowed(Failure(code, ph))
  /\ \A ph \in {"validate", "pull", "start", "health"} :
       /\ Failure("startup_timeout", ph) \in Endings
       /\ Allowed(Failure("startup_timeout", ph))
  /\ Stop \in Endings /\ Allowed(Stop)
<1>1. "startup_timeout" \in Codes
  BY Table, "startup_timeout" \in ValidateSteps[11].codes DEF ValidateSteps, Codes
<1>2. \A ph \in {"validate", "pull", "start", "health"} :
         ph \in Phases /\ ph \in PhasesOf("startup_timeout")
  BY DEF Phases, PhasesOf
<1> QED BY <1>1, <1>2 DEF Endings, Allowed, Failure

\* Lists of events, and one more event.
LEMMA EventLists ==
  /\ <<>> \in Seq(Events) /\ <<"started">> \in Seq(Events)
  /\ \A s \in Seq(Events), e \in Events :
       /\ Append(s, e) \in Seq(Events) /\ Append(s, e) # <<>>
       /\ Last(Append(s, e)) = e
       /\ \A i \in 1 .. Len(Append(s, e)) : Append(s, e)[i] \in {s[j] : j \in 1 .. Len(s)} \cup {e}
BY DEF Events, Last

-----------------------------------------------------------------------------
(* The inductive invariant. *)

\* Before anything was said.
LEMMA InitInd == Init => IndInv
<1> SUFFICES ASSUME Init PROVE IndInv
  OBVIOUS
<1>0. LastStep = 11 /\ 1 \in Unit /\ DockerFailureLimit > 0 /\ MaxBoots > 0
  BY Table, HerderAssumption DEF Unit
<1>1. TypeOK
  <2>1. launch \in [Unit -> Calls] /\ health \in [Unit -> Calls]
    BY DEF Init, Calls, Call, Places
  <2>2. baseline \in [Unit -> 0 .. MaxBoots] /\ boots \in [Unit -> 0 .. MaxBoots]
    BY <1>0, HerderAssumption DEF Init
  <2>3. /\ removal \in [Unit -> {"idle", "removing", "removed", "failed"}]
        /\ cont \in [Unit -> ContainerStates] /\ attached \in [Unit -> BOOLEAN]
    BY DEF Init, ContainerStates
  <2>4. /\ pc = "begin" /\ step = 1 /\ phase = "validate" /\ startCtx = "live"
        /\ callerDone = FALSE /\ stopped = FALSE /\ recorded = {} /\ unit = 1
        /\ consecutive = 0 /\ streak = 0 /\ broken = FALSE
        /\ outcome = None /\ report = None /\ events = <<>> /\ exit = "none"
    BY DEF Init
  <2>5. outcome \in Outcomes /\ report \in Outcomes
    BY <2>4 DEF Outcomes
  <2>6. 0 \in 0 .. DockerFailureLimit /\ 1 \in 1 .. LastStep
    BY <1>0, HerderAssumption
  <2>7. /\ phase \in Phases /\ startCtx \in Contexts
        /\ callerDone \in BOOLEAN /\ stopped \in BOOLEAN /\ broken \in BOOLEAN
    BY <2>4 DEF Phases, Contexts
  <2> QED BY <1>0, <2>1, <2>2, <2>3, <2>4, <2>5, <2>6, <2>7, EventLists DEF TypeOK
<1>2. Fresh /\ Joined /\ Recorded
  BY DEF Init, Fresh, Joined, Recorded, Call, Handles
<1>3. Signalled
  BY DEF Init, Signalled, Finishing
<1>4. Judged /\ Heeded
  BY DEF Init, Judged, Heeded, Call, Failing, Finishing, EarnedFailureKept
<1>5. Said /\ Counted
  BY <1>0, HerderAssumption
     DEF Init, Said, Counted, StoppedMeansAsked, Stopped, TerminalEventAlways
<1> QED BY <1>1, <1>2, <1>3, <1>4, <1>5 DEF IndInv

\* The way into finish, from wherever the main goroutine is.  What the caller
\* has to show is that the ending is one the protocol allows, that it is a stop
\* for a reason, and that it keeps an earned failure.
LEMMA FinishInd ==
  ASSUME IndInv, TypeOK', EarnedFailureKept',
         NEW o \in Endings, Allowed(o), Finish(o),
         pc \in Working \ {"begin"},
         \A u \in Unit : launch[u].at \in {"idle", "returned"} /\ health[u].at # "waiting",
         o = Stop => cancelled \/ broken',
         recorded' = Handles,
         streak' <= consecutive',
         UNCHANGED <<step, ctxVars, launch, health, removal, events, exit, cont, boots>>
  PROVE  IndInv'
<1> USE DEF ctxVars
<1>1. pc' = "cleanup" /\ outcome' = o
  BY DEF Finish
<1>2. Fresh'
  BY DEF IndInv, Fresh
<1>3. Joined'
  BY <1>1 DEF IndInv, Joined
<1>4. Recorded'
  BY <1>1 DEF IndInv, Recorded, Handles, Working, Starting
<1>5. Signalled'
  BY <1>1 DEF IndInv, Signalled, Finishing
<1>6. Judged'
  BY <1>1 DEF IndInv, Judged, Working, Starting, Finishing
<1>7. Heeded'
  BY <1>1 DEF Heeded, Finishing
<1>8. Said' /\ Counted'
  BY <1>1 DEF IndInv, Said, Counted, Working, Starting, Finishing,
     StoppedMeansAsked, Stopped, TerminalEventAlways
<1> QED BY <1>2, <1>3, <1>4, <1>5, <1>6, <1>7, <1>8 DEF IndInv

\* Without a failed unit there is nothing to keep.
LEMMA NothingEarned ==
  ASSUME FailedUnits = {}, UNCHANGED <<launch, health>>
  PROVE  EarnedFailureKept'
BY DEF FailedUnits, Failing, EarnedFailureKept

\* A signal, the caller's cancellation, and the startup deadline.
LEMMA ContextInd == IndInv /\ (Signal \/ CallerCancels \/ DeadlinePasses) => IndInv'
<1> SUFFICES ASSUME IndInv, Signal \/ CallerCancels \/ DeadlinePasses PROVE IndInv'
  OBVIOUS
<1>1. /\ UNCHANGED <<pc, step, phase, outcome, removal, streak>>
      /\ UNCHANGED <<workVars, outVars, worldVars>>
      /\ pc # "done"
  BY DEF Signal, CallerCancels, DeadlinePasses, ContextStep, Running, IndInv, Said
<1>7. /\ startCtx' \in Contexts /\ callerDone' \in BOOLEAN /\ stopped' \in BOOLEAN
      /\ startCtx' = "canceled" => cancelled'
      /\ cancelled => cancelled'
  BY DEF IndInv, TypeOK, Signalled, Signal, CallerCancels, CancelStart, DeadlinePasses, Contexts
<1> USE <1>1 DEF workVars, outVars, worldVars
<1>2. TypeOK'
  BY <1>7 DEF IndInv, TypeOK
<1>3. Fresh' /\ Joined' /\ Recorded'
  BY DEF IndInv, Fresh, Joined, Recorded, Handles
<1>4. Signalled'
  BY <1>7 DEF IndInv, Signalled
<1>5. Judged' /\ Heeded'
  BY DEF IndInv, Judged, Heeded, EarnedFailureKept, FailedUnits, Failing, ErrorsOf
<1>6. Said' /\ Counted'
  BY DEF IndInv, Said, Counted, StoppedMeansAsked, Stopped, TerminalEventAlways
<1> QED BY <1>2, <1>3, <1>4, <1>5, <1>6 DEF IndInv

LEMMA EmitStartedInd == IndInv /\ EmitStarted => IndInv'
<1> SUFFICES ASSUME IndInv, EmitStarted PROVE IndInv'
  OBVIOUS
<1>1. /\ UNCHANGED <<step, phase, outcome, removal, report, streak>>
      /\ UNCHANGED <<ctxVars, workVars, worldVars>>
  BY DEF EmitStarted
<1>2. /\ pc = "begin" /\ events = <<>>
      /\ \/ pc' = "validate" /\ events' = <<"started">> /\ UNCHANGED <<broken, exit>>
         \/ pc' = "done" /\ broken' /\ exit' = "1" /\ UNCHANGED events
  BY DEF EmitStarted, IndInv, Said
<1> USE <1>1 DEF ctxVars, workVars, worldVars
<1>3. TypeOK'
  BY <1>2, EventLists DEF IndInv, TypeOK
<1>4. Fresh' /\ Joined'
  BY <1>2 DEF IndInv, Fresh, Joined
<1>5. Recorded'
  BY <1>2 DEF IndInv, Recorded, Joined, Call, Handles
<1>6. Signalled'
  BY <1>2 DEF IndInv, Signalled, Finishing
<1>7. Judged'
  BY <1>2 DEF IndInv, Judged, Working, Starting, Finishing
<1>8. Heeded'
  BY <1>2 DEF IndInv, Heeded, Joined, Call, Finishing, EarnedFailureKept, FailedUnits,
     Failing, ErrorsOf
<1>9. Said' /\ Counted'
  BY <1>2 DEF IndInv, Said, Counted, Working, Starting, Finishing,
     StoppedMeansAsked, Stopped, TerminalEventAlways
<1> QED BY <1>3, <1>4, <1>5, <1>6, <1>7, <1>8, <1>9 DEF IndInv

-----------------------------------------------------------------------------
(* validate. *)

LEMMA ValidatePassesInd == IndInv /\ ValidatePasses => IndInv'
<1> SUFFICES ASSUME IndInv, ValidatePasses PROVE IndInv'
  OBVIOUS
<1>1. /\ UNCHANGED <<pc, outcome, removal, streak>>
      /\ UNCHANGED <<ctxVars, workVars, outVars, worldVars>>
      /\ pc = "validate" /\ step \in 1 .. 11 /\ step < 11 /\ step' = step + 1
  BY Table DEF ValidatePasses, IndInv, TypeOK
<1>2. phase' \in Phases
  BY <1>1, Table DEF ValidatePasses, Phases
<1> USE <1>1 DEF ctxVars, workVars, outVars, worldVars
<1>3. TypeOK'
  BY <1>2, Table DEF IndInv, TypeOK
<1>4. Fresh' /\ Joined' /\ Recorded'
  BY DEF IndInv, Fresh, Joined, Recorded, Handles
<1>5. Signalled' /\ Judged' /\ Heeded'
  BY DEF IndInv, Signalled, Judged, Heeded, EarnedFailureKept, FailedUnits, Failing, ErrorsOf
<1>6. Said' /\ Counted'
  BY DEF IndInv, Said, Counted, StoppedMeansAsked, Stopped, TerminalEventAlways
<1> QED BY <1>3, <1>4, <1>5, <1>6 DEF IndInv

\* While validation runs nothing has been launched, so nothing has failed.
LEMMA IdleFacts ==
  ASSUME IndInv, pc = "validate"
  PROVE  /\ FailedUnits = {} /\ recorded = Handles
         /\ \A u \in Unit : launch[u].at = "idle" /\ health[u].at = "idle"
BY DEF IndInv, Joined, Recorded, Call, FailedUnits, Failing

LEMMA ValidateFailsInd == IndInv /\ ValidateFails => IndInv'
<1> SUFFICES ASSUME IndInv, ValidateFails PROVE IndInv'
  OBVIOUS
<1>1. /\ UNCHANGED <<step, phase, removal, streak>>
      /\ UNCHANGED <<ctxVars, workVars, outVars, worldVars>>
      /\ pc = "validate" /\ step \in 1 .. LastStep /\ startCtx \in Contexts
  BY DEF ValidateFails, IndInv, TypeOK
<1> DEFINE s == ValidateSteps[step]
           ctx == IF s.ctx THEN startCtx ELSE "live"
<1>2. ctx \in Contexts
  BY <1>1 DEF Contexts
<1>3. PICK code \in s.codes, chain \in Chains(ctx) :
        Finish(Classify(ctx, Error(code, s.phase, chain), s.phase))
  BY DEF ValidateFails
<1> DEFINE o == Classify(ctx, Error(code, s.phase, chain), s.phase)
<1>4. s.phase \in {"validate", "pull"} /\ code \in Codes /\ s.phase \in PhasesOf(code)
  BY <1>1, <1>3, Table
<1>5. o \in Endings /\ Allowed(o)
  <2>1. o \in {Failure(code, s.phase), Failure("startup_timeout", s.phase), Stop}
    BY <1>2, <1>3, ChainsFacts, ClassifyFacts
  <2> QED BY <2>1, <1>4, AllowedFacts DEF Phases
<1>6. o = Stop => cancelled
  <2>1. o = Stop => ctx = "canceled"
    BY <1>2, <1>3, ChainsFacts, ClassifyFacts
  <2> QED BY <2>1 DEF IndInv, Signalled
<1>7. Finish(o)
  BY <1>3
<1> HIDE DEF s, ctx, o
<1> USE <1>1 DEF workVars, outVars, worldVars
<1>8. TypeOK'
  BY <1>5, <1>7 DEF IndInv, TypeOK, Finish, Endings, Outcomes, ctxVars
<1>9. streak' <= consecutive' /\ EarnedFailureKept' /\ recorded' = Handles
  BY IdleFacts, NothingEarned DEF IndInv, Counted
<1> QED BY <1>5, <1>6, <1>7, <1>8, <1>9, IdleFacts, FinishInd DEF Working, Starting

\* A done context is a timeout or a stop.
LEMMA ContextFacts ==
  ASSUME IndInv, startCtx # "live", NEW ph \in {"pull", "start", "health"}
  PROVE  LET o == ContextOutcome(startCtx, ph)
         IN  o \in Endings /\ Allowed(o) /\ (o = Stop => cancelled)
<1>1. startCtx \in {"canceled", "deadline"}
  BY DEF IndInv, TypeOK, Contexts
<1>2. Failure("startup_timeout", ph) # Stop
  BY DEF Failure, Stop
<1> QED BY <1>1, <1>2, AllowedFacts DEF ContextOutcome, IndInv, Signalled

LEMMA PreparedInd == IndInv /\ Prepared => IndInv'
<1> SUFFICES ASSUME IndInv, Prepared PROVE IndInv'
  OBVIOUS
<1>1. /\ UNCHANGED <<step, removal, streak, health, recorded, unit, baseline, consecutive>>
      /\ UNCHANGED <<ctxVars, outVars, worldVars>>
      /\ pc = "validate" /\ step = 11
  BY Table DEF Prepared
<1> USE <1>1 DEF outVars, worldVars
<1>2. CASE startCtx = "live"
  <2>1. /\ pc' = "launch" /\ phase' = "start" /\ UNCHANGED outcome
        /\ launch' = [u \in Unit |-> Call("creating", FALSE, None)]
    BY <1>2 DEF Prepared
  <2>2. TypeOK'
    BY <2>1 DEF IndInv, TypeOK, ctxVars, Phases, Calls, Call, Places
  <2>3. Fresh'
    BY <2>1, IdleFacts DEF IndInv, Fresh, Call
  <2>7. Joined'
    <3>1. pc' = "launch" /\ step' # 1 /\ UNCHANGED health
      BY <2>1
    <3>2. \A u \in Unit : health[u] = Call("idle", FALSE, None)
      BY DEF IndInv, Joined
    <3> QED BY <3>1, <3>2, IdleFacts DEF Joined, Call
  <2>4. Recorded' /\ Signalled'
    BY <2>1 DEF IndInv, Recorded, Signalled, ctxVars, Finishing
  <2>5. Judged' /\ Heeded'
    BY <2>1, IdleFacts DEF IndInv, Judged, Heeded, Call, EarnedFailureKept, FailedUnits,
       Failing, ErrorsOf, Working, Starting, Finishing
  <2>6. Said' /\ Counted'
    BY <2>1 DEF IndInv, Said, Counted, StoppedMeansAsked, Stopped, TerminalEventAlways,
       ctxVars, Working, Starting, Finishing
  <2> QED BY <2>2, <2>3, <2>4, <2>5, <2>6, <2>7 DEF IndInv
<1>3. CASE startCtx # "live"
  <2> DEFINE o == ContextOutcome(startCtx, "pull")
  <2>1. Finish(o) /\ UNCHANGED <<phase, launch>>
    BY <1>3 DEF Prepared
  <2>2. o \in Endings /\ Allowed(o) /\ (o = Stop => cancelled)
    BY <1>3, ContextFacts
  <2> HIDE DEF o
  <2>3. TypeOK'
    BY <2>1, <2>2 DEF IndInv, TypeOK, Finish, Endings, Outcomes, ctxVars
  <2>4. streak' <= consecutive' /\ EarnedFailureKept' /\ recorded' = Handles
    BY <2>1, IdleFacts, NothingEarned DEF IndInv, Counted
  <2> QED BY <2>1, <2>2, <2>3, <2>4, IdleFacts, FinishInd DEF Working, Starting
<1> QED BY <1>2, <1>3

-----------------------------------------------------------------------------
(* start. *)

\* The errors of the goroutines.
LEMMA ErrorFacts ==
  /\ LaunchErrors \subseteq LaunchFailures \/ startCtx \notin Contexts
  /\ HealthErrors \subseteq HealthFailures \/ startCtx \notin Contexts
  /\ LaunchFailures \subseteq UnitErrors /\ HealthFailures \subseteq UnitErrors
BY DEF LaunchErrors, HealthErrors, LaunchFailures, HealthFailures, UnitErrors, Chains,
   AnyChain, Contexts

\* The steps of one Launch, and what they may do.
LaunchStep(u) ==
  Create(u) \/ CreateFails(u) \/ Reclaim(u) \/ StartContainer(u) \/ StartContainerFails(u)

\* Whatever step of a Launch it is, it is about one unit.
LEMMA LaunchStepFacts ==
  ASSUME IndInv, NEW u \in Unit, LaunchStep(u)
  PROVE  /\ UNCHANGED <<pc, step, phase, outcome, removal, streak, health, recorded, unit,
                        baseline, consecutive, startCtx, callerDone, stopped, broken, events,
                        report, exit>>
         /\ pc = "launch" /\ step # 1
         /\ launch[u].at \notin {"idle", "returned"}
         /\ \E at \in {"starting", "reclaiming", "returned"}, handle \in BOOLEAN,
               e \in LaunchFailures \cup {None} :
                 launch' = [launch EXCEPT ![u] = Call(at, handle, e)]
         /\ \E c \in {"absent", "created", "starting"} : cont' = [cont EXCEPT ![u] = c]
         /\ \/ boots' = boots /\ cont'[u] \in {"absent", "created"}
            \/ boots' = [boots EXCEPT ![u] = 1] /\ launch'[u].at = "returned"
         /\ attached' \in [Unit -> BOOLEAN]
<1>1. /\ launch[u].at \in {"creating", "starting", "reclaiming"}
      /\ UNCHANGED <<pc, step, phase, outcome, removal, streak, health, recorded, unit,
                     baseline, consecutive, startCtx, callerDone, stopped, broken, events,
                     report, exit>>
  BY DEF LaunchStep, Create, CreateFails, Reclaim, StartContainer, StartContainerFails,
     ctxVars, outVars, worldVars
<1>2. pc = "launch" /\ step # 1
  BY <1>1 DEF IndInv, Joined, Call
<1>3. LaunchErrors \subseteq LaunchFailures
  BY ErrorFacts DEF IndInv, TypeOK
<1>4. \E at \in {"starting", "reclaiming", "returned"}, handle \in BOOLEAN,
         e \in LaunchFailures \cup {None} :
           launch' = [launch EXCEPT ![u] = Call(at, handle, e)]
  BY <1>3 DEF LaunchStep, Create, CreateFails, Reclaim, StartContainer, StartContainerFails
<1>5. /\ cont \in [Unit -> ContainerStates] /\ boots \in [Unit -> 0 .. MaxBoots]
      /\ launch \in [Unit -> Calls] /\ attached \in [Unit -> BOOLEAN]
      /\ boots[u] = 0 /\ cont[u] \in {"absent", "created"}
  BY <1>1 DEF IndInv, TypeOK, Fresh
<1>6. \E c \in {"absent", "created", "starting"} : cont' = [cont EXCEPT ![u] = c]
  <2>1. cont = [cont EXCEPT ![u] = cont[u]]
    BY <1>5
  <2> QED BY <1>5, <2>1 DEF LaunchStep, Create, CreateFails, Reclaim, StartContainer,
          StartContainerFails, worldVars
<1>7. CASE StartContainer(u)
  <2>1. boots' = [boots EXCEPT ![u] = 1] /\ UNCHANGED attached
    BY <1>5, <1>7 DEF StartContainer
  <2>2. launch'[u].at = "returned"
    BY <1>5, <1>7 DEF StartContainer, Call
  <2> QED BY <1>1, <1>2, <1>4, <1>5, <1>6, <2>1, <2>2
<1>8. CASE Create(u) \/ CreateFails(u) \/ Reclaim(u) \/ StartContainerFails(u)
  <2>1. boots' = boots
    BY <1>8 DEF Create, CreateFails, Reclaim, StartContainerFails, worldVars
  <2>2. cont'[u] \in {"absent", "created"}
    BY <1>5, <1>8 DEF Create, CreateFails, Reclaim, StartContainerFails, worldVars
  <2>3. attached' \in [Unit -> BOOLEAN]
    BY <1>5, <1>8 DEF Create, CreateFails, Reclaim, StartContainerFails, worldVars
  <2> QED BY <1>1, <1>2, <1>4, <1>5, <1>6, <2>1, <2>2, <2>3
<1> QED BY <1>7, <1>8 DEF LaunchStep

LEMMA LaunchInd == ASSUME IndInv, NEW u \in Unit, LaunchStep(u) PROVE IndInv'
<1>1. /\ UNCHANGED <<pc, step, phase, outcome, removal, streak, health, recorded, unit,
                     baseline, consecutive, startCtx, callerDone, stopped, broken, events,
                     report, exit>>
      /\ pc = "launch" /\ step # 1
      /\ launch[u].at \notin {"idle", "returned"}
      /\ attached' \in [Unit -> BOOLEAN]
  BY LaunchStepFacts
<1>2. PICK at \in {"starting", "reclaiming", "returned"}, handle \in BOOLEAN,
           e \in LaunchFailures \cup {None} :
             launch' = [launch EXCEPT ![u] = Call(at, handle, e)]
  BY LaunchStepFacts
<1>3. PICK c \in {"absent", "created", "starting"} : cont' = [cont EXCEPT ![u] = c]
  BY LaunchStepFacts
<1>4. \/ boots' = boots /\ cont'[u] \in {"absent", "created"}
      \/ boots' = [boots EXCEPT ![u] = 1] /\ launch'[u].at = "returned"
  BY LaunchStepFacts
<1>5. /\ launch \in [Unit -> Calls] /\ cont \in [Unit -> ContainerStates]
      /\ boots \in [Unit -> 0 .. MaxBoots]
  BY DEF IndInv, TypeOK
<1>6. launch'[u] = Call(at, handle, e) /\ \A v \in Unit \ {u} : launch'[v] = launch[v]
  BY <1>2, <1>5
<1>7. TypeOK'
  <2>1. launch' \in [Unit -> Calls]
    BY <1>2, <1>5, ErrorFacts DEF Calls, Call, Places
  <2>2. cont' \in [Unit -> ContainerStates] /\ boots' \in [Unit -> 0 .. MaxBoots]
    BY <1>3, <1>4, <1>5, HerderAssumption DEF ContainerStates
  <2> QED BY <1>1, <2>1, <2>2 DEF IndInv, TypeOK
<1>8. Fresh'
  <2>1. launch'[u].at # "idle"
    BY <1>6 DEF Call
  <2>2. launch'[u].at # "returned" => boots'[u] = 0 /\ cont'[u] \in {"absent", "created"}
    BY <1>1, <1>4 DEF IndInv, Fresh
  <2>3. \A v \in Unit \ {u} : boots'[v] = boots[v] /\ cont'[v] = cont[v]
    BY <1>3, <1>4, <1>5
  <2> QED BY <1>6, <2>1, <2>2, <2>3 DEF IndInv, Fresh
<1>9. Joined' /\ Recorded' /\ Signalled'
  BY <1>1 DEF IndInv, Joined, Recorded, Signalled, Call
<1>10. Judged' /\ Heeded'
  <2>1. launch'[u].error = e
    BY <1>6 DEF Call
  <2> QED BY <1>1, <1>6, <2>1 DEF IndInv, Judged, Heeded, Working, Starting, Finishing,
          EarnedFailureKept
<1>11. Said' /\ Counted'
  BY <1>1 DEF IndInv, Said, Counted, StoppedMeansAsked, Stopped, TerminalEventAlways
<1> QED BY <1>7, <1>8, <1>9, <1>10, <1>11 DEF IndInv

\* What finish makes of the error of a unit that failed.
LEMMA FirstFailureEnds ==
  ASSUME IndInv, NEW u \in Unit, NEW e \in ErrorsOf(u), NEW now \in {"start", "health"},
         e \in LaunchFailures \cup HealthFailures, Finish(Classify(startCtx, e, now)),
         UNCHANGED <<launch, health>>
  PROVE  LET o == Classify(startCtx, e, now)
         IN  o \in Endings /\ Allowed(o) /\ (o = Stop => cancelled) /\ EarnedFailureKept'
<1> DEFINE o == Classify(startCtx, e, now)
<1>1. PICK code \in {"container_start_failed", "device_unhealthy"},
           ph \in {"start", "health"}, chain \in AnyChain :
             /\ e = Error(code, ph, chain)
             /\ \/ code = "container_start_failed" /\ ph = "start"
                \/ code = "device_unhealthy" /\ ph = "health"
  BY DEF LaunchFailures, HealthFailures
<1>2. startCtx \in Contexts
  BY DEF IndInv, TypeOK
<1>3. /\ o \in {Failure(code, ph), Failure("startup_timeout", now), Stop}
      /\ o = Stop => startCtx = "canceled"
      /\ chain = "none" => o = Failure(code, ph)
  BY <1>1, <1>2, ClassifyFacts
<1>4. code \in Codes /\ ph \in Phases /\ ph \in PhasesOf(code)
  BY <1>1 DEF Codes, Phases, PhasesOf
<1>5. o \in Endings /\ Allowed(o)
  BY <1>3, <1>4, AllowedFacts
<1>6. o = Stop => cancelled
  BY <1>3 DEF IndInv, Signalled
<1>7. EarnedFailureKept'
  <2>1. e.code = code /\ e.phase = ph /\ e.chain = chain
    BY <1>1 DEF Error
  <2>2. u \in FailedUnits /\ FailedUnits' = FailedUnits
    BY DEF ErrorsOf, FailedUnits, Failing
  <2>3. \A v \in Unit : ErrorsOf(v)' = ErrorsOf(v)
    BY DEF ErrorsOf
  <2>4. FailedUnits \subseteq Unit
    BY DEF FailedUnits, Failing
  <2>5. outcome' = o
    BY DEF Finish
  <2> HIDE DEF o
  <2>6. e \in UNION {ErrorsOf(v) : v \in FailedUnits}
    BY <2>2
  <2>7. UNION {ErrorsOf(v)' : v \in FailedUnits'} = UNION {ErrorsOf(v) : v \in FailedUnits}
    BY <2>2, <2>3, <2>4
  <2>8. SUFFICES ASSUME \A v \in FailedUnits' : \A x \in ErrorsOf(v)' : x.chain = "none"
                 PROVE  outcome' \in {Failure(x.code, x.phase) :
                                        x \in UNION {ErrorsOf(v)' : v \in FailedUnits'}}
    BY DEF EarnedFailureKept
  <2>9. chain = "none"
    BY <2>1, <2>2, <2>3, <2>8
  <2> QED BY <1>3, <2>1, <2>5, <2>6, <2>7, <2>9
<1> QED BY <1>5, <1>6, <1>7

LEMMA LaunchJoinInd == IndInv /\ LaunchJoin => IndInv'
<1> SUFFICES ASSUME IndInv, LaunchJoin PROVE IndInv'
  OBVIOUS
<1>1. /\ UNCHANGED <<step, removal, streak, launch, unit, baseline, consecutive>>
      /\ UNCHANGED <<ctxVars, outVars, worldVars>>
      /\ pc = "launch" /\ recorded' = Handles
      /\ \A u \in Unit : launch[u].at = "returned" /\ health[u].at = "idle"
  BY DEF LaunchJoin, Returned, IndInv, Joined, Call
<1>2. Handles \in SUBSET Unit
  BY DEF Handles
<1>3. Failing(health) = {}
  BY <1>1 DEF IndInv, Joined, Failing, Call
<1>4. streak' <= consecutive'
  BY <1>1 DEF IndInv, Counted
<1> USE <1>1 DEF outVars, worldVars
<1>5. ASSUME NEW o \in Endings, Allowed(o), Finish(o), o = Stop => cancelled,
             UNCHANGED <<phase, health>>, EarnedFailureKept'
      PROVE  IndInv'
  <2>1. TypeOK'
    BY <1>2, <1>5 DEF IndInv, TypeOK, Finish, Endings, Outcomes, ctxVars
  <2> QED BY <1>4, <1>5, <2>1, FinishInd DEF Working, Starting
<1>6. CASE Failing(launch) # {}
  <2>1. PICK u \in Failing(launch) : FirstError(launch) = launch[u].error
    BY <1>6, FirstErrorIsOne
  <2>2. /\ u \in Unit /\ launch[u].error \in LaunchFailures
        /\ launch[u].error \in ErrorsOf(u)
    BY DEF Failing, IndInv, Judged, ErrorsOf
  <2>3. Finish(Classify(startCtx, launch[u].error, "start")) /\ UNCHANGED <<phase, health>>
    BY <1>6, <2>1 DEF LaunchJoin
  <2> QED BY <1>5, <2>2, <2>3, FirstFailureEnds
<1>7. CASE Failing(launch) = {} /\ startCtx # "live"
  <2>1. Finish(ContextOutcome(startCtx, "start")) /\ UNCHANGED <<phase, health>>
    BY <1>7 DEF LaunchJoin
  <2>2. EarnedFailureKept'
    BY <1>3, <1>7, <2>1, NothingEarned DEF FailedUnits
  <2> QED BY <1>5, <1>7, <2>1, <2>2, ContextFacts
<1>8. CASE Failing(launch) = {} /\ startCtx = "live"
  <2>1. /\ pc' = "health" /\ phase' = "health" /\ UNCHANGED outcome
        /\ health' = [u \in Unit |-> Call("waiting", TRUE, None)]
    BY <1>8 DEF LaunchJoin
  <2>2. TypeOK'
    <3>1. health' \in [Unit -> Calls]
      BY <2>1 DEF Calls, Call, Places
    <3> QED BY <1>2, <2>1, <3>1 DEF IndInv, TypeOK, ctxVars, Phases
  <2>3. Fresh' /\ Signalled' /\ Counted'
    BY <2>1 DEF IndInv, Fresh, Signalled, Counted, ctxVars, Working, Starting, Finishing
  <2>4. Joined'
    BY <2>1 DEF IndInv, Joined, Call
  <2>5. Recorded'
    BY <2>1 DEF IndInv, Recorded, Handles
  <2>6. Judged' /\ Heeded'
    BY <1>8, <2>1 DEF IndInv, Judged, Heeded, EarnedFailureKept, Failing, FailedUnits, Call,
       Working, Starting, Finishing
  <2>7. Said'
    BY <2>1 DEF IndInv, Said, StoppedMeansAsked, Stopped, TerminalEventAlways, ctxVars,
       Working, Starting, Finishing
  <2> QED BY <2>2, <2>3, <2>4, <2>5, <2>6, <2>7 DEF IndInv
<1> QED BY <1>6, <1>7, <1>8

LEMMA WaitHealthyInd == ASSUME IndInv, NEW u \in Unit, WaitHealthy(u) PROVE IndInv'
<1>1. /\ UNCHANGED <<pc, step, phase, outcome, removal, streak>>
      /\ UNCHANGED <<launch, recorded, unit, baseline, consecutive>>
      /\ UNCHANGED <<ctxVars, outVars, worldVars>>
      /\ health[u].at = "waiting"
  BY DEF WaitHealthy
<1>2. pc = "health"
  BY <1>1 DEF IndInv, Joined
<1>3. HealthErrors \subseteq HealthFailures
  BY ErrorFacts DEF IndInv, TypeOK
<1>4. PICK e \in HealthFailures \cup {None} :
        health' = [health EXCEPT ![u] = Call("returned", TRUE, e)]
  BY <1>3 DEF WaitHealthy
<1>5. health \in [Unit -> Calls]
  BY DEF IndInv, TypeOK
<1>6. health'[u] = Call("returned", TRUE, e) /\ \A v \in Unit \ {u} : health'[v] = health[v]
  BY <1>4, <1>5
<1> USE <1>1 DEF ctxVars, outVars, worldVars
<1>7. TypeOK'
  <2>1. health' \in [Unit -> Calls]
    BY <1>4, <1>5, ErrorFacts DEF Calls, Call, Places
  <2> QED BY <2>1 DEF IndInv, TypeOK
<1>8. Fresh' /\ Joined' /\ Recorded' /\ Signalled'
  BY <1>2 DEF IndInv, Fresh, Joined, Recorded, Signalled, Handles, Call
<1>9. Judged' /\ Heeded'
  <2>1. health'[u].error = e
    BY <1>6 DEF Call
  <2> QED BY <1>2, <1>6, <2>1 DEF IndInv, Judged, Heeded, Failing, EarnedFailureKept,
          Working, Starting, Finishing
<1>10. Said' /\ Counted'
  BY DEF IndInv, Said, Counted, StoppedMeansAsked, Stopped, TerminalEventAlways
<1> QED BY <1>7, <1>8, <1>9, <1>10 DEF IndInv

LEMMA HealthJoinInd == IndInv /\ HealthJoin => IndInv'
<1> SUFFICES ASSUME IndInv, HealthJoin PROVE IndInv'
  OBVIOUS
<1>1. /\ UNCHANGED <<step, removal, streak>>
      /\ UNCHANGED <<workVars, ctxVars, outVars, worldVars>>
      /\ pc = "health"
      /\ \A u \in Unit : launch[u].at \in {"idle", "returned"} /\ health[u].at = "returned"
  BY DEF HealthJoin, Returned, IndInv, Joined
<1>2. Failing(launch) = {} /\ recorded = Handles /\ streak <= consecutive
  BY <1>1 DEF IndInv, Heeded, Recorded, Finishing, Counted
<1> USE <1>1 DEF outVars, worldVars, workVars
<1>3. ASSUME NEW o \in Endings, Allowed(o), Finish(o), o = Stop => cancelled,
             UNCHANGED phase, EarnedFailureKept'
      PROVE  IndInv'
  <2>1. TypeOK'
    BY <1>3 DEF IndInv, TypeOK, Finish, Endings, Outcomes, ctxVars
  <2> QED BY <1>2, <1>3, <2>1, FinishInd DEF Working, Starting
<1>4. CASE Failing(health) # {}
  <2>1. PICK u \in Failing(health) : FirstError(health) = health[u].error
    BY <1>4, FirstErrorIsOne
  <2>2. /\ u \in Unit /\ health[u].error \in HealthFailures
        /\ health[u].error \in ErrorsOf(u)
    BY DEF Failing, IndInv, Judged, ErrorsOf
  <2>3. Finish(Classify(startCtx, health[u].error, "health")) /\ UNCHANGED phase
    BY <1>4, <2>1 DEF HealthJoin
  <2> QED BY <1>3, <2>2, <2>3, FirstFailureEnds
<1>5. CASE Failing(health) = {} /\ startCtx # "live"
  <2>1. Finish(ContextOutcome(startCtx, "health")) /\ UNCHANGED phase
    BY <1>5 DEF HealthJoin
  <2>2. EarnedFailureKept'
    BY <1>2, <1>5, NothingEarned DEF FailedUnits
  <2> QED BY <1>3, <1>5, <2>1, <2>2, ContextFacts
<1>6. CASE Failing(health) = {} /\ startCtx = "live"
  <2>1. pc' = "inspect" /\ phase' = "start" /\ UNCHANGED outcome
    BY <1>6 DEF HealthJoin
  <2>2. TypeOK'
    BY <2>1 DEF IndInv, TypeOK, ctxVars, Phases
  <2>3. Fresh' /\ Signalled' /\ Counted'
    BY <2>1 DEF IndInv, Fresh, Signalled, Counted, ctxVars, Working, Starting, Finishing
  <2>4. Joined' /\ Recorded'
    BY <2>1 DEF IndInv, Joined, Recorded, Handles
  <2>5. Judged' /\ Heeded'
    BY <1>2, <1>6, <2>1 DEF IndInv, Judged, Heeded, EarnedFailureKept, Failing, FailedUnits,
       ErrorsOf, Working, Starting, Finishing
  <2>6. Said'
    BY <2>1 DEF IndInv, Said, StoppedMeansAsked, Stopped, TerminalEventAlways, ctxVars,
       Working, Starting, Finishing
  <2> QED BY <2>2, <2>3, <2>4, <2>5, <2>6 DEF IndInv
<1> QED BY <1>4, <1>5, <1>6

-----------------------------------------------------------------------------
(* From the inspections on, the main goroutine is alone. *)

Alone == {"inspect", "ready", "monitor", "select", "poll"}

\* Where the main goroutine is alone, nothing has failed yet.
LEMMA AloneFacts ==
  ASSUME IndInv, pc \in Alone
  PROVE  /\ pc \in Working \ {"begin"} /\ FailedUnits = {} /\ recorded = Handles
         /\ streak <= consecutive /\ consecutive < DockerFailureLimit
         /\ \A u \in Unit : launch[u].at \in {"idle", "returned"} /\ health[u].at # "waiting"
BY DEF IndInv, Alone, Working, Starting, Finishing, Heeded, FailedUnits, Recorded, Counted, Joined

\* Its way into finish, with an ending the protocol allows.
LEMMA AloneFinishInd ==
  ASSUME IndInv, pc \in Alone, NEW o \in Endings, Allowed(o), Finish(o),
         o = Stop => cancelled \/ broken', broken' \in BOOLEAN,
         unit' \in Unit, baseline' \in [Unit -> 0 .. MaxBoots],
         consecutive' \in 0 .. DockerFailureLimit, streak' \in 0 .. DockerFailureLimit,
         streak' <= consecutive',
         UNCHANGED <<step, phase, ctxVars, launch, health, recorded, removal, events, report,
                     exit, worldVars>>
  PROVE  IndInv'
<1>1. TypeOK'
  BY DEF IndInv, TypeOK, Finish, Endings, Outcomes, ctxVars, worldVars
<1>2. EarnedFailureKept'
  BY AloneFacts, NothingEarned
<1> QED BY <1>1, <1>2, AloneFacts, FinishInd DEF worldVars

\* Its steps that lead on.
LEMMA AloneNextInd ==
  ASSUME IndInv, pc \in Alone, pc' \in Alone,
         pc' \in {"inspect", "ready"} => pc = "inspect" /\ UNCHANGED events,
         events' \in {events, Append(events, "ready")},
         phase' \in Phases, unit' \in Unit, baseline' \in [Unit -> 0 .. MaxBoots],
         consecutive' \in Nat, consecutive' < DockerFailureLimit,
         streak' \in Nat, streak' <= consecutive',
         UNCHANGED <<step, outcome, ctxVars, launch, health, recorded, removal, broken,
                     report, exit, worldVars>>
  PROVE  IndInv'
<1> USE DEF ctxVars, worldVars
<1>1. "ready" \in Events /\ events \in Seq(Events)
  BY DEF Events, IndInv, TypeOK
<1>2. TypeOK'
  <2>1. events' \in Seq(Events)
    BY <1>1, EventLists
  <2>2. consecutive' \in 0 .. DockerFailureLimit /\ streak' \in 0 .. DockerFailureLimit
    BY HerderAssumption
  <2> QED BY <2>1, <2>2 DEF IndInv, TypeOK, Alone
<1>3. Fresh' /\ Joined' /\ Recorded'
  BY DEF IndInv, Alone, Fresh, Joined, Recorded, Handles
<1>4. Signalled' /\ Judged'
  BY DEF IndInv, Alone, Signalled, Judged, Working, Starting, Finishing
<1>5. Heeded'
  BY NothingEarned, AloneFacts DEF FailedUnits, Failing, Alone, Heeded, Finishing
<1>6. Said' /\ Counted'
  <2>1. ~Stopped'
    <3>1. \A i \in 1 .. Len(events') : events'[i] \in {events[j] : j \in 1 .. Len(events)} \cup {"ready"}
      BY <1>1, EventLists
    <3> QED BY <3>1 DEF IndInv, Said, Stopped, Alone
  <2>2. events' # <<>>
    BY <1>1, EventLists DEF IndInv, Said, Alone, Working, Starting, Finishing
  <2>3. pc' \in Starting => events' = <<"started">>
    BY DEF IndInv, Said, Alone, Starting
  <2> QED BY <2>1, <2>2, <2>3
     DEF IndInv, Said, Counted, StoppedMeansAsked, TerminalEventAlways, Alone, Starting
<1> QED BY <1>2, <1>3, <1>4, <1>5, <1>6 DEF IndInv

\* An inspection that fails ends with an error of its own, in either context.
LEMMA InspectErrorFacts ==
  ASSUME IndInv, NEW ctx, NEW now,
         <<ctx, now>> \in {<<startCtx, "start">>, <<SignalCtx, "runtime">>},
         NEW e \in InspectErrors(ctx)
  PROVE  LET o == Classify(ctx, e, now)
         IN  o \in Endings /\ Allowed(o) /\ (o = Stop => cancelled)
<1>1. ctx \in Contexts /\ (ctx = "canceled" => cancelled) /\ (now = "runtime" => ctx # "deadline")
  BY DEF IndInv, TypeOK, Signalled, SignalCtx, Contexts
<1>2. PICK c \in AnyChain : e = Error("docker_unavailable", "runtime", c)
  BY <1>1, ChainsFacts DEF InspectErrors
<1> DEFINE o == Classify(ctx, e, now)
<1>3. /\ o \in {Failure("docker_unavailable", "runtime"), Failure("startup_timeout", now), Stop}
      /\ o = Stop => ctx = "canceled"
      /\ ctx # "deadline" => o \in {Failure("docker_unavailable", "runtime"), Stop}
  BY <1>1, <1>2, ClassifyFacts
<1>4. "docker_unavailable" \in Codes /\ "runtime" \in Phases
  BY Table, "docker_unavailable" \in ValidateSteps[1].codes DEF ValidateSteps, Codes, Phases
<1>5. "runtime" \in PhasesOf("docker_unavailable")
  BY DEF PhasesOf
<1> QED BY <1>1, <1>3, <1>4, <1>5, AllowedFacts

LEMMA InspectInd == IndInv /\ Inspect => IndInv'
<1> SUFFICES ASSUME IndInv, Inspect PROVE IndInv'
  OBVIOUS
<1>1. /\ UNCHANGED <<step, phase, removal, streak, launch, health, recorded, consecutive>>
      /\ UNCHANGED <<ctxVars, outVars, worldVars>>
      /\ pc = "inspect"
  BY DEF Inspect
<1>2. /\ unit \in Unit /\ baseline \in [Unit -> 0 .. MaxBoots] /\ boots \in [Unit -> 0 .. MaxBoots]
      /\ consecutive \in Nat /\ streak \in Nat /\ phase \in Phases /\ broken \in BOOLEAN
      /\ consecutive \in 0 .. DockerFailureLimit /\ streak \in 0 .. DockerFailureLimit
      /\ streak <= consecutive /\ consecutive < DockerFailureLimit
  BY <1>1, AloneFacts, HerderAssumption DEF IndInv, TypeOK, Alone
<1> USE <1>1, <1>2 DEF outVars, Alone
<1>3. ASSUME NEW o \in Endings, Allowed(o), Finish(o), o = Stop => cancelled,
             unit' \in Unit, baseline' \in [Unit -> 0 .. MaxBoots]
      PROVE  IndInv'
  BY <1>3, AloneFinishInd
<1>4. CASE /\ \E e \in InspectErrors(startCtx) : Finish(Classify(startCtx, e, "start"))
           /\ UNCHANGED <<unit, baseline>>
  <2>1. PICK e \in InspectErrors(startCtx) : Finish(Classify(startCtx, e, "start"))
    BY <1>4
  <2> DEFINE o == Classify(startCtx, e, "start")
  <2>2. o \in Endings /\ Allowed(o) /\ (o = Stop => cancelled)
    BY InspectErrorFacts
  <2>3. Finish(o)
    BY <2>1
  <2> HIDE DEF o
  <2> QED BY <1>3, <1>4, <2>2, <2>3
<1>5. CASE /\ \E code \in {"container_start_failed", "endpoint_mac_mismatch"} :
                Finish(Failure(code, "start"))
           /\ UNCHANGED <<unit, baseline>>
  <2>1. PICK code \in {"container_start_failed", "endpoint_mac_mismatch"} :
          Finish(Failure(code, "start"))
    BY <1>5
  <2>2. code \in Codes /\ "start" \in Phases /\ "start" \in PhasesOf(code)
    BY DEF Codes, Phases, PhasesOf
  <2>3. Failure(code, "start") # Stop
    BY DEF Failure, Stop
  <2> QED BY <1>3, <1>5, <2>1, <2>2, <2>3, AllowedFacts
<1>6. CASE /\ baseline' = [baseline EXCEPT ![unit] = boots[unit]]
           /\ IF unit < Units
              THEN unit' = unit + 1 /\ UNCHANGED <<pc, outcome>>
              ELSE IF startCtx = "live"
              THEN unit' = 1 /\ pc' = "ready" /\ UNCHANGED outcome
              ELSE Finish(ContextOutcome(startCtx, "start")) /\ UNCHANGED unit
  <2>1. baseline' \in [Unit -> 0 .. MaxBoots]
    BY <1>6
  <2>2. CASE ~(unit < Units) /\ startCtx # "live"
    BY <1>3, <1>6, <2>1, <2>2, ContextFacts
  <2>3. CASE unit < Units \/ startCtx = "live"
    <3>1. UNCHANGED outcome /\ unit' \in Unit /\ pc' \in {"inspect", "ready"}
      BY <1>6, <2>3, HerderAssumption DEF Unit
    <3> QED BY <2>1, <3>1, AloneNextInd
  <2> QED BY <2>2, <2>3
<1> QED BY <1>4, <1>5, <1>6 DEF Inspect

LEMMA EmitReadyInd == IndInv /\ EmitReady => IndInv'
<1> SUFFICES ASSUME IndInv, EmitReady PROVE IndInv'
  OBVIOUS
<1>1. /\ UNCHANGED <<step, removal, streak, report, exit>>
      /\ UNCHANGED <<workVars, ctxVars, worldVars>>
      /\ pc = "ready"
  BY DEF EmitReady
<1>2. /\ unit \in Unit /\ baseline \in [Unit -> 0 .. MaxBoots]
      /\ consecutive \in Nat /\ streak \in Nat /\ phase \in Phases
      /\ consecutive \in 0 .. DockerFailureLimit /\ streak \in 0 .. DockerFailureLimit
      /\ streak <= consecutive /\ consecutive < DockerFailureLimit
  BY <1>1, AloneFacts, HerderAssumption DEF IndInv, TypeOK, Alone
<1> USE <1>1, <1>2 DEF workVars, Alone
<1>3. CASE /\ events' = Append(events, "ready") /\ pc' = "monitor" /\ phase' = "runtime"
           /\ UNCHANGED <<broken, outcome>>
  BY <1>3, AloneNextInd DEF Phases
<1>4. CASE broken' = TRUE /\ Finish(Stop) /\ UNCHANGED <<events, phase>>
  BY <1>4, AloneFinishInd, AllowedFacts
<1> QED BY <1>3, <1>4 DEF EmitReady

-----------------------------------------------------------------------------
(* monitor. *)

LEMMA MonitorInd == IndInv /\ (MonitorLoop \/ Select) => IndInv'
<1> SUFFICES ASSUME IndInv, MonitorLoop \/ Select PROVE IndInv'
  OBVIOUS
<1>1. /\ UNCHANGED <<step, phase, removal, streak>>
      /\ UNCHANGED <<workVars, ctxVars, outVars, worldVars>>
      /\ pc \in {"monitor", "select"}
      /\ \/ cancelled /\ Finish(Stop)
         \/ pc' \in {"select", "poll"} /\ UNCHANGED outcome
  BY DEF MonitorLoop, Select
<1>2. /\ unit \in Unit /\ baseline \in [Unit -> 0 .. MaxBoots]
      /\ consecutive \in Nat /\ streak \in Nat /\ phase \in Phases /\ broken \in BOOLEAN
      /\ consecutive \in 0 .. DockerFailureLimit /\ streak \in 0 .. DockerFailureLimit
      /\ streak <= consecutive /\ consecutive < DockerFailureLimit
  BY <1>1, AloneFacts, HerderAssumption DEF IndInv, TypeOK, Alone
<1> USE <1>1, <1>2 DEF workVars, outVars, Alone
<1>3. CASE cancelled /\ Finish(Stop)
  BY <1>3, AloneFinishInd, AllowedFacts
<1>4. CASE pc' \in {"select", "poll"} /\ UNCHANGED outcome
  BY <1>4, AloneNextInd
<1> QED BY <1>3, <1>4

LEMMA PollFailsInd == IndInv /\ PollFails => IndInv'
<1> SUFFICES ASSUME IndInv, PollFails PROVE IndInv'
  OBVIOUS
<1>1. /\ UNCHANGED <<step, phase, removal, launch, health, recorded, baseline>>
      /\ UNCHANGED <<ctxVars, outVars, worldVars>>
      /\ pc = "poll" /\ unit' = 1
      /\ consecutive' = consecutive + 1 /\ streak' = streak + 1
  BY DEF PollFails
<1>2. /\ 1 \in Unit /\ baseline \in [Unit -> 0 .. MaxBoots]
      /\ consecutive \in Nat /\ streak \in Nat /\ phase \in Phases /\ broken \in BOOLEAN
      /\ streak <= consecutive /\ consecutive < DockerFailureLimit
  BY <1>1, AloneFacts, HerderAssumption DEF IndInv, TypeOK, Alone, Unit
<1>3. /\ consecutive' \in Nat /\ streak' \in Nat /\ streak' <= consecutive'
      /\ consecutive' \in 0 .. DockerFailureLimit /\ streak' \in 0 .. DockerFailureLimit
  BY <1>1, <1>2, HerderAssumption
<1> USE <1>1, <1>2, <1>3 DEF outVars, Alone
<1>4. CASE consecutive' >= DockerFailureLimit
  <2>1. PICK e \in InspectErrors(SignalCtx) : Finish(Classify(SignalCtx, e, "runtime"))
    BY <1>4 DEF PollFails
  <2> DEFINE o == Classify(SignalCtx, e, "runtime")
  <2>2. o \in Endings /\ Allowed(o) /\ (o = Stop => cancelled)
    BY InspectErrorFacts
  <2>3. Finish(o)
    BY <2>1
  <2> HIDE DEF o
  <2> QED BY <2>2, <2>3, AloneFinishInd
<1>5. CASE ~(consecutive' >= DockerFailureLimit)
  <2>1. pc' = "monitor" /\ UNCHANGED outcome
    BY <1>5 DEF PollFails
  <2>2. consecutive' < DockerFailureLimit
    BY <1>5, HerderAssumption
  <2> QED BY <2>1, <2>2, AloneNextInd
<1> QED BY <1>4, <1>5

LEMMA PollInd == IndInv /\ Poll => IndInv'
<1> SUFFICES ASSUME IndInv, Poll PROVE IndInv'
  OBVIOUS
<1>1. /\ UNCHANGED <<step, phase, removal, launch, health, recorded, baseline>>
      /\ UNCHANGED <<ctxVars, outVars, worldVars>>
      /\ pc = "poll" /\ streak' = 0
  BY DEF Poll
<1>2. /\ unit \in Unit /\ baseline \in [Unit -> 0 .. MaxBoots]
      /\ consecutive \in Nat /\ phase \in Phases /\ broken \in BOOLEAN
      /\ consecutive < DockerFailureLimit
      /\ consecutive \in 0 .. DockerFailureLimit /\ 0 \in 0 .. DockerFailureLimit
      /\ 0 < DockerFailureLimit
  BY <1>1, AloneFacts, HerderAssumption DEF IndInv, TypeOK, Alone
<1> USE <1>1, <1>2 DEF outVars, Alone
<1>3. CASE Verdict(unit) # None
  <2> DEFINE code == Verdict(unit)
  <2>1. Finish(Failure(code, "runtime")) /\ UNCHANGED <<unit, consecutive>>
    BY <1>3 DEF Poll
  <2>2. code \in {"device_exited", "device_unhealthy", "device_restarted", "network_detached"}
    BY <1>3 DEF Verdict
  <2> HIDE DEF code
  <2>3. code \in Codes /\ "runtime" \in Phases /\ "runtime" \in PhasesOf(code)
    BY <2>2 DEF Codes, Phases, PhasesOf
  <2>4. Failure(code, "runtime") # Stop
    BY DEF Failure, Stop
  <2> QED BY <2>1, <2>3, <2>4, AllowedFacts, AloneFinishInd
<1>4. CASE Verdict(unit) = None
  <2>1. /\ unit' \in Unit /\ consecutive' \in {0, consecutive}
        /\ pc' \in {"poll", "monitor"} /\ UNCHANGED outcome
    BY <1>4, HerderAssumption DEF Poll, Unit
  <2>2. consecutive' \in Nat /\ consecutive' < DockerFailureLimit /\ streak' <= consecutive'
    BY <2>1
  <2> QED BY <2>1, <2>2, AloneNextInd
<1> QED BY <1>3, <1>4

-----------------------------------------------------------------------------
(* finish. *)

LEMMA CleanupInd == IndInv /\ Cleanup => IndInv'
<1> SUFFICES ASSUME IndInv, Cleanup PROVE IndInv'
  OBVIOUS
<1>1. /\ UNCHANGED <<step, phase, outcome, streak>>
      /\ UNCHANGED <<workVars, ctxVars, outVars, worldVars>>
      /\ pc = "cleanup"
      /\ \/ /\ pc' = "terminating"
            /\ removal' = [u \in Unit |-> IF u \in recorded THEN "removing" ELSE "idle"]
         \/ pc' = "report" /\ step = 1 /\ UNCHANGED removal
  BY Table DEF Cleanup, BackendUp, IndInv, TypeOK
<1> USE <1>1 DEF workVars, ctxVars, outVars, worldVars
<1>2. TypeOK'
  BY DEF IndInv, TypeOK
<1>3. Fresh' /\ Joined' /\ Signalled'
  BY DEF IndInv, Fresh, Joined, Signalled, Finishing
<1>4. Recorded'
  BY DEF IndInv, Recorded, Handles
<1>5. Judged' /\ Heeded'
  BY DEF IndInv, Judged, Heeded, EarnedFailureKept, FailedUnits, Failing, ErrorsOf,
     Working, Starting, Finishing
<1>6. Said' /\ Counted'
  BY DEF IndInv, Said, Counted, StoppedMeansAsked, Stopped, TerminalEventAlways,
     Working, Starting, Finishing
<1> QED BY <1>2, <1>3, <1>4, <1>5, <1>6 DEF IndInv

LEMMA TerminateInd == ASSUME IndInv, NEW u \in Unit, Terminate(u) PROVE IndInv'
<1>1. /\ UNCHANGED <<pc, step, phase, outcome, streak, boots, attached>>
      /\ UNCHANGED <<workVars, ctxVars, outVars>>
      /\ removal[u] = "removing"
      /\ cont \in [Unit -> ContainerStates]
      /\ removal \in [Unit -> {"idle", "removing", "removed", "failed"}]
  BY DEF Terminate, IndInv, TypeOK
<1>2. pc = "terminating"
  BY <1>1 DEF IndInv, Recorded
<1>3. \E c \in {"absent", cont[u]} : cont' = [cont EXCEPT ![u] = c]
  BY DEF Terminate
<1>4. \E r \in {"removed", "failed"} : removal' = [removal EXCEPT ![u] = r]
  BY DEF Terminate
<1>11. cont' \in [Unit -> ContainerStates]
  BY <1>1, <1>3 DEF ContainerStates
<1>12. removal' \in [Unit -> {"idle", "removing", "removed", "failed"}]
  BY <1>1, <1>4
<1> USE <1>1 DEF workVars, ctxVars, outVars
<1>5. TypeOK'
  BY <1>11, <1>12 DEF IndInv, TypeOK
<1>6. Fresh'
  BY <1>3 DEF IndInv, Fresh
<1>7. Joined' /\ Signalled'
  BY DEF IndInv, Joined, Signalled
<1>8. Recorded'
  BY <1>2, <1>4 DEF IndInv, Recorded, Handles
<1>9. Judged' /\ Heeded'
  BY DEF IndInv, Judged, Heeded, EarnedFailureKept, FailedUnits, Failing, ErrorsOf
<1>10. Said' /\ Counted'
  BY DEF IndInv, Said, Counted, StoppedMeansAsked, Stopped, TerminalEventAlways
<1> QED BY <1>5, <1>6, <1>7, <1>8, <1>9, <1>10 DEF IndInv

\* The last event, of whatever kind, once no Terminate is under way.
LEMMA EmitTerminalInd ==
  ASSUME IndInv, pc \in {"terminating", "report"}, TerminatesReturned,
         NEW event \in {"stopped", "failed", "failed_unclean"},
         NEW rep \in Outcomes \cup {Failure("cleanup_failed", "cleanup")}
                              \cup {Reason(why) : why \in {"signal", "canceled"}},
         EmitTerminal(event, rep, TRUE),
         event = "stopped" => rep = Reason(stopReason) /\ (cancelled \/ broken)
  PROVE  IndInv'
<1>1. /\ pc' = "done" /\ report' = rep
      /\ UNCHANGED <<step, phase, outcome, removal, streak>>
      /\ UNCHANGED <<workVars, ctxVars, worldVars>>
      /\ exit' \in {"0", "1"}
      /\ \/ ~broken /\ events' = Append(events, event) /\ UNCHANGED broken
         \/ broken' = TRUE /\ UNCHANGED events
  BY DEF EmitTerminal, IndInv, TypeOK
<1> USE <1>1 DEF workVars, ctxVars, worldVars
<1>2. events \in Seq(Events) /\ event \in Events /\ broken \in BOOLEAN
  BY DEF IndInv, TypeOK, Events
<1>3. TypeOK'
  <2>1. events' \in Seq(Events) /\ broken' \in BOOLEAN
    BY <1>2, EventLists
  <2> QED BY <2>1 DEF IndInv, TypeOK
<1>4. Fresh' /\ Joined' /\ Signalled'
  BY DEF IndInv, Fresh, Joined, Signalled, Finishing
<1>5. Recorded'
  <2>1. recorded' = Handles' /\ pc' # "report"
    BY DEF IndInv, Recorded, Handles
  <2>2. \A u \in Unit : removal[u] # "removing"
    BY DEF TerminatesReturned
  <2>3. ASSUME NEW u \in recorded PROVE removal[u] # "idle"
    <3>1. CASE pc = "terminating"
      BY <3>1 DEF IndInv, TypeOK, Recorded
    <3>2. CASE pc = "report"
      BY <3>2 DEF IndInv, Recorded, Joined, Call, Handles
    <3> QED BY <3>1, <3>2
  <2> QED BY <2>1, <2>2, <2>3 DEF Recorded
<1>6. Judged' /\ Heeded'
  BY DEF IndInv, Judged, Heeded, EarnedFailureKept, FailedUnits, Failing, ErrorsOf,
     Working, Starting, Finishing
<1>7. Said' /\ Counted'
  <2>1. StoppedMeansAsked'
    <3>1. CASE ~broken /\ events' = Append(events, event)
      <4>1. \A i \in 1 .. Len(events') : events'[i] \in {events[j] : j \in 1 .. Len(events)} \cup {event}
        BY <1>2, <3>1, EventLists
      <4>2. Stopped' => event = "stopped"
        BY <4>1 DEF IndInv, Said, Stopped
      <4>3. event = "stopped" => rep = Reason(stopReason) /\ cancelled
        BY <3>1
      <4> QED BY <4>2, <4>3 DEF StoppedMeansAsked, stopReason
    <3>2. CASE UNCHANGED events
      BY <3>2 DEF IndInv, Said, StoppedMeansAsked, Stopped
    <3> QED BY <3>1, <3>2
  <2>2. TerminalEventAlways'
    BY <1>2, EventLists DEF TerminalEventAlways
  <2> QED BY <2>1, <2>2 DEF IndInv, Said, Counted, Working, Starting, Finishing
<1> QED BY <1>3, <1>4, <1>5, <1>6, <1>7 DEF IndInv

\* What ReportClean says is always something the protocol has a row for.
LEMMA ReportCleanFacts ==
  ASSUME IndInv, pc \in {"terminating", "report"}, ReportClean
  PROVE  \/ outcome = Stop /\ EmitTerminal("stopped", Reason(stopReason), TRUE)
         \/ outcome # Stop /\ EmitTerminal("failed", outcome, TRUE)
<1>1. CASE outcome = Stop
  BY <1>1 DEF ReportClean
<1>2. CASE outcome # Stop
  <2>1. outcome.phase \in PhasesOf(outcome.code)
    BY <1>2 DEF IndInv, Judged, Allowed, Finishing
  <2>2. (outcome.phase \in PhasesOf(outcome.code)) = TRUE
    BY <2>1
  <2>3. EmitTerminal("failed", outcome, outcome.phase \in PhasesOf(outcome.code))
    BY <1>2 DEF ReportClean
  <2> QED BY <1>2, <2>2, <2>3
<1> QED BY <1>1, <1>2

LEMMA ReportInd ==
  ASSUME IndInv, ReportWithoutBackend \/ ConfirmFails \/ Confirm
  PROVE  IndInv'
<1>1. pc \in {"terminating", "report"} /\ TerminatesReturned
  BY DEF ReportWithoutBackend, ConfirmFails, Confirm, IndInv, Recorded, TerminatesReturned
<1>2. ReportClean \/ ReportUnclean
  BY DEF ReportWithoutBackend, ConfirmFails, Confirm
<1>3. CASE ReportClean
  <2>1. outcome = Stop => cancelled \/ broken
    BY <1>1 DEF IndInv, Signalled, Finishing
  <2>2. outcome \in Outcomes /\ stopReason \in {"signal", "canceled"}
    BY DEF IndInv, TypeOK, stopReason
  <2> QED BY <1>1, <1>3, <2>1, <2>2, ReportCleanFacts, EmitTerminalInd
<1>4. CASE ReportUnclean
  BY <1>1, <1>4, EmitTerminalInd DEF ReportUnclean
<1> QED BY <1>2, <1>3, <1>4

-----------------------------------------------------------------------------
(* The world, and the whole. *)

LEMMA WorldInd == ASSUME IndInv, NEW u \in Unit, WorldAct(u) PROVE IndInv'
<1>1. /\ UNCHANGED <<pc, step, phase, outcome, removal, streak>>
      /\ UNCHANGED <<workVars, ctxVars, outVars>>
  BY DEF WorldAct, HealthChanges, Crash, ExternalRestart, Detach, Reattach, WorldStep
<1>2. /\ cont \in [Unit -> ContainerStates] /\ boots \in [Unit -> 0 .. MaxBoots]
      /\ attached \in [Unit -> BOOLEAN]
  BY DEF IndInv, TypeOK
<1>3. launch[u].at = "returned"
  BY DEF WorldAct, HealthChanges, Crash, ExternalRestart, Detach, Reattach, Up, IndInv, Fresh
<1>4. /\ \E c \in ContainerStates : cont' = [cont EXCEPT ![u] = c]
      /\ \E n \in 0 .. MaxBoots : boots' = [boots EXCEPT ![u] = n]
      /\ attached' \in [Unit -> BOOLEAN]
  <2>1. cont = [cont EXCEPT ![u] = cont[u]] /\ boots = [boots EXCEPT ![u] = boots[u]]
    BY <1>2
  <2>2. CASE HealthChanges(u) \/ Crash(u)
    <3>1. boots' = boots /\ attached' = attached
      BY <2>2 DEF HealthChanges, Crash
    <3>2. \E c \in ContainerStates : cont' = [cont EXCEPT ![u] = c]
      BY <2>2 DEF HealthChanges, Crash, ContainerStates
    <3> QED BY <1>2, <2>1, <3>1, <3>2
  <2>4. CASE Detach(u) \/ Reattach(u)
    <3>1. /\ boots' = boots /\ cont' = cont
          /\ \E b \in BOOLEAN : attached' = [attached EXCEPT ![u] = b]
      BY <2>4 DEF Detach, Reattach
    <3> QED BY <1>2, <2>1, <3>1
  <2>3. CASE ExternalRestart(u)
    <3>1. /\ boots' = [boots EXCEPT ![u] = boots[u] + 1] /\ boots[u] < MaxBoots
          /\ cont' = [cont EXCEPT ![u] = "starting"] /\ attached' = attached
      BY <2>3 DEF ExternalRestart
    <3>2. boots[u] + 1 \in 0 .. MaxBoots /\ "starting" \in ContainerStates
      BY <1>2, <3>1, HerderAssumption DEF ContainerStates
    <3> QED BY <1>2, <3>1, <3>2
  <2> QED BY <2>2, <2>3, <2>4 DEF WorldAct
<1>10. cont' \in [Unit -> ContainerStates] /\ boots' \in [Unit -> 0 .. MaxBoots]
  BY <1>2, <1>4
<1> USE <1>1 DEF workVars, ctxVars, outVars
<1>5. TypeOK'
  BY <1>4, <1>10 DEF IndInv, TypeOK
<1>6. Fresh'
  BY <1>2, <1>3, <1>4 DEF IndInv, Fresh
<1>7. Joined' /\ Recorded' /\ Signalled'
  BY DEF IndInv, Joined, Recorded, Signalled, Handles
<1>8. Judged' /\ Heeded'
  BY DEF IndInv, Judged, Heeded, EarnedFailureKept, FailedUnits, Failing, ErrorsOf
<1>9. Said' /\ Counted'
  BY DEF IndInv, Said, Counted, StoppedMeansAsked, Stopped, TerminalEventAlways
<1> QED BY <1>5, <1>6, <1>7, <1>8, <1>9 DEF IndInv

LEMMA StutterInd == IndInv /\ UNCHANGED vars => IndInv'
<1> SUFFICES ASSUME IndInv, UNCHANGED vars PROVE IndInv'
  OBVIOUS
<1> USE DEF vars
<1>1. TypeOK'
  BY DEF IndInv, TypeOK
<1>2. Fresh' /\ Joined' /\ Recorded' /\ Signalled'
  BY DEF IndInv, Fresh, Joined, Recorded, Signalled, Handles
<1>3. Judged' /\ Heeded'
  BY DEF IndInv, Judged, Heeded, EarnedFailureKept, FailedUnits, Failing, ErrorsOf
<1>4. Said' /\ Counted'
  BY DEF IndInv, Said, Counted, StoppedMeansAsked, Stopped, TerminalEventAlways
<1> QED BY <1>1, <1>2, <1>3, <1>4 DEF IndInv

\* The invariant is inductive.
LEMMA StepInd == IndInv /\ [Next]_vars => IndInv'
<1> SUFFICES ASSUME IndInv, [Next]_vars PROVE IndInv'
  OBVIOUS
<1>1. CASE Signal \/ CallerCancels \/ DeadlinePasses
  BY <1>1, ContextInd
<1>2. CASE Validate
  BY <1>2, ValidatePassesInd, ValidateFailsInd DEF Validate
<1>3. CASE MainStep
  BY <1>3, EmitStartedInd, PreparedInd, LaunchJoinInd, HealthJoinInd, InspectInd, EmitReadyInd,
     MonitorInd, CleanupInd, ReportInd DEF MainStep
<1>4. CASE PollFails \/ Poll
  BY <1>4, PollFailsInd, PollInd
<1>5. ASSUME NEW u \in Unit, UnitStep(u) \/ WorldAct(u) PROVE IndInv'
  BY <1>5, LaunchInd, WaitHealthyInd, TerminateInd, WorldInd DEF UnitStep, LaunchStep
<1>6. CASE UNCHANGED vars
  BY <1>6, StutterInd
<1> QED BY <1>1, <1>2, <1>3, <1>4, <1>5, <1>6 DEF Next

\* Hence it always holds.
LEMMA Inductive == Spec => []IndInv
BY InitInd, StepInd, PTL DEF Spec

-----------------------------------------------------------------------------
(* Theorems. *)

\* Every variable of a run keeps its shape, the failure count and the number of
\* starts within their bounds (run.go).
THEOREM TypeCorrect == Spec => []TypeOK
<1>1. IndInv => TypeOK
  BY DEF IndInv
<1> QED BY <1>1, Inductive, PTL

\* Whatever happens, a run whose stdout is intact ends by saying how it ended
\* (run.go, finish; protocol.go, Failed, Stopped).
THEOREM AlwaysSaysHow == Spec => []TerminalEventAlways
<1>1. IndInv => TerminalEventAlways
  BY DEF IndInv, Said
<1> QED BY <1>1, Inductive, PTL

\* A run that is over has tried to terminate every container it had a handle of
\* (run.go, start, cleanup).
THEOREM NoHandleLeft == Spec => []EveryHandleTerminated
<1>1. IndInv => EveryHandleTerminated
  <2> SUFFICES ASSUME IndInv, pc = "done", NEW u \in Unit, launch[u].handle
               PROVE  removal[u] \in {"removed", "failed"}
    BY DEF EveryHandleTerminated
  <2>1. u \in recorded
    BY DEF IndInv, Recorded, Handles
  <2> QED BY <2>1 DEF IndInv, TypeOK, Recorded
<1> QED BY <1>1, Inductive, PTL

\* No failure, timeout or lost write ends in stopped, and the reason it gives is
\* the one it has: a signal, or the caller's cancellation (run.go, errStopped,
\* stopReason).
THEOREM StoppedOnlyWhenAsked == Spec => []StoppedMeansAsked
<1>1. IndInv => StoppedMeansAsked
  BY DEF IndInv, Said
<1> QED BY <1>1, Inductive, PTL

\* A failure a container earned is what the run ends with, however late a signal
\* or a deadline came in (run.go, classify).
THEOREM EarnedFailureWins == Spec => []EarnedFailureKept
<1>1. IndInv => EarnedFailureKept
  BY DEF IndInv, Heeded
<1> QED BY <1>1, Inductive, PTL

-----------------------------------------------------------------------------
(* Refinement: a run is what HerderProtocol promises the caller. *)

\* Before the backend is up there is no container.
LEMMA NothingOwned == IndInv /\ (pc \in {"begin", "validate"} \/ step = 1) => Owned = {}
BY DEF IndInv, Joined, Fresh, Call, Owned

\* A run begins where the protocol does.
LEMMA InitKeepsProtocol == Init => Protocol!Init
BY DEF Init, Protocol!Init, Owned

\* What a last event says, and what it may be said of.
LEMMA EndKeepsProtocol ==
  ASSUME IndInv, pc \in {"terminating", "report"},
         NEW event \in {"stopped", "failed", "failed_unclean"}, NEW rep,
         EmitTerminal(event, rep, TRUE), event # "failed_unclean" => Owned = {}
  PROVE  Protocol!Next
<1>1. exit = "none" /\ events # <<>>
  BY DEF IndInv, Said, Finishing
<1>2. Owned' = Owned
  BY DEF EmitTerminal, worldVars, Owned
<1>3. CASE /\ events' = Append(events, event)
           /\ exit' = IF event = "stopped" THEN "0" ELSE "1"
  BY <1>1, <1>2, <1>3 DEF Protocol!Next, Protocol!End, Protocol!Terminal
<1>4. CASE exit' = "1" /\ UNCHANGED events
  BY <1>1, <1>2, <1>4 DEF Protocol!Next, Protocol!EndSilently
<1> QED BY <1>3, <1>4 DEF EmitTerminal

\* The last word of a run is true.
LEMMA ReportKeepsProtocol ==
  ASSUME IndInv, ReportWithoutBackend \/ ConfirmFails \/ Confirm
  PROVE  Protocol!Next
<1>1. pc \in {"terminating", "report"}
  BY DEF ReportWithoutBackend, ConfirmFails, Confirm
<1>2. CASE ReportUnclean
  BY <1>1, <1>2, EndKeepsProtocol DEF ReportUnclean
<1>3. CASE ReportClean /\ Owned = {}
  BY <1>1, <1>3, ReportCleanFacts, EndKeepsProtocol
<1>4. ReportWithoutBackend => Owned = {}
  BY NothingOwned DEF ReportWithoutBackend, IndInv, Recorded
<1> QED BY <1>2, <1>3, <1>4 DEF ReportWithoutBackend, ConfirmFails, Confirm

\* Steps that create or remove a container, and steps that do neither.
LEMMA WorkKeepsProtocol ==
  ASSUME IndInv, pc \notin {"begin", "done"}, UNCHANGED <<events, exit>>
  PROVE  Protocol!Next
BY DEF IndInv, TypeOK, Said, Working, Starting, Finishing, Protocol!Next, Protocol!Work

\* Every step of a run is one of the protocol, or none.
LEMMA StepKeepsProtocol ==
  IndInv /\ [Next]_vars => [Protocol!Next]_(Protocol!vars)
<1> SUFFICES ASSUME IndInv, [Next]_vars PROVE [Protocol!Next]_(Protocol!vars)
  OBVIOUS
<1> USE DEF Protocol!vars, outVars, worldVars
<1>1. CASE UNCHANGED <<events, exit, cont>>
  BY <1>1 DEF Owned
<1>2. CASE EmitStarted
  <2>1. exit = "none" /\ events = <<>> /\ Owned' = Owned
    BY <1>2 DEF EmitStarted, IndInv, Said, Owned
  <2> QED BY <1>2, <2>1 DEF EmitStarted, Protocol!Next, Protocol!Begin, Protocol!EndSilently
<1>3. CASE EmitReady
  <2>1. exit = "none" /\ events = <<"started">> /\ Owned' = Owned /\ exit' = exit
    BY <1>3 DEF EmitReady, IndInv, Said, Starting, Owned
  <2>2. Append(<<"started">>, "ready") = <<"started", "ready">>
    <3> DEFINE S == {"started", "ready"}
               s == Append(<<"started">>, "ready")
               t == <<"started", "ready">>
    <3>1. <<"started">> \in Seq(S) /\ t \in Seq(S)
      OBVIOUS
    <3>2. s \in Seq(S) /\ Len(s) = 2 /\ s[1] = "started" /\ s[2] = "ready"
      BY <3>1
    <3>3. Len(t) = 2 /\ t[1] = "started" /\ t[2] = "ready"
      OBVIOUS
    <3> HIDE DEF s, t, S
    <3>4. \A i \in 1 .. Len(s) : s[i] = t[i]
      BY <3>2, <3>3
    <3>5. s = t
      BY <3>1, <3>2, <3>3, <3>4, SeqEqual
    <3> QED BY <3>5 DEF s, t
  <2>3. CASE events' = Append(events, "ready")
    BY <2>1, <2>2, <2>3 DEF Protocol!Next, Protocol!Ready
  <2>4. CASE UNCHANGED events
    BY <2>1, <2>4
  <2> QED BY <1>3, <2>3, <2>4 DEF EmitReady
<1>4. CASE ReportWithoutBackend \/ ConfirmFails \/ Confirm
  BY <1>4, ReportKeepsProtocol
<1>5. ASSUME NEW u \in Unit, UnitStep(u) PROVE [Protocol!Next]_(Protocol!vars)
  <2>1. CASE LaunchStep(u)
    BY <2>1, LaunchStepFacts, WorkKeepsProtocol
  <2>2. CASE WaitHealthy(u)
    BY <1>1, <2>2 DEF WaitHealthy
  <2>3. CASE Terminate(u)
    BY <2>3, WorkKeepsProtocol DEF Terminate, IndInv, Recorded
  <2> QED BY <1>5, <2>1, <2>2, <2>3 DEF UnitStep, LaunchStep
<1>6. ASSUME NEW u \in Unit, WorldAct(u) PROVE [Protocol!Next]_(Protocol!vars)
  <2>1. UNCHANGED <<events, exit>> /\ Running
    BY <1>6 DEF WorldAct, HealthChanges, Crash, ExternalRestart, Detach, Reattach, WorldStep, Observed
  <2>2. launch[u].at = "returned"
    BY <1>6 DEF WorldAct, HealthChanges, Crash, ExternalRestart, Detach, Reattach, Up, IndInv, Fresh
  <2>3. pc \notin {"begin", "done"}
    BY <2>1, <2>2 DEF IndInv, Joined, Call, Said, Running
  <2> QED BY <2>1, <2>3, WorkKeepsProtocol
<1>7. CASE \/ Signal \/ CallerCancels \/ DeadlinePasses
           \/ Validate \/ PollFails \/ Poll
  BY <1>1, <1>7 DEF Signal, CallerCancels, DeadlinePasses, ContextStep, Validate, ValidatePasses, ValidateFails,
     PollFails, Poll
<1>8. CASE Prepared \/ LaunchJoin \/ HealthJoin \/ Inspect \/ MonitorLoop \/ Select \/ Cleanup
  BY <1>1, <1>8 DEF Prepared, LaunchJoin, HealthJoin, Inspect, MonitorLoop, Select, Cleanup
<1> QED BY <1>1, <1>2, <1>3, <1>4, <1>5, <1>6, <1>7, <1>8 DEF Next, MainStep, vars

\* A run implements HerderProtocol: events come in order, at most one of them is
\* terminal, the exit status goes with it, stopped and a failed event that claims
\* complete cleanup leave no container, and nothing is created after the end
\* (protocol.go, Writer; run.go, finish).
THEOREM ImplementsProtocol == Spec => KeepsProtocol
<1>1. Protocol!Spec <=> Protocol!Init /\ [][Protocol!Next]_(Protocol!vars)
  BY DEF Protocol!Spec
<1> QED BY <1>1, InitKeepsProtocol, StepKeepsProtocol, Inductive, PTL DEF Spec, KeepsProtocol
=============================================================================
