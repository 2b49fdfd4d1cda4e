---------------------------- MODULE InformDevice ----------------------------
(***************************************************************************)
(* One emulated device: the protocol state of inform/session.go, the       *)
(* observable state of device.go and the inform loop of loop.go, talking   *)
(* to a controller that may answer anything.                               *)
(*                                                                         *)
(* The loop is one goroutine.  It takes the device lock four times in a    *)
(* cycle (encode, sample, apply, settle) and lets go of it in between, so  *)
(* a State reader can see the device between any two of the steps below:   *)
(* every state of this module is observable.                               *)
(***************************************************************************)
EXTENDS Naturals

CONSTANTS
  DefaultKey,     \* authkey of an unadopted device
  Keys,           \* well-formed authkeys a controller hands out
  MalformedKeys,  \* values that are not 32 hex digits: ParseKey refuses them
  URLs,           \* inform URLs
  BootURL,        \* the inform URL the device was created with
  CfgVersions,    \* configuration versions, "0" among them
  Tables,         \* the config tables setstate may carry
  Versions,       \* firmware versions
  BootVersion,    \* the firmware version the device was created with
  Intervals,      \* inform intervals
  BootInterval,   \* the 10 s a device starts with
  MaxUptime,      \* bound: the uptime clock stops counting here
  None            \* a field the controller left out

AllKeys == {DefaultKey} \cup Keys \cup MalformedKeys

ASSUME ConstantsAssumption ==
  /\ DefaultKey \notin Keys \cup MalformedKeys
  /\ Keys \cap MalformedKeys = {}
  /\ BootURL \in URLs
  /\ "0" \in CfgVersions
  /\ BootVersion \in Versions
  /\ BootInterval \in Intervals
  /\ MaxUptime \in Nat
  /\ None \notin AllKeys \cup URLs \cup CfgVersions \cup Versions \cup Intervals

VARIABLES
  session,      \* inform.Session: what the protocol remembers
  state,        \* the public DeviceState
  interval,     \* sleep between two informs
  pc,           \* where the device's goroutine is
  sent,         \* the inform in flight, or None
  wasAdopting,  \* informOnce's sample of state
  cancelled,    \* the fleet's context is done
  heard,        \* history: keys of adopted informs that reached the
                \* controller since the last factory reset
  since,        \* history: kinds of reply applied since the last factory reset
  last          \* history: kind of the reply applied in this cycle

deviceVars == <<session, state, interval>>
loopVars == <<pc, sent, wasAdopting, cancelled>>
historyVars == <<heard, since, last>>
vars == <<session, state, interval, pc, sent, wasAdopting, cancelled,
          heard, since, last>>

-----------------------------------------------------------------------------
(* The controller's replies, as the fields Apply looks at.                 *)

SetAdopt == [type : {"set-adopt"}, key : AllKeys \cup {None},
             uri : URLs \cup {None}]
SetParam == [type : {"setparam"}, cfgversion : CfgVersions \cup {None},
             authkey : AllKeys \cup {None}, gcm : BOOLEAN \cup {None}]
SetState == [type : {"setstate"}, cfgversion : CfgVersions \cup {None},
             tables : SUBSET Tables]
Noop     == [type : {"noop"}, interval : Intervals \cup {None}]
Upgrade  == [type : {"upgrade"}, version : Versions \cup {None}]
Bare     == [type : {"setdefault", "reboot", "ignored"}]

Reply == SetAdopt \cup SetParam \cup SetState \cup Noop \cup Upgrade \cup Bare

-----------------------------------------------------------------------------
(* The session, and what an inform tells the controller.                   *)

SessionType ==
  [key : AllKeys, cfgversion : CfgVersions, adopted : BOOLEAN, gcm : BOOLEAN,
   url : URLs, tables : SUBSET Tables, version : Versions,
   uptime : 0 .. MaxUptime]

\* An inform that is on the wire was encrypted, so its key is well-formed.
InformType ==
  [key : AllKeys \ MalformedKeys, gcm : BOOLEAN, url : URLs, default : BOOLEAN,
   cfgversion : CfgVersions, tables : SUBSET Tables, version : Versions]

ASSUME NoneAssumption == None \notin InformType

-----------------------------------------------------------------------------
(* inform.Session: pure operations on the session record.                  *)

\* Faulty variant: the key is used unparsed.
AnyKeyIsWellFormed(k) == k \in AllKeys

\* ParseKey: 32 hex digits.
WellFormed(k) == k \notin MalformedKeys

NewSession ==
  [key |-> DefaultKey, cfgversion |-> "0", adopted |-> FALSE, gcm |-> FALSE,
   url |-> BootURL, tables |-> {}, version |-> BootVersion, uptime |-> 0]

\* BuildPayload and EncodeInform: what the controller can read off an inform.
Inform(s) ==
  [key |-> s.key, gcm |-> s.gcm, url |-> s.url, default |-> ~s.adopted,
   cfgversion |-> s.cfgversion, tables |-> s.tables, version |-> s.version]

\* A field that is absent, or empty, leaves the current value alone.
Given(new, old) == IF new = None THEN old ELSE new

ApplySetAdopt(s, m) ==
  [s EXCEPT !.key = Given(m.key, @), !.url = Given(m.uri, @), !.adopted = TRUE]

\* Faulty variant: the cipher survives a reset.
FactoryResetKeepsGCM(s) ==
  [s EXCEPT !.adopted = FALSE, !.key = DefaultKey, !.cfgversion = "0",
            !.tables = {}]

\* Faulty variant: the key survives a reset.
FactoryResetKeepsKey(s) ==
  [s EXCEPT !.adopted = FALSE, !.cfgversion = "0", !.gcm = FALSE, !.tables = {}]

FactoryReset(s) ==
  [s EXCEPT !.adopted = FALSE, !.key = DefaultKey, !.cfgversion = "0",
            !.gcm = FALSE, !.tables = {}]

\* Faulty variant: any real key in a mgmt_cfg counts.
TakesAnyMgmtKey(s, m) == m.authkey \notin {None, DefaultKey}

\* The key-rotation rule: a mgmt_cfg authkey counts only while the device
\* still holds the default key.
TakesMgmtKey(s, m) ==
  /\ m.authkey \notin {None, DefaultKey}
  /\ s.key = DefaultKey

ApplySetParam(s, m) ==
  [s EXCEPT !.cfgversion = Given(m.cfgversion, @),
            !.key = IF TakesMgmtKey(s, m) THEN m.authkey ELSE @,
            !.adopted = @ \/ TakesMgmtKey(s, m),
            !.gcm = Given(m.gcm, @)]

ApplySetState(s, m) ==
  [s EXCEPT !.cfgversion = Given(m.cfgversion, @), !.tables = @ \cup m.tables]

\* An upgrade is emulated as a flash and a reboot.
ApplyUpgrade(s, m) ==
  [s EXCEPT !.version = Given(m.version, @), !.uptime = 0]

ApplyReply(s, m) ==
  CASE m.type = "set-adopt"  -> ApplySetAdopt(s, m)
    [] m.type = "setparam"   -> ApplySetParam(s, m)
    [] m.type = "setstate"   -> ApplySetState(s, m)
    [] m.type = "setdefault" -> FactoryReset(s)
    [] m.type = "upgrade"    -> ApplyUpgrade(s, m)
    [] m.type = "reboot"     -> [s EXCEPT !.uptime = 0]
    [] OTHER                 -> s

(* device.applyResponse: what the reply's effects do to the device.        *)

\* Faulty variant: a key taken from mgmt_cfg leaves the device PENDING.
StateAfterIgnoringMgmtCfg(s, m, st) ==
  CASE m.type = "set-adopt"  -> "ADOPTING"
    [] m.type = "setdefault" -> "PENDING"
    [] OTHER                 -> st

\* Faulty variant: a connected device ignores a new adoption.
StateAfterKeepingConnected(s, m, st) ==
  CASE m.type = "set-adopt" /\ st # "CONNECTED"          -> "ADOPTING"
    [] m.type = "setparam" /\ TakesMgmtKey(s, m)         -> "ADOPTING"
    [] m.type = "setdefault"                             -> "PENDING"
    [] OTHER                                             -> st

StateAfter(s, m, st) ==
  CASE m.type = "set-adopt"                      -> "ADOPTING"
    [] m.type = "setparam" /\ TakesMgmtKey(s, m) -> "ADOPTING"
    [] m.type = "setdefault"                     -> "PENDING"
    [] OTHER                                     -> st

IntervalAfter(m, i) == IF m.type = "noop" THEN Given(m.interval, i) ELSE i

-----------------------------------------------------------------------------
(* device.run and informOnce, one action per critical section and per      *)
(* blocking call.                                                          *)

Init ==
  /\ session = NewSession
  /\ state = "PENDING"
  /\ interval = BootInterval
  /\ pc = "encode"
  /\ sent = None
  /\ wasAdopting = FALSE
  /\ cancelled = FALSE
  /\ heard = {}
  /\ since = {}
  /\ last = None

\* EncodeInform, InformURL and AuthKey under one lock.
Encode ==
  /\ pc = "encode"
  /\ WellFormed(session.key)
  /\ sent' = Inform(session)
  /\ pc' = "posted"
  /\ UNCHANGED <<session, state, interval, wasAdopting, cancelled>>
  /\ UNCHANGED historyVars

\* Faulty variant: an inform that cannot be encrypted goes out under the
\* default key.
EncodeFailsOver ==
  /\ pc = "encode"
  /\ ~WellFormed(session.key)
  /\ sent' = Inform([session EXCEPT !.key = DefaultKey])
  /\ pc' = "posted"
  /\ UNCHANGED <<session, state, interval, wasAdopting, cancelled>>
  /\ UNCHANGED historyVars

\* ParseKey refuses the key the session holds: nothing is sent this cycle.
EncodeFails ==
  /\ pc = "encode"
  /\ ~WellFormed(session.key)
  /\ pc' = "sleep"
  /\ UNCHANGED <<session, state, interval, sent, wasAdopting, cancelled>>
  /\ UNCHANGED historyVars

\* The inform reaches the controller (environment).
Arrive ==
  /\ pc = "posted"
  /\ pc' = "served"
  /\ heard' = IF sent.default THEN heard ELSE heard \cup {sent.key}
  /\ UNCHANGED <<session, state, interval, sent, wasAdopting, cancelled>>
  /\ UNCHANGED <<since, last>>

\* Faulty variant: a failed inform is retried without the sleep.
NoReplyRetriesAtOnce ==
  /\ pc \in {"posted", "served"}
  /\ sent' = None
  /\ pc' = "encode"
  /\ UNCHANGED <<session, state, interval, wasAdopting, cancelled>>
  /\ UNCHANGED historyVars

\* No usable reply: the transport failed before or after the inform arrived,
\* the context was cancelled, or the answer was a 404, another status, an
\* empty body or one that does not decode under the key the inform used.
NoReply ==
  /\ pc \in {"posted", "served"}
  /\ sent' = None
  /\ pc' = "sleep"
  /\ UNCHANGED <<session, state, interval, wasAdopting, cancelled>>
  /\ UNCHANGED historyVars

\* Faulty variant: as if sampled after set-adopt has been applied.
SampleTooLate == TRUE

\* The state is sampled before the reply is applied.
Sample == state = "ADOPTING"

\* A reply arrives and decodes under the key its inform was sent with.
Receive ==
  /\ pc = "served"
  /\ sent' = None
  /\ wasAdopting' = Sample
  /\ pc' = "sampled"
  /\ UNCHANGED <<session, state, interval, cancelled>>
  /\ UNCHANGED historyVars

\* device.applyResponse: Session.Apply and its effects, under one lock.
Apply(m) ==
  /\ pc = "sampled"
  /\ session' = ApplyReply(session, m)
  /\ state' = StateAfter(session, m, state)
  /\ interval' = IntervalAfter(m, interval)
  /\ pc' = IF wasAdopting THEN "settle" ELSE "sleep"
  /\ last' = m.type
  /\ IF m.type = "setdefault"
     THEN heard' = {} /\ since' = {}
     ELSE heard' = heard /\ since' = since \cup {m.type}
  /\ UNCHANGED <<sent, wasAdopting, cancelled>>

\* The second critical section after a reply, only when ADOPTING was sampled.
Settle ==
  /\ pc = "settle"
  /\ state' = IF session.adopted /\ state = "ADOPTING" THEN "CONNECTED" ELSE state
  /\ wasAdopting' = FALSE
  /\ pc' = "sleep"
  /\ UNCHANGED <<session, interval, sent, cancelled>>
  /\ UNCHANGED historyVars

\* The interval timer wins the select; the clock has moved on.
Wake ==
  /\ pc = "sleep"
  /\ pc' = "encode"
  /\ session' = [session EXCEPT !.uptime = IF @ < MaxUptime THEN @ + 1 ELSE @]
  /\ last' = None
  /\ UNCHANGED <<state, interval, sent, wasAdopting, cancelled, heard, since>>

\* ctx.Done wins the select.
Exit ==
  /\ pc = "sleep"
  /\ cancelled
  /\ pc' = "stopped"
  /\ UNCHANGED <<session, state, interval, sent, wasAdopting, cancelled>>
  /\ UNCHANGED historyVars

\* Emu.Stop, or the caller's context.
Cancel ==
  /\ ~cancelled
  /\ cancelled' = TRUE
  /\ UNCHANGED <<session, state, interval, pc, sent, wasAdopting>>
  /\ UNCHANGED historyVars

Next ==
  \/ Encode
  \/ EncodeFails
  \/ Arrive
  \/ NoReply
  \/ Receive
  \/ \E m \in Reply : Apply(m)
  \/ Settle
  \/ Wake
  \/ Exit
  \/ Cancel

Spec == Init /\ [][Next]_vars

\* The goroutine's own steps are scheduled; a cancelled context aborts the
\* POST; select picks at random among ready cases, so ctx.Done is not passed
\* over for ever.  Nothing is assumed of the controller.
LoopFairness ==
  /\ WF_vars(Encode \/ EncodeFails)
  /\ WF_vars(cancelled /\ NoReply)
  /\ WF_vars(\E m \in Reply : Apply(m))
  /\ WF_vars(Settle)
  /\ WF_vars(Wake)
  /\ SF_vars(Exit)

FairSpec == Spec /\ LoopFairness

-----------------------------------------------------------------------------
ReplyTypes == {"set-adopt", "setparam", "setstate", "noop", "upgrade",
               "setdefault", "reboot", "ignored"}

\* Every variable holds a value the program can produce; in particular no
\* inform is ever sent under a key ParseKey refuses (EncodeInform).
TypeOK ==
  /\ session \in SessionType
  /\ state \in {"PENDING", "ADOPTING", "CONNECTED"}
  /\ interval \in Intervals
  /\ pc \in {"encode", "posted", "served", "sampled", "settle", "sleep", "stopped"}
  /\ sent \in InformType \cup {None}
  /\ sent # None <=> pc \in {"posted", "served"}
  /\ wasAdopting \in BOOLEAN
  /\ cancelled \in BOOLEAN
  /\ heard \subseteq AllKeys
  /\ since \subseteq ReplyTypes
  /\ last \in ReplyTypes \cup {None}

\* The two layers agree at every point a reader can look: the session is
\* adopted exactly when the public state has left PENDING, and a session that
\* is not adopted is back on the default key (applyResponse, Session.Apply).
LayersAgree ==
  /\ session.adopted <=> state # "PENDING"
  /\ ~session.adopted => session.key = DefaultKey

\* Whatever the controller provisioned before a setdefault is gone after it:
\* each thing the session remembers was put there by a reply applied since the
\* last factory reset, however the replies were interleaved with lost informs.
ResetForgets ==
  /\ session.adopted => since \cap {"set-adopt", "setparam"} # {}
  /\ session.gcm => "setparam" \in since
  /\ session.tables # {} => "setstate" \in since
  /\ session.cfgversion # "0" => since \cap {"setparam", "setstate"} # {}

\* A real key is replaced only by a set-adopt or a factory reset: a stray or
\* replayed mgmt_cfg cannot clobber it (docs/PROTOCOL.md:200-206, the
\* stuck-adopt bug).
RealKeyIsKept ==
  [][session.key # DefaultKey /\ session'.key # session.key
       => last' \in {"set-adopt", "setdefault"}]_vars

\* A connected device that is handed another key, or reset, stops claiming to
\* be connected in the same step (applyResponse).
RekeyLeavesConnected ==
  [][state = "CONNECTED" /\ session'.key # session.key
       => state' # "CONNECTED"]_vars

\* A device that has taken a key ParseKey refuses never sends again and keeps
\* that key: no reply can reach it any more, not even a setdefault
\* (loop.go:106-109).
MalformedKeyIsTerminal ==
  [][~WellFormed(session.key)
       => sent' = None /\ session'.key = session.key]_vars

\* The device implements what it promises of its adoption: in particular it is
\* CONNECTED only after an inform sent adopted reached the controller since the
\* last factory reset (loop.go:94-98).
Promise == INSTANCE Adoption WITH Key <- AllKeys, status <- state,
                                  key <- session.key, declared <- heard # {}
KeepsPromise == Promise!Spec

\* Emu.Stop cannot hang on this device: once the context is done its loop
\* returns, even if the controller never answers.
StopsAfterCancel == cancelled ~> pc = "stopped"
=============================================================================
