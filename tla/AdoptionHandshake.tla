-------------------------- MODULE AdoptionHandshake --------------------------
(***************************************************************************)
(* InformDevice composed with a controller that follows the handshake of   *)
(* docs/PROTOCOL.md ("Adoption handshake"): an operator adopts and forgets *)
(* the device, the controller delivers a key over one of its two channels, *)
(* keeps resending until it hears the device under that key, and keeps     *)
(* pushing setparam afterwards.  A mgmt_cfg queued in an adoption that has *)
(* ended may still go out, at any time and more than once.  Any inform and *)
(* any reply may be lost.                                                  *)
(*                                                                         *)
(* The controller is external: it is what the device's code, the document  *)
(* and the fake controllers of the tests take it to be.                    *)
(***************************************************************************)
EXTENDS InformDevice, Sequences

CONSTANTS Channels, \* how controller builds deliver keys
          KeyOrder, \* the keys of successive adoptions, a sequence over Keys
          Configured \* the cfgversion this controller provisions

ASSUME HandshakeAssumption ==
  /\ Channels \subseteq {"set-adopt", "mgmt_cfg"}
  /\ KeyOrder \in Seq(Keys)
  /\ Configured \in CfgVersions

VARIABLES
  channel,    \* how this controller build delivers keys
  ctl,        \* "idle", "adopting", "adopted" or "forgetting"
  round,      \* adoptions the operator has started
  overtaken   \* the device's key came to it in a late mgmt_cfg (history)

ctlVars == <<channel, ctl, round, overtaken>>
allVars == <<session, state, interval, pc, sent, wasAdopting, cancelled,
             heard, since, last, channel, ctl, round, overtaken>>

CtlKey == KeyOrder[round]

\* The keys the controller can read an inform under.
Readable == {DefaultKey} \cup (IF ctl = "idle" THEN {} ELSE {CtlKey})

\* The keys of adoptions the operator has ended.
OldKeys ==
  {KeyOrder[r] : r \in 1 .. (IF ctl \in {"adopting", "adopted"} THEN round - 1 ELSE round)}

HandshakeInit ==
  /\ Init
  /\ channel \in Channels
  /\ ctl = "idle"
  /\ round = 0
  /\ overtaken = FALSE

\* An operator or an API call adopts the device.
OperatorAdopts ==
  /\ ctl = "idle"
  /\ round < Len(KeyOrder)
  /\ ctl' = "adopting"
  /\ round' = round + 1
  /\ UNCHANGED <<vars, channel, overtaken>>

\* The operator forgets the device: it is told to reset at its next inform.
OperatorForgets ==
  /\ ctl = "adopted"
  /\ round < Len(KeyOrder)
  /\ ctl' = "forgetting"
  /\ UNCHANGED <<vars, channel, round, overtaken>>

\* The controller reads an inform.  One under a key it does not know tells it
\* nothing; a pending one after a forget shows that the reset has happened.
Recognised(i) == i.key \in Readable

CtlAfter(i) ==
  CASE ctl = "adopting" /\ ~i.default /\ i.key = CtlKey -> "adopted"
    [] ctl = "forgetting" /\ i.default                  -> "idle"
    [] OTHER                                            -> ctl

Hears ==
  /\ Arrive
  /\ ctl' = IF Recognised(sent) THEN CtlAfter(sent) ELSE ctl
  /\ UNCHANGED <<channel, round, overtaken>>

\* What the controller has for the device at this inform: nothing (a 404), or
\* one of these replies.
KeyDelivery ==
  IF channel = "set-adopt"
  THEN [type |-> "set-adopt", key |-> CtlKey, uri |-> None]
  ELSE [type |-> "setparam", cfgversion |-> None, authkey |-> CtlKey, gcm |-> TRUE]

MgmtCfg(k) ==
  [type |-> "setparam", cfgversion |-> Configured, authkey |-> k, gcm |-> TRUE]

Queued ==
  CASE ctl = "adopting"   -> {KeyDelivery}
    [] ctl = "adopted"    -> {MgmtCfg(CtlKey), [type |-> "noop", interval |-> None]}
    [] ctl = "forgetting" -> {[type |-> "setdefault"]}
    [] OTHER              -> {}

\* What is left over from adoptions that have ended.
Late == {MgmtCfg(k) : k \in OldKeys}

\* A reply leaves only for an inform the controller could read.
Answers ==
  /\ Receive
  /\ Recognised(sent)
  /\ Queued # {}
  /\ UNCHANGED ctlVars

AnswersLate ==
  /\ Receive
  /\ Recognised(sent)
  /\ Late # {}
  /\ UNCHANGED ctlVars

\* A late mgmt_cfg overtakes the adoptions since if the device is on the
\* default key when it comes, and for as long as its key is the one it brought.
Handles ==
  \E m \in Queued \cup Late :
    /\ Apply(m)
    /\ overtaken' = (/\ session'.key # DefaultKey
                     /\ overtaken \/ (session.key = DefaultKey /\ m \in Late))
    /\ UNCHANGED <<channel, ctl, round>>

\* One of those replies: the configuration of an adopted device.
HandlesConfig == ctl = "adopted" /\ Apply(MgmtCfg(CtlKey)) /\ UNCHANGED ctlVars

DeviceStep ==
  /\ Encode \/ Settle \/ Wake
  /\ UNCHANGED ctlVars

Silence == NoReply /\ UNCHANGED ctlVars

HandshakeNext ==
  \/ DeviceStep
  \/ Hears
  \/ Answers
  \/ AnswersLate
  \/ Handles
  \/ Silence
  \/ OperatorAdopts
  \/ OperatorForgets

\* The device's loop runs; informs that keep being sent keep arriving, and
\* replies that keep being queued keep getting through (a late one need never
\* go out), the setparam of an adopted device among them ("keeps pushing", docs/PROTOCOL.md:175).
HandshakeFairness ==
  /\ WF_allVars(DeviceStep)
  /\ WF_allVars(Silence)
  /\ SF_allVars(Hears)
  /\ SF_allVars(Answers)
  /\ WF_allVars(Handles)
  /\ SF_allVars(HandlesConfig)

HandshakeSpec == HandshakeInit /\ [][HandshakeNext]_allVars /\ HandshakeFairness

-----------------------------------------------------------------------------
\* Both sides hold the same key, and the device says it is connected and has
\* been configured.
Agreed ==
  /\ state = "CONNECTED"
  /\ session.key = CtlKey
  /\ session.gcm
  /\ session.cfgversion = Configured

\* The device never talks itself out of the controller's reach, whatever was
\* lost, repeated or forgotten: the key it informs under is one the controller
\* can read, with one exception.  applySetparam's gate protects a device that
\* holds a real key; a late mgmt_cfg that meets one on the default key, reset
\* or not yet given its new key, is taken, and then the key is the old one it
\* brought (session.go:272).
ControllerCanRead ==
  session.key \in Readable \/ (overtaken /\ session.key \in OldKeys)

\* An adoption, once started, completes on both sides, unless the operator
\* forgets the device first or a late mgmt_cfg has given it an old key: lost
\* informs, lost replies and repeats do not wedge it.
AdoptionCompletes == ctl = "adopting" ~> (Agreed \/ ctl = "forgetting" \/ overtaken)

\* The last adoption is permanent: repeated and late mgmt_cfg replies do not
\* disturb it (device_response_test.go:49-51).
AdoptionLasts ==
  [](ctl = "adopted" /\ round = Len(KeyOrder) => <>[]Agreed)
=============================================================================
