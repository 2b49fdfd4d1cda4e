---------------------- MODULE AdoptionHandshake_proofs ----------------------
(***************************************************************************)
(* Proofs about the device under a controller that follows the handshake,  *)
(* for any keys, any number of adoptions and either delivery channel.      *)
(***************************************************************************)
EXTENDS AdoptionHandshake, InformDevice_proofs

-----------------------------------------------------------------------------
(* The inductive invariant.  That the controller can read the device is    *)
(* not inductive by itself.  Forgetting keeps the key readable only if an  *)
(* adopted device holds the key of this adoption, and going back to idle   *)
(* only if the device is on the default key by then.  It is: the           *)
(* controller gets back to idle only when an inform has shown the reset    *)
(* (InFlight: what is on the wire is what the device is), and a device     *)
(* that is reset holds the default key (LayersAgree).                      *)

Reading ==
  /\ ctl \in {"idle", "adopting", "adopted", "forgetting"}
  /\ round \in 0 .. Len(KeyOrder)
  /\ channel \in Channels
  /\ overtaken \in BOOLEAN
  /\ ctl # "idle" => round > 0
  /\ ctl = "adopted" => session.key = CtlKey

HandshakeInv == IndInv /\ Reading /\ ControllerCanRead

\* Before the first adoption.
LEMMA HandshakeInitInv == HandshakeInit => HandshakeInv
<1> SUFFICES ASSUME HandshakeInit PROVE HandshakeInv
  OBVIOUS
<1>1. Init /\ IndInv
  BY InitInd DEF HandshakeInit
<1>2. Len(KeyOrder) \in Nat
  BY HandshakeAssumption
<1>3. session.key = DefaultKey
  BY <1>1 DEF Init, NewSession
<1>4. ctl = "idle" /\ round = 0 /\ overtaken \in BOOLEAN /\ channel \in Channels
  BY Zenon DEF HandshakeInit
<1>5. Reading /\ ControllerCanRead
  BY <1>2, <1>3, <1>4 DEF Reading, ControllerCanRead, Readable
<1> QED BY <1>1, <1>5 DEF HandshakeInv

-----------------------------------------------------------------------------
(* What the controller hands out.                                          *)

\* The key of an adoption is a real one.
LEMMA KeyOfRound ==
  ASSUME NEW r \in 1 .. Len(KeyOrder)
  PROVE  KeyOrder[r] \in Keys /\ KeyOrder[r] # DefaultKey
  BY HandshakeAssumption, ConstantsAssumption

\* A mgmt_cfg of the controller is a reply the device model knows.
LEMMA MgmtCfgIsReply ==
  ASSUME NEW key \in Keys
  PROVE  MgmtCfg(key) \in Reply /\ MgmtCfg(key) \in SetParam
  BY HandshakeAssumption DEF MgmtCfg, Reply, SetParam, AllKeys

\* An adoption that has ended had a key of its own, a real one.
LEMMA OldKeyIsReal ==
  ASSUME Reading, NEW key \in OldKeys
  PROVE  key \in Keys /\ key # DefaultKey
<1>1. Len(KeyOrder) \in Nat
  BY HandshakeAssumption
<1>2. PICK r \in 1 .. Len(KeyOrder) : key = KeyOrder[r]
  BY <1>1 DEF OldKeys, Reading
<1>. QED BY <1>2, KeyOfRound

\* The adoption under way has a real key too.
LEMMA CtlKeyIsReal ==
  ASSUME Reading, ctl # "idle"
  PROVE  CtlKey \in Keys /\ CtlKey # DefaultKey
<1>1. Len(KeyOrder) \in Nat
  BY HandshakeAssumption
<1>2. round \in 1 .. Len(KeyOrder)
  BY <1>1 DEF Reading
<1>. QED BY <1>2, KeyOfRound DEF CtlKey

\* A late reply is the mgmt_cfg of an adoption that has ended.
LEMMA LateIsMgmtCfg ==
  ASSUME Reading, NEW m \in Late
  PROVE  m \in Reply /\ m \in SetParam /\ m.authkey \in OldKeys
<1>1. PICK key \in OldKeys : m = MgmtCfg(key)
  BY DEF Late
<1>. QED BY <1>1, OldKeyIsReal, MgmtCfgIsReply DEF MgmtCfg

\* Whatever the controller has queued is a reply the device's Apply knows.
LEMMA QueuedIsReply ==
  ASSUME Reading, NEW m \in Queued \cup Late
  PROVE  m \in Reply
<1>1. CASE m \in Late
  BY <1>1, LateIsMgmtCfg
<1>2. CASE m \in Queued /\ ctl = "adopting"
  <2>1. CtlKey \in Keys /\ m = KeyDelivery
    BY <1>2, CtlKeyIsReal DEF Queued
  <2>. QED BY <2>1 DEF KeyDelivery, Reply, SetAdopt, SetParam, AllKeys
<1>3. CASE m \in Queued /\ ctl = "adopted"
  <2>1. m = MgmtCfg(CtlKey) \/ m = [type |-> "noop", interval |-> None]
    BY <1>3 DEF Queued
  <2>2. [type |-> "noop", interval |-> None] \in Reply
    BY DEF Reply, Noop
  <2>. QED BY <1>3, <2>1, <2>2, CtlKeyIsReal, MgmtCfgIsReply
<1>4. CASE m \in Queued /\ ctl = "forgetting"
  BY <1>4 DEF Queued, Reply, Bare
<1>5. CASE m \in Queued /\ ctl = "idle"
  BY <1>5 DEF Queued
<1>. QED BY <1>1, <1>2, <1>3, <1>4, <1>5 DEF Reading

-----------------------------------------------------------------------------
(* The composition is a device with a controller: every step of it is a    *)
(* step of InformDevice, or leaves the device alone.                       *)

\* Each step of the composition is one of the device, or none.
LEMMA HandshakeStepIsDeviceStep ==
  Reading /\ [HandshakeNext]_allVars => [Next]_vars
<1> SUFFICES ASSUME Reading, [HandshakeNext]_allVars PROVE [Next]_vars
  OBVIOUS
<1>1. CASE DeviceStep
  BY <1>1 DEF DeviceStep, Next
<1>2. CASE Hears
  BY <1>2 DEF Hears, Next
<1>3. CASE Answers \/ AnswersLate
  BY <1>3 DEF Answers, AnswersLate, Next
<1>4. CASE Handles
  <2>1. PICK m \in Queued \cup Late : Apply(m)
    BY <1>4 DEF Handles
  <2>. QED BY <2>1, QueuedIsReply DEF Next
<1>5. CASE Silence
  BY <1>5 DEF Silence, Next
<1>6. CASE OperatorAdopts \/ OperatorForgets
  BY <1>6 DEF OperatorAdopts, OperatorForgets
<1>7. CASE UNCHANGED allVars
  BY <1>7 DEF allVars, vars
<1>. QED BY <1>1, <1>2, <1>3, <1>4, <1>5, <1>6, <1>7 DEF HandshakeNext

-----------------------------------------------------------------------------
(* Each step keeps the invariant.                                          *)

\* Steps of the device that no controller takes part in.
LEMMA DeviceStepInv ==
  ASSUME HandshakeInv, DeviceStep \/ Silence \/ Answers \/ AnswersLate
  PROVE  Reading' /\ ControllerCanRead'
<1>1. session'.key = session.key
  BY WakeKeepsAdoption
  DEF HandshakeInv, IndInv, DeviceStep, Silence, Answers, AnswersLate,
      Encode, Settle, NoReply, Receive
<1>2. UNCHANGED ctlVars
  BY DEF DeviceStep, Silence, Answers, AnswersLate
<1>. QED
  BY <1>1, <1>2 DEF HandshakeInv, Reading, ControllerCanRead, Readable, OldKeys, CtlKey, ctlVars

\* The controller learns from an inform that the device took its key, or that
\* it has been reset: both are still so when it learns it.
LEMMA HearsInv ==
  ASSUME HandshakeInv, Hears
  PROVE  Reading' /\ ControllerCanRead'
<1>1. session' = session /\ UNCHANGED <<channel, round, overtaken>>
  BY DEF Hears, Arrive
<1>2. sent = Inform(session) /\ session \in SessionType
  BY DEF HandshakeInv, IndInv, InFlight, TypeOK, Hears, Arrive
<1>3. sent.key = session.key /\ sent.default = ~session.adopted
  BY <1>2 DEF Inform
<1>4. ctl' \in {ctl, CtlAfter(sent)}
  BY DEF Hears
<1>5. CASE ctl' = ctl
  BY <1>1, <1>5 DEF HandshakeInv, Reading, ControllerCanRead, Readable, OldKeys, CtlKey
<1>6. CASE ctl' = "adopted" /\ ctl = "adopting" /\ session.key = CtlKey
  BY <1>1, <1>6 DEF HandshakeInv, Reading, ControllerCanRead, Readable, CtlKey
<1>7. CASE ctl' = "idle" /\ ctl = "forgetting" /\ session.key = DefaultKey
  BY <1>1, <1>7 DEF HandshakeInv, Reading, ControllerCanRead, Readable
<1>8. ~session.adopted => session.key = DefaultKey
  BY DEF HandshakeInv, IndInv, LayersAgree, Hears, Arrive
<1>. QED BY <1>3, <1>4, <1>5, <1>6, <1>7, <1>8 DEF CtlAfter

\* What a reply of the controller does to the key: a late one moves it only
\* off the default key, the others to a key the controller reads.
LEMMA HandlesInv ==
  ASSUME HandshakeInv, Handles
  PROVE  Reading' /\ ControllerCanRead'
<1>1. PICK m \in Queued \cup Late :
        /\ Apply(m)
        /\ overtaken' = (/\ session'.key # DefaultKey
                         /\ overtaken \/ (session.key = DefaultKey /\ m \in Late))
        /\ UNCHANGED <<channel, ctl, round>>
  BY Zenon DEF Handles
<1>2. m \in Reply /\ session \in SessionType /\ session' = ApplyReply(session, m)
  BY <1>1, QueuedIsReply DEF HandshakeInv, IndInv, TypeOK, Apply
<1>3. UNCHANGED <<channel, ctl, round>>
  BY <1>1
<1>4. overtaken' \in BOOLEAN
  BY <1>1
<1>5. UNCHANGED <<Readable, OldKeys, CtlKey>>
  BY <1>3 DEF Readable, OldKeys, CtlKey
<1>6. ctl = "adopted" => session.key = CtlKey /\ CtlKey # DefaultKey
  BY CtlKeyIsReal DEF HandshakeInv, Reading
<1>7. CASE session'.key = session.key
  <2>1. overtaken /\ session.key # DefaultKey => overtaken'
    BY <1>1, <1>7
  <2>. QED
    BY <1>3, <1>4, <1>5, <1>7, <2>1 DEF HandshakeInv, Reading, ControllerCanRead, Readable
<1>8. CASE session'.key # session.key
  <2>1. CASE m \in Late
    <3>1. m \in SetParam /\ m.authkey \in OldKeys /\ m.authkey # DefaultKey
      BY <2>1, LateIsMgmtCfg, OldKeyIsReal DEF HandshakeInv
    \* The gate: only the default key lets a mgmt_cfg through.
    <3>2. session.key = DefaultKey /\ session'.key = m.authkey
      BY <1>2, <1>8, <3>1
      DEF ApplyReply, ApplySetParam, TakesMgmtKey, SessionType, SetParam
    <3>3. overtaken'
      BY <1>1, <2>1, <3>1, <3>2
    <3>. QED
      BY <1>3, <1>4, <1>5, <1>6, <3>1, <3>2, <3>3 DEF HandshakeInv, Reading, ControllerCanRead
  <2>2. CASE m \in Queued /\ ctl = "adopting"
    <3>1. m = KeyDelivery /\ CtlKey \in Keys /\ CtlKey # None
      BY <2>2, CtlKeyIsReal, ConstantsAssumption DEF HandshakeInv, Queued, AllKeys
    <3>2. session'.key = CtlKey
      <4>1. CASE channel = "set-adopt"
        BY <1>2, <1>8, <3>1, <4>1
        DEF KeyDelivery, ApplyReply, ApplySetAdopt, Given, SessionType
      <4>2. CASE channel # "set-adopt"
        BY <1>2, <1>8, <3>1, <4>2 DEF KeyDelivery, ApplyReply, ApplySetParam, SessionType
      <4>. QED BY <4>1, <4>2
    <3>. QED
      BY <1>3, <1>4, <1>5, <2>2, <3>2 DEF HandshakeInv, Reading, ControllerCanRead, Readable
  <2>3. CASE m \in Queued /\ ctl = "adopted"
    <3>1. m.type \in {"setparam", "noop"}
      BY <2>3 DEF Queued, MgmtCfg
    <3>. QED BY <1>2, <1>6, <1>8, <2>3, <3>1, ReplyAndAdoption
  <2>4. CASE m \in Queued /\ ctl = "forgetting"
    <3>1. m.type = "setdefault"
      BY <2>4 DEF Queued
    <3>2. session'.key = DefaultKey
      BY <1>2, <3>1 DEF ApplyReply, FactoryReset, SessionType
    <3>. QED
      BY <1>3, <1>4, <1>5, <2>4, <3>2 DEF HandshakeInv, Reading, ControllerCanRead, Readable
  <2>5. CASE m \in Queued /\ ctl = "idle"
    BY <2>5 DEF Queued
  <2>. QED BY <1>1, <2>1, <2>2, <2>3, <2>4, <2>5 DEF HandshakeInv, Reading
<1>. QED BY <1>7, <1>8

\* A new adoption ends none, and a key that is forgotten can still be read.
LEMMA OperatorInv ==
  ASSUME HandshakeInv, OperatorAdopts \/ OperatorForgets
  PROVE  Reading' /\ ControllerCanRead'
<1>1. session' = session /\ overtaken' = overtaken /\ channel' = channel
  BY DEF OperatorAdopts, OperatorForgets, vars
<1>2. Len(KeyOrder) \in Nat
  BY HandshakeAssumption
<1>3. CASE OperatorAdopts
  <2>1. /\ ctl = "idle" /\ ctl' = "adopting"
        /\ round' = round + 1 /\ round < Len(KeyOrder)
    BY <1>3 DEF OperatorAdopts
  <2>2. OldKeys' = OldKeys
    <3>1. round' - 1 = round
      BY <2>1 DEF HandshakeInv, Reading
    <3>. QED BY <2>1, <3>1 DEF OldKeys
  <2>3. Reading'
    BY <1>1, <1>2, <2>1 DEF HandshakeInv, Reading
  <2>4. ControllerCanRead'
    BY <1>1, <2>1, <2>2 DEF HandshakeInv, ControllerCanRead, Readable
  <2>. QED BY <2>3, <2>4
<1>4. CASE OperatorForgets
  <2>1. ctl = "adopted" /\ ctl' = "forgetting" /\ round' = round
    BY <1>4 DEF OperatorForgets
  <2>2. session.key = CtlKey
    BY <2>1 DEF HandshakeInv, Reading
  <2>. QED
    BY <1>1, <2>1, <2>2 DEF HandshakeInv, Reading, ControllerCanRead, Readable, CtlKey
<1>. QED BY <1>3, <1>4

\* The invariant is inductive.
LEMMA HandshakeStepInv == HandshakeInv /\ [HandshakeNext]_allVars => HandshakeInv'
<1> SUFFICES ASSUME HandshakeInv, [HandshakeNext]_allVars PROVE HandshakeInv'
  OBVIOUS
<1>1. IndInv'
  BY HandshakeStepIsDeviceStep, StepKeepsInd DEF HandshakeInv
<1>2. Reading' /\ ControllerCanRead'
  <2>1. CASE UNCHANGED allVars
    BY <2>1 DEF allVars, HandshakeInv, Reading, ControllerCanRead, Readable, OldKeys, CtlKey
  <2>. QED BY <2>1, DeviceStepInv, HearsInv, HandlesInv, OperatorInv DEF HandshakeNext
<1>. QED BY <1>1, <1>2 DEF HandshakeInv

\* Hence it always holds.
LEMMA HandshakeInductive == HandshakeSpec => []HandshakeInv
  BY HandshakeInitInv, HandshakeStepInv, PTL DEF HandshakeSpec

-----------------------------------------------------------------------------
(* Theorems.                                                               *)

\* The device under this controller is the device of InformDevice: whatever is
\* true of that one whatever it is answered is true of it here (loop.go runs the
\* same informOnce against every controller).
THEOREM StillADevice == HandshakeSpec => Spec
<1>1. HandshakeInit => Init
  BY DEF HandshakeInit
<1>2. HandshakeInv /\ [HandshakeNext]_allVars => [Next]_vars
  BY HandshakeStepIsDeviceStep DEF HandshakeInv
<1>. QED BY <1>1, <1>2, HandshakeInductive, PTL DEF HandshakeSpec, Spec

\* In every round of adopting and forgetting, whatever is lost or repeated and
\* whatever mgmt_cfg of ended adoptions comes at any time, the key the device
\* informs under is the default one or the one this controller holds, except
\* that a late mgmt_cfg finding the device on the default key leaves it on the
\* old key it brought (applySetparam's gate, FactoryReset).
THEOREM NeverOutOfReach == HandshakeSpec => []ControllerCanRead
<1>1. HandshakeInv => ControllerCanRead
  BY DEF HandshakeInv
<1>. QED BY <1>1, HandshakeInductive, PTL
=============================================================================
