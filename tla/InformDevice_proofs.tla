------------------------- MODULE InformDevice_proofs -------------------------
(***************************************************************************)
(* Proofs about InformDevice, for every set of keys, URLs, versions, ...   *)
(***************************************************************************)
EXTENDS InformDevice, TLAPS

-----------------------------------------------------------------------------
(* What a reply does to the session and to the public state.               *)

\* Each kind of reply is told from the others by its type field.
LEMMA ReplyKinds ==
  ASSUME NEW m \in Reply
  PROVE  \/ m \in SetAdopt /\ m.type = "set-adopt"
         \/ m \in SetParam /\ m.type = "setparam"
         \/ m \in SetState /\ m.type = "setstate"
         \/ m \in Noop /\ m.type = "noop"
         \/ m \in Upgrade /\ m.type = "upgrade"
         \/ m.type \in {"setdefault", "reboot", "ignored"}
  BY DEF Reply, SetAdopt, SetParam, SetState, Noop, Upgrade, Bare

\* A field the controller may leave out stays within its set.
LEMMA GivenType ==
  ASSUME NEW S, NEW new \in S \cup {None}, NEW old \in S
  PROVE  Given(new, old) \in S
  BY DEF Given

\* Session.Apply returns a session, whatever the reply.
LEMMA ReplyKeepsType ==
  ASSUME NEW s \in SessionType, NEW m \in Reply
  PROVE  ApplyReply(s, m) \in SessionType
<1> USE ConstantsAssumption DEF SessionType
<1>0. 0 \in 0 .. MaxUptime
  OBVIOUS
<1>1. CASE m \in SetAdopt /\ m.type = "set-adopt"
  <2>1. Given(m.key, s.key) \in AllKeys /\ Given(m.uri, s.url) \in URLs
    BY <1>1, GivenType DEF SetAdopt
  <2>. QED BY <1>1, <2>1 DEF ApplyReply, ApplySetAdopt
<1>2. CASE m \in SetParam /\ m.type = "setparam"
  <2>1. Given(m.cfgversion, s.cfgversion) \in CfgVersions
    BY <1>2, GivenType DEF SetParam
  <2>2. Given(m.gcm, s.gcm) \in BOOLEAN
    BY <1>2, GivenType DEF SetParam
  <2>3. (IF TakesMgmtKey(s, m) THEN m.authkey ELSE s.key) \in AllKeys
    BY <1>2 DEF SetParam, TakesMgmtKey
  <2>4. (s.adopted \/ TakesMgmtKey(s, m)) \in BOOLEAN
    BY DEF TakesMgmtKey
  <2>. QED BY <1>2, <2>1, <2>2, <2>3, <2>4 DEF ApplyReply, ApplySetParam
<1>3. CASE m \in SetState /\ m.type = "setstate"
  <2>1. Given(m.cfgversion, s.cfgversion) \in CfgVersions
    BY <1>3, GivenType DEF SetState
  <2>2. s.tables \cup m.tables \in SUBSET Tables
    BY <1>3 DEF SetState
  <2>. QED BY <1>3, <2>1, <2>2 DEF ApplyReply, ApplySetState
<1>4. CASE m \in Noop /\ m.type = "noop"
  BY <1>4 DEF ApplyReply
<1>5. CASE m \in Upgrade /\ m.type = "upgrade"
  <2>1. Given(m.version, s.version) \in Versions
    BY <1>5, GivenType DEF Upgrade
  <2>. QED BY <1>0, <1>5, <2>1 DEF ApplyReply, ApplyUpgrade
<1>6. CASE m.type \in {"setdefault", "reboot", "ignored"}
  BY <1>0, <1>6 DEF ApplyReply, FactoryReset, AllKeys
<1>. QED BY <1>1, <1>2, <1>3, <1>4, <1>5, <1>6, ReplyKinds

-----------------------------------------------------------------------------
(* The inductive invariant.  Type correctness and the agreement of the two *)
(* layers are not enough for the promise: what makes CONNECTED true is a   *)
(* chain over one cycle, from the inform that was sent adopted (InFlight)  *)
(* through its arrival to the sample and the second critical section       *)
(* (HeardFirst).                                                           *)

InFlight ==
  /\ sent # None => sent = Inform(session)
  /\ pc = "sampled" => WellFormed(session.key)

HeardFirst ==
  /\ state = "PENDING" => heard = {}
  /\ state = "CONNECTED" => heard # {}
  /\ pc = "served" /\ state = "ADOPTING" => heard # {}
  /\ pc = "sampled" /\ wasAdopting => heard # {}
  /\ pc = "settle" /\ state = "ADOPTING" => heard # {}

IndInv == TypeOK /\ LayersAgree /\ InFlight /\ HeardFirst

-----------------------------------------------------------------------------
(* Type correctness. *)

LEMMA InitType == Init => TypeOK
<1> USE ConstantsAssumption DEF ConstantsAssumption
<1>1. NewSession \in SessionType
  <2>1. 0 \in 0 .. MaxUptime
    OBVIOUS
  <2>. QED BY <2>1 DEF NewSession, SessionType, AllKeys
<1>. QED BY <1>1 DEF Init, TypeOK

LEMMA StepKeepsType == TypeOK /\ [Next]_vars => TypeOK'
<1> SUFFICES ASSUME TypeOK, [Next]_vars PROVE TypeOK'
  OBVIOUS
<1> USE DEF TypeOK, historyVars
<1>1. CASE Encode
  <2>1. Inform(session) \in InformType
    BY <1>1 DEF Encode, Inform, WellFormed, InformType, SessionType
  <2>2. Inform(session) # None
    BY <2>1, NoneAssumption
  <2>. QED BY <1>1, <2>1, <2>2 DEF Encode
<1>2. CASE EncodeFails
  BY <1>2 DEF EncodeFails
<1>3. CASE Arrive
  <2>1. sent \in InformType
    BY <1>3 DEF Arrive
  <2>2. sent.key \in AllKeys
    BY <2>1 DEF InformType
  <2>. QED BY <1>3, <2>2 DEF Arrive
<1>4. CASE NoReply
  BY <1>4 DEF NoReply
<1>5. CASE Receive
  BY <1>5 DEF Receive, Sample
<1>6. ASSUME NEW m \in Reply, Apply(m) PROVE TypeOK'
  <2>1. session' \in SessionType
    BY <1>6, ReplyKeepsType DEF Apply
  <2>2. state' \in {"PENDING", "ADOPTING", "CONNECTED"}
    BY <1>6 DEF Apply, StateAfter
  <2>3. interval' \in Intervals
    BY <1>6, ReplyKinds, GivenType DEF Apply, IntervalAfter, Noop
  <2>4. m.type \in ReplyTypes
    BY <1>6, ReplyKinds DEF ReplyTypes
  <2>5. heard' \subseteq AllKeys /\ since' \subseteq ReplyTypes
    BY <1>6, <2>4 DEF Apply
  <2>6. last' \in ReplyTypes \cup {None}
    BY <1>6, <2>4 DEF Apply
  <2>7. pc' \in {"settle", "sleep"} /\ sent' = None
    BY <1>6 DEF Apply
  <2>. QED BY <1>6, <2>1, <2>2, <2>3, <2>5, <2>6, <2>7 DEF Apply
<1>7. CASE Settle
  BY <1>7 DEF Settle
<1>8. CASE Wake
  <2>1. session' \in SessionType
    BY <1>8, ConstantsAssumption DEF Wake, SessionType
  <2>. QED BY <1>8, <2>1 DEF Wake
<1>9. CASE Exit
  BY <1>9 DEF Exit
<1>10. CASE Cancel
  BY <1>10 DEF Cancel
<1>11. CASE UNCHANGED vars
  BY <1>11 DEF vars
<1>. QED BY <1>1, <1>2, <1>3, <1>4, <1>5, <1>6, <1>7, <1>8, <1>9, <1>10, <1>11
         DEF Next

\* Every reachable state is well typed: whatever the controller answers, the
\* device's fields stay in range, and no inform goes out under a key ParseKey
\* refuses (Session.EncodeInform, Session.Apply).
THEOREM TypeCorrect == Spec => []TypeOK
  BY InitType, StepKeepsType, PTL DEF Spec

-----------------------------------------------------------------------------
(* What a reply does to the adoption. *)

\* The five ways a reply can act on the adoption, in the session and in the
\* public state at once: this is where the two layers are kept in step.
LEMMA ReplyAndAdoption ==
  ASSUME NEW s \in SessionType, NEW m \in Reply, NEW st
  PROVE  LET r == ApplyReply(s, m)
             next == StateAfter(s, m, st)
         IN  \/ m.type = "set-adopt" /\ r.adopted /\ next = "ADOPTING"
             \/ /\ m.type = "setparam" /\ s.key = DefaultKey
                /\ r.adopted /\ next = "ADOPTING"
             \/ /\ m.type = "setdefault" /\ ~r.adopted /\ r.key = DefaultKey
                /\ next = "PENDING"
             \/ /\ m.type # "setdefault"
                /\ r.adopted = s.adopted /\ r.key = s.key /\ next = st
<1> USE DEF SessionType
<1>1. CASE m.type = "set-adopt"
  BY <1>1 DEF ApplyReply, ApplySetAdopt, StateAfter
<1>2. CASE m.type = "setparam" /\ TakesMgmtKey(s, m)
  BY <1>2 DEF ApplyReply, ApplySetParam, StateAfter, TakesMgmtKey
<1>3. CASE m.type = "setparam" /\ ~TakesMgmtKey(s, m)
  BY <1>3 DEF ApplyReply, ApplySetParam, StateAfter
<1>4. CASE m.type = "setdefault"
  BY <1>4 DEF ApplyReply, FactoryReset, StateAfter
<1>5. CASE m.type = "setstate"
  BY <1>5 DEF ApplyReply, ApplySetState, StateAfter
<1>6. CASE m.type = "upgrade"
  BY <1>6 DEF ApplyReply, ApplyUpgrade, StateAfter
<1>7. CASE m.type \in {"noop", "reboot", "ignored"}
  BY <1>7 DEF ApplyReply, StateAfter
<1>. QED BY <1>1, <1>2, <1>3, <1>4, <1>5, <1>6, <1>7, ReplyKinds

\* The clock does not touch the adoption.
LEMMA WakeKeepsAdoption ==
  ASSUME TypeOK, Wake
  PROVE  session'.adopted = session.adopted /\ session'.key = session.key
  BY DEF TypeOK, SessionType, Wake

-----------------------------------------------------------------------------
(* The inductive invariant. *)

LEMMA InitInd == Init => IndInv
<1> SUFFICES ASSUME Init PROVE IndInv
  OBVIOUS
<1>1. TypeOK
  BY InitType
<1>2. LayersAgree
  BY DEF Init, NewSession, LayersAgree
<1>3. InFlight /\ HeardFirst
  BY DEF Init, InFlight, HeardFirst
<1>. QED BY <1>1, <1>2, <1>3 DEF IndInv

LEMMA StepKeepsInd == IndInv /\ [Next]_vars => IndInv'
<1> SUFFICES ASSUME IndInv, [Next]_vars PROVE IndInv'
  OBVIOUS
<1>0. TypeOK /\ TypeOK'
  BY StepKeepsType DEF IndInv
<1>1. LayersAgree'
  <2> USE DEF IndInv, LayersAgree
  <2>1. CASE session' = session /\ state' = state
    BY <2>1
  <2>2. ASSUME NEW m \in Reply, Apply(m) PROVE LayersAgree'
    <3>1. session \in SessionType /\ session' = ApplyReply(session, m)
      BY <1>0, <2>2 DEF TypeOK, Apply
    <3>2. state' = StateAfter(session, m, state)
      BY <2>2 DEF Apply
    <3>. QED BY <3>1, <3>2, ReplyAndAdoption
  <2>3. CASE Settle
    BY <2>3 DEF Settle
  <2>4. CASE Wake
    BY <1>0, <2>4, WakeKeepsAdoption DEF Wake
  <2>. QED BY <2>1, <2>2, <2>3, <2>4
           DEF Next, vars, Encode, EncodeFails, Arrive, NoReply, Receive, Exit, Cancel
<1>2. InFlight'
  <2> USE DEF IndInv, InFlight
  <2>1. CASE Encode
    BY <2>1 DEF Encode
  <2>2. CASE session' = session /\ sent' = sent /\ pc' # "sampled"
    BY <2>2
  <2>3. CASE sent' = None /\ pc' # "sampled"
    BY <2>3
  <2>4. CASE Receive
    <3>1. sent \in InformType /\ sent = Inform(session)
      BY <1>0, <2>4 DEF Receive, TypeOK
    <3>2. session.key \notin MalformedKeys
      BY <3>1 DEF Inform, InformType
    <3>. QED BY <2>4, <3>2 DEF Receive, WellFormed
  <2>5. CASE Wake
    BY <1>0, <2>5 DEF Wake, TypeOK
  <2>6. ASSUME NEW m \in Reply, Apply(m) PROVE InFlight'
    BY <1>0, <2>6 DEF Apply, TypeOK
  <2>7. CASE Cancel \/ UNCHANGED vars
    BY <2>7 DEF Cancel, vars
  <2>. QED BY <2>1, <2>2, <2>3, <2>4, <2>5, <2>6, <2>7
           DEF Next, EncodeFails, Arrive, NoReply, Settle, Exit
<1>3. HeardFirst'
  <2> USE DEF IndInv, HeardFirst
  <2>1. CASE Encode \/ EncodeFails \/ NoReply \/ Exit
    BY <2>1 DEF Encode, EncodeFails, NoReply, Exit, historyVars
  <2>2. CASE Arrive
    <3>1. sent = Inform(session) /\ heard' = IF sent.default THEN heard ELSE heard \cup {sent.key}
      BY <1>0, <2>2 DEF Arrive, TypeOK, InFlight
    <3>2. sent.default <=> ~session.adopted
      BY <3>1, <1>0 DEF Inform, TypeOK, SessionType
    <3>3. state # "PENDING" => heard' # {}
      BY <3>1, <3>2 DEF LayersAgree
    <3>4. state = "PENDING" => heard' = {}
      BY <3>1, <3>2 DEF LayersAgree
    <3>. QED BY <2>2, <3>3, <3>4 DEF Arrive
  <2>3. CASE Receive
    BY <1>0, <2>3 DEF Receive, Sample, historyVars, TypeOK
  <2>4. ASSUME NEW m \in Reply, Apply(m) PROVE HeardFirst'
    <3>1. session \in SessionType /\ state' = StateAfter(session, m, state)
      BY <1>0, <2>4 DEF TypeOK, Apply
    <3>2. CASE m.type = "setdefault"
      BY <2>4, <3>1, <3>2, ReplyAndAdoption DEF Apply
    <3>3. CASE m.type # "setdefault"
      <4>1. heard' = heard
        BY <2>4, <3>3 DEF Apply
      <4>2. state' = state \/ state' = "ADOPTING"
        BY <3>1, <3>3, ReplyAndAdoption
      <4>. QED BY <1>0, <2>4, <4>1, <4>2 DEF Apply, TypeOK
    <3>. QED BY <3>2, <3>3
  <2>5. CASE Settle
    BY <2>5 DEF Settle, historyVars
  <2>6. CASE Wake
    BY <2>6 DEF Wake
  <2>7. CASE Cancel \/ UNCHANGED vars
    BY <2>7 DEF Cancel, historyVars, vars
  <2>. QED BY <2>1, <2>2, <2>3, <2>4, <2>5, <2>6, <2>7 DEF Next
<1>. QED BY <1>0, <1>1, <1>2, <1>3 DEF IndInv

LEMMA Inductive == Spec => []IndInv
  BY InitInd, StepKeepsInd, PTL DEF Spec

\* At every point a State reader can look, the session is adopted exactly when
\* the public state has left PENDING, and an unadopted session holds the
\* default key (device.applyResponse, Session.Apply).
THEOREM LayersAlwaysAgree == Spec => []LayersAgree
<1>1. IndInv => LayersAgree
  BY DEF IndInv
<1>. QED BY <1>1, Inductive, PTL

-----------------------------------------------------------------------------
(* The detailed device implements the promise. *)

LEMMA InitKeepsPromise == Init => Promise!Init
  BY DEF Init, NewSession, Promise!Init

\* A reply is an Adopt, a Reset or nothing; the arrival of an adopted inform is
\* a Declare; the second critical section is a Connect or nothing.
LEMMA StepKeepsPromise ==
  IndInv /\ [Next]_vars => [Promise!Next]_(Promise!vars)
<1> SUFFICES ASSUME IndInv, [Next]_vars PROVE [Promise!Next]_(Promise!vars)
  OBVIOUS
<1>0. TypeOK /\ LayersAgree /\ InFlight /\ HeardFirst
  BY DEF IndInv
<1> USE DEF Promise!vars
<1>1. CASE UNCHANGED <<state, session, heard>>
  BY <1>1
<1>2. CASE Arrive
  <2>1. CASE heard' = heard
    BY <1>2, <2>1 DEF Arrive
  <2>2. CASE heard' # heard
    <3>1. ~sent.default /\ heard' = heard \cup {sent.key}
      BY <1>2, <2>2 DEF Arrive
    <3>2. session.adopted
      <4>1. sent = Inform(session)
        BY <1>0, <1>2 DEF Arrive, TypeOK, InFlight
      <4>2. sent.default = ~session.adopted
        BY <4>1 DEF Inform
      <4>3. session.adopted \in BOOLEAN
        BY <1>0 DEF TypeOK, SessionType
      <4>. QED BY <3>1, <4>2, <4>3
    <3>3. state # "PENDING" /\ heard' # {}
      BY <1>0, <3>1, <3>2 DEF LayersAgree
    <3>4. Promise!Declare
      BY <1>2, <3>3 DEF Arrive, Promise!Declare
    <3>. QED BY <3>4 DEF Promise!Next
  <2>. QED BY <2>1, <2>2
<1>3. ASSUME NEW m \in Reply, Apply(m) PROVE [Promise!Next]_(Promise!vars)
  <2>1. session \in SessionType /\ session' \in SessionType
    BY <1>0, <1>3, ReplyKeepsType DEF TypeOK, Apply
  <2>2. session' = ApplyReply(session, m) /\ state' = StateAfter(session, m, state)
    BY <1>3 DEF Apply
  <2>3. CASE m.type = "setdefault"
    <3>1. state' = "PENDING" /\ session'.key = DefaultKey
      BY <2>1, <2>2, <2>3, ReplyAndAdoption
    <3>2. heard' = {}
      BY <1>3, <2>3 DEF Apply
    <3>. QED BY <3>1, <3>2 DEF Promise!Next, Promise!Reset
  <2>4. CASE m.type # "setdefault"
    <3>1. heard' = heard
      BY <1>3, <2>4 DEF Apply
    <3>2. CASE state' = "ADOPTING"
      <4>1. session'.key \in AllKeys
        BY <2>1 DEF SessionType
      <4>2. Promise!Adopt(session'.key)
        BY <3>1, <3>2 DEF Promise!Adopt
      <4>. QED BY <4>1, <4>2 DEF Promise!Next
    <3>3. CASE state' # "ADOPTING"
      <4>1. state' = state /\ session'.key = session.key
        BY <2>1, <2>2, <2>4, <3>3, ReplyAndAdoption
      <4>. QED BY <3>1, <4>1
    <3>. QED BY <3>2, <3>3
  <2>. QED BY <2>3, <2>4
<1>4. CASE Settle
  <2>1. session' = session /\ heard' = heard
    BY <1>4 DEF Settle, historyVars
  <2>2. CASE state' = state
    BY <2>1, <2>2
  <2>3. CASE state' # state
    <3>1. state = "ADOPTING" /\ state' = "CONNECTED" /\ heard # {}
      BY <1>0, <1>4, <2>3 DEF Settle, HeardFirst
    <3>. QED BY <2>1, <3>1 DEF Promise!Next, Promise!Connect
  <2>. QED BY <2>2, <2>3
<1>5. CASE Wake
  BY <1>0, <1>5, WakeKeepsAdoption DEF Wake
<1>. QED BY <1>1, <1>2, <1>3, <1>4, <1>5
         DEF Next, vars, Encode, EncodeFails, NoReply, Receive, Exit, Cancel, historyVars

\* The device implements Adoption: in particular it is CONNECTED only after an
\* inform sent adopted has reached the controller since the last factory
\* reset (informOnce's sample before applyResponse).
THEOREM ImplementsAdoption == Spec => KeepsPromise
<1>1. Promise!Spec <=> Promise!Init /\ [][Promise!Next]_(Promise!vars)
  BY DEF Promise!Spec
<1>. QED BY <1>1, InitKeepsPromise, StepKeepsPromise, Inductive, PTL
         DEF Spec, KeepsPromise

-----------------------------------------------------------------------------
(* Action properties. *)

\* Once the device holds a real key, no mgmt_cfg and nothing but a set-adopt or
\* a factory reset changes it, whatever the controller sends and in whatever
\* order (Session.applySetparam's gate).
THEOREM RealKeyAlwaysKept == Spec => RealKeyIsKept
<1>1. IndInv /\ [Next]_vars =>
        (session.key # DefaultKey /\ session'.key # session.key
           => last' \in {"set-adopt", "setdefault"})
  <2> SUFFICES ASSUME IndInv, [Next]_vars, session.key # DefaultKey,
                      session'.key # session.key
               PROVE  last' \in {"set-adopt", "setdefault"}
    OBVIOUS
  <2>1. TypeOK
    BY DEF IndInv
  <2>2. ASSUME NEW m \in Reply, Apply(m)
        PROVE  last' \in {"set-adopt", "setdefault"}
    <3>1. session \in SessionType /\ session' = ApplyReply(session, m) /\ last' = m.type
      BY <2>1, <2>2 DEF TypeOK, Apply
    <3>. QED BY <3>1, ReplyAndAdoption
  <2>3. CASE Wake
    BY <2>1, <2>3, WakeKeepsAdoption
  <2>. QED BY <2>2, <2>3
           DEF Next, vars, Encode, EncodeFails, Arrive, NoReply, Receive, Settle, Exit, Cancel
<1>. QED BY <1>1, Inductive, PTL DEF Spec, RealKeyIsKept

\* A device that has taken a key ParseKey refuses keeps it and stays silent for
\* good (Session.EncodeInform, informOnce's early return).
THEOREM MalformedKeyForGood == Spec => MalformedKeyIsTerminal
<1>1. IndInv /\ [Next]_vars =>
        (~WellFormed(session.key) => sent' = None /\ session'.key = session.key)
  <2> SUFFICES ASSUME IndInv, [Next]_vars, ~WellFormed(session.key)
               PROVE  sent' = None /\ session'.key = session.key
    OBVIOUS
  <2>1. TypeOK /\ InFlight
    BY DEF IndInv
  <2>2. sent = None
    <3>1. SUFFICES ASSUME sent # None PROVE FALSE
      OBVIOUS
    <3>2. sent \in InformType /\ sent = Inform(session)
      BY <2>1, <3>1 DEF TypeOK, InFlight
    <3>. QED BY <3>2 DEF Inform, InformType, WellFormed
  <2>3. pc \notin {"posted", "served", "sampled"}
    BY <2>1, <2>2 DEF TypeOK, InFlight
  <2>4. CASE Wake
    BY <2>1, <2>2, <2>4, WakeKeepsAdoption DEF Wake
  <2>. QED BY <2>2, <2>3, <2>4
           DEF Next, vars, Encode, EncodeFails, Arrive, NoReply, Receive, Apply,
               Settle, Exit, Cancel
<1>. QED BY <1>1, Inductive, PTL DEF Spec, MalformedKeyIsTerminal

\* A device that is CONNECTED and takes another key is ADOPTING again in the
\* same step, and PENDING after a reset (applyResponse's effects).
THEOREM RekeyAlwaysLeavesConnected == Spec => RekeyLeavesConnected
<1>1. IndInv /\ [Next]_vars =>
        (state = "CONNECTED" /\ session'.key # session.key => state' # "CONNECTED")
  <2> SUFFICES ASSUME IndInv, [Next]_vars, session'.key # session.key
               PROVE  state' # "CONNECTED"
    OBVIOUS
  <2>1. TypeOK
    BY DEF IndInv
  <2>2. ASSUME NEW m \in Reply, Apply(m) PROVE state' # "CONNECTED"
    <3>1. /\ session \in SessionType
          /\ session' = ApplyReply(session, m)
          /\ state' = StateAfter(session, m, state)
      BY <2>1, <2>2 DEF TypeOK, Apply
    <3>. QED BY <3>1, ReplyAndAdoption
  <2>3. CASE Wake
    BY <2>1, <2>3, WakeKeepsAdoption
  <2>. QED BY <2>2, <2>3
           DEF Next, vars, Encode, EncodeFails, Arrive, NoReply, Receive, Settle, Exit, Cancel
<1>. QED BY <1>1, Inductive, PTL DEF Spec, RekeyLeavesConnected

-----------------------------------------------------------------------------
(* Everything the session remembers was said since the last factory reset. *)

LEMMA ReplyIsRemembered ==
  ASSUME NEW m \in Reply, TypeOK, ResetForgets, Apply(m)
  PROVE  ResetForgets'
<1> DEFINE r == ApplyReply(session, m)
<1>1. session \in SessionType /\ session' = r
  BY DEF TypeOK, Apply
<1>2. CASE m.type = "setdefault"
  BY <1>1, <1>2 DEF ApplyReply, FactoryReset, ResetForgets, SessionType
<1>3. CASE m.type # "setdefault"
  <2>1. since' = since \cup {m.type}
    BY <1>3 DEF Apply
  <2>2. CASE m.type = "set-adopt"
    BY <1>1, <2>1, <2>2 DEF ApplyReply, ApplySetAdopt, ResetForgets, SessionType
  <2>3. CASE m.type = "setparam"
    <3>1. r.tables = session.tables
      BY <1>1, <2>3 DEF ApplyReply, ApplySetParam, SessionType
    <3>. QED BY <1>1, <2>1, <2>3, <3>1 DEF ResetForgets
  <2>4. CASE m.type = "setstate"
    <3>1. r.adopted = session.adopted /\ r.gcm = session.gcm
      BY <1>1, <2>4 DEF ApplyReply, ApplySetState, SessionType
    <3>. QED BY <1>1, <2>1, <2>4, <3>1 DEF ResetForgets
  <2>5. CASE m.type \in {"noop", "upgrade", "reboot", "ignored"}
    <3>1. /\ r.adopted = session.adopted /\ r.gcm = session.gcm
          /\ r.tables = session.tables /\ r.cfgversion = session.cfgversion
      BY <1>1, <2>5 DEF ApplyReply, ApplyUpgrade, SessionType
    <3>. QED BY <1>1, <2>1, <3>1 DEF ResetForgets
  <2>. QED BY <1>3, <2>2, <2>3, <2>4, <2>5, ReplyKinds
<1>. QED BY <1>2, <1>3

\* A factory reset forgets all a controller provisioned, however its replies
\* were interleaved with lost ones (applyCmd's setdefault).
THEOREM ResetAlwaysForgets == Spec => []ResetForgets
<1>1. Init => ResetForgets
  BY DEF Init, NewSession, ResetForgets
<1>2. TypeOK /\ ResetForgets /\ [Next]_vars => ResetForgets'
  <2> SUFFICES ASSUME TypeOK, ResetForgets, [Next]_vars PROVE ResetForgets'
    OBVIOUS
  <2>1. CASE session' = session /\ since' = since
    BY <2>1 DEF ResetForgets
  <2>2. CASE Wake
    BY <2>2 DEF Wake, ResetForgets, TypeOK, SessionType
  <2>. QED BY <2>1, <2>2, ReplyIsRemembered
           DEF Next, vars, historyVars, Encode, EncodeFails, Arrive, NoReply,
               Receive, Settle, Exit, Cancel
<1>. QED BY <1>1, <1>2, TypeCorrect, PTL DEF Spec
=============================================================================
