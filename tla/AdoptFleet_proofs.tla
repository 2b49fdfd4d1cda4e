-------------------------- MODULE AdoptFleet_proofs --------------------------
(***************************************************************************)
(* What every step of the adopting client, and of the controller, keeps,   *)
(* for any fleet.  The client has no specification of its own: it runs in  *)
(* EmuMain, whose proofs end these.                                        *)
(***************************************************************************)
EXTENDS AdoptFleet, TLAPS

Places == {"idle", "login", "loginWait", "lookup", "lookupWait", "adopt", "settle",
           "adoptWait", "watch", "watchWait", "diagnose", "done"}

\* Until the first adopt of the device it is at.
Before == {"idle", "login", "loginWait", "lookup", "lookupWait"}

\* Behind the login, and not at an end.
LoggedIn == {"lookup", "lookupWait", "adopt", "settle", "adoptWait", "watch", "watchWait"}

Documents == {"absent", "young", "pending", "adopting", "connected", "offline"}

ClientTypeOK ==
  /\ docs \in [Macs -> Documents]
  /\ k \in 1 .. Len(Order)
  /\ at \in Places
  /\ fresh \in BOOLEAN /\ placeholder \in BOOLEAN
  /\ expired \in BOOLEAN /\ interrupted \in BOOLEAN

\* What the controller says is connected has been connected.
Known == \A d \in Macs : docs[d] = "connected" => d \in connected

\* The devices behind the client were connected when it left them, and it has
\* sent no adopt for those ahead of it.
OneByOne ==
  /\ \A j \in 1 .. k - 1 : Order[j] \in connected
  /\ landed \subseteq {Order[j] : j \in 1 .. k}
  /\ at \in Before => Mac \notin landed

\* What the client keeps from an answer, it was given in one.
Told ==
  /\ at \notin {"diagnose", "done"} => outcome = "none"
  /\ placeholder => "placeholder" \in told
  /\ at = "loginWait" => placeholder
  /\ at \in LoggedIn /\ Forbidden => "token lost" \in told
  /\ interrupted => adopter = "cli"

\* The inductive invariant.  AllConnected speaks of the whole fleet at the end;
\* it is true because of what held each time the client left a device (Known,
\* OneByOne).  DiagnosisTruthful speaks of the outcome; it is true because of
\* what the client kept from the answer that made it wait or fail (Told).
ClientInv ==
  /\ ClientTypeOK /\ Known /\ OneByOne /\ Told
  /\ AllConnected /\ OneAtATime /\ DiagnosisTruthful

\* The order lists every device of the fleet once.
LEMMA OrderFacts ==
  /\ Len(Order) \in Nat /\ Len(Order) >= 1
  /\ \A j \in 1 .. Len(Order) : Order[j] \in Macs
  /\ \A i, j \in 1 .. Len(Order) : Order[i] = Order[j] => i = j
  /\ \A d \in Macs : \E j \in 1 .. Len(Order) : d = Order[j]
<1>1. DOMAIN Order = 1 .. Len(Order) /\ Len(Order) \in Nat
  BY OrderAssumption
<1>2. Len(Order) >= 1
  BY OrderAssumption
<1>. QED BY <1>1, <1>2, OrderAssumption DEF Macs

\* A client that has not begun keeps every promise.
LEMMA ClientInitInv == AdoptInit => ClientInv
<1> SUFFICES ASSUME AdoptInit PROVE ClientInv
  OBVIOUS
<1> USE DEF AdoptInit, ClientInit
<1>1. ClientTypeOK
  <2>1. k \in 1 .. Len(Order)
    BY OrderFacts
  <2>2. docs \in [Macs -> Documents]
    BY DEF Documents
  <2>3. at \in Places /\ ~fresh /\ ~placeholder /\ ~expired /\ ~interrupted
    BY DEF Places
  <2>4. /\ fresh \in BOOLEAN /\ placeholder \in BOOLEAN
        /\ expired \in BOOLEAN /\ interrupted \in BOOLEAN
    BY Zenon
  <2>. QED BY <2>1, <2>2, <2>3, <2>4 DEF ClientTypeOK
<1>2. \A d \in Macs : docs[d] # "connected"
  OBVIOUS
<1>3. Known /\ OneByOne /\ Told
  BY <1>2 DEF Known, OneByOne, Told, LoggedIn
<1>4. AllConnected /\ OneAtATime /\ DiagnosisTruthful
  BY DEF AllConnected, OneAtATime, DiagnosisTruthful
<1>. QED BY <1>1, <1>3, <1>4 DEF ClientInv

-----------------------------------------------------------------------------
(* The controller.                                                         *)

\* What the controller does by itself takes no connection away.
LEMMA ControllerInv ==
  ASSUME ClientInv, Boots \/ \E d \in Macs : Hears(d) \/ Misses(d)
  PROVE  ClientInv'
<1>1. /\ UNCHANGED <<adopter, dialect, at, k, placeholder, fresh, seen, outcome,
                     expired, interrupted, told, landed>>
      /\ connected \subseteq connected'
  BY DEF Boots, Hears, Misses, clientVars, contextVars, adoptHistory
<1>2. docs' \in [Macs -> Documents] /\ Known'
  <2>1. CASE Boots
    BY <2>1 DEF Boots, adoptHistory, ClientInv, ClientTypeOK, Known
  <2>2. ASSUME NEW d \in Macs, Hears(d) PROVE docs' \in [Macs -> Documents] /\ Known'
    BY <2>2 DEF Hears, ClientInv, ClientTypeOK, Known, Documents
  <2>3. ASSUME NEW d \in Macs, Misses(d) PROVE docs' \in [Macs -> Documents] /\ Known'
    BY <2>3 DEF Misses, adoptHistory, ClientInv, ClientTypeOK, Known, Documents
  <2>. QED BY <2>1, <2>2, <2>3
<1>3. ClientTypeOK'
  BY <1>1, <1>2 DEF ClientInv, ClientTypeOK
<1>4. OneByOne' /\ OneAtATime' /\ AllConnected'
  BY <1>1 DEF ClientInv, OneByOne, OneAtATime, AllConnected, Mac, Macs
<1>5. Told' /\ DiagnosisTruthful'
  BY <1>1 DEF ClientInv, Told, DiagnosisTruthful, Forbidden, CtxDone, Mac
<1>. QED BY <1>2, <1>3, <1>4, <1>5 DEF ClientInv

-----------------------------------------------------------------------------
(* The client's moves.                                                     *)

\* A step that stays at its device: what it must see to itself is Told and the
\* diagnosis.
LEMMA StayInv ==
  ASSUME ClientInv, Told', DiagnosisTruthful',
         docs' \in [Macs -> Documents],
         \A d \in Macs : docs'[d] = "connected" => docs[d] = "connected",
         UNCHANGED <<k, connected>>, at' \in Places,
         fresh' \in BOOLEAN, placeholder' \in BOOLEAN,
         expired' \in BOOLEAN, interrupted' \in BOOLEAN,
         outcome' = "connected" => outcome = "connected",
         landed' \in {landed, landed \cup {Mac}},
         at' \in Before => at \in Before /\ landed' = landed
  PROVE  ClientInv'
<1>1. ClientTypeOK' /\ Known'
  BY DEF ClientInv, ClientTypeOK, Known
<1>2. Mac' = Mac /\ Mac \in {Order[j] : j \in 1 .. k}
  BY OrderFacts DEF ClientInv, ClientTypeOK, Mac
<1>3. OneByOne' /\ OneAtATime' /\ AllConnected'
  BY <1>2 DEF ClientInv, OneByOne, OneAtATime, AllConnected
<1>. QED BY <1>1, <1>3 DEF ClientInv

\* A step that leaves its device behind: it has read that it is connected.
LEMMA LeaveInv ==
  ASSUME ClientInv, NextDevice, docs[Mac] = "connected",
         at \in LoggedIn,
         UNCHANGED <<docs, connected, landed, adopter, dialect, placeholder, expired, interrupted>>,
         fresh' \in BOOLEAN, fresh => fresh',
         told' = told
  PROVE  ClientInv'
<1>1. Mac \in Macs /\ k \in 1 .. Len(Order)
  BY OrderFacts DEF ClientInv, ClientTypeOK, Mac
<1>2. Mac \in connected
  BY <1>1 DEF ClientInv, Known
<1>3. landed \subseteq connected
  BY <1>2 DEF ClientInv, OneAtATime
<1>4. \A j \in 1 .. k : Order[j] \in connected
  BY <1>1, <1>2, OrderFacts DEF ClientInv, OneByOne, Mac
<1>5. outcome = "none"
  BY DEF ClientInv, Told, LoggedIn
<1>6. Forbidden' => "token lost" \in told'
  BY DEF ClientInv, ClientTypeOK, Told, Forbidden
<1>7. CASE k < Len(Order)
  <2>1. k' = k + 1 /\ at' = "lookup" /\ outcome' = outcome
    BY <1>7 DEF NextDevice
  <2>2. k' \in 1 .. Len(Order) /\ k' - 1 = k /\ k' \notin 1 .. k
    BY <1>1, <1>7, <2>1, OrderFacts
  <2>3. Mac' \notin landed
    <3>1. \A j \in 1 .. k : Order[j] # Order[k']
      BY <2>2, <1>1, OrderFacts
    <3>. QED BY <3>1 DEF ClientInv, OneByOne, Mac
  <2>4. ClientTypeOK' /\ Known'
    BY <2>1, <2>2 DEF ClientInv, ClientTypeOK, Known, Places
  <2>5. OneByOne'
    <3>1. landed \subseteq {Order[j] : j \in 1 .. k'}
      BY <1>1, <2>1, OrderFacts DEF ClientInv, OneByOne
    <3>. QED BY <1>4, <2>2, <2>3, <3>1 DEF OneByOne
  <2>6. Told'
    BY <1>5, <1>6, <2>1 DEF ClientInv, Told
  <2>7. AllConnected' /\ OneAtATime' /\ DiagnosisTruthful'
    BY <1>3, <1>5, <2>1 DEF AllConnected, OneAtATime, DiagnosisTruthful
  <2>. QED BY <2>4, <2>5, <2>6, <2>7 DEF ClientInv
<1>8. CASE ~(k < Len(Order))
  <2>1. outcome' = "connected" /\ at' = "done" /\ k' = k
    BY <1>8 DEF NextDevice, End
  <2>2. Macs \subseteq connected
    <3>1. k = Len(Order)
      BY <1>1, <1>8, OrderFacts
    <3>. QED BY <1>4, <3>1, OrderFacts
  <2>3. ClientTypeOK' /\ Known'
    BY <2>1 DEF ClientInv, ClientTypeOK, Known, Places
  <2>4. OneByOne' /\ Told'
    BY <2>1 DEF ClientInv, OneByOne, Told, Before, LoggedIn
  <2>5. AllConnected' /\ OneAtATime' /\ DiagnosisTruthful'
    BY <1>3, <2>1, <2>2 DEF AllConnected, OneAtATime, DiagnosisTruthful
  <2>. QED BY <2>3, <2>4, <2>5 DEF ClientInv
<1>. QED BY <1>7, <1>8

\* A reply leaves the client with a token at least as good.
LEMMA RepliedFresh ==
  ASSUME fresh \in BOOLEAN, Replied
  PROVE  fresh' \in BOOLEAN /\ (fresh => fresh')
<1>1. PICK rotated \in {FALSE, dialect = "unifios" /\ boot = "running"} :
        fresh' = (rotated \/ fresh)
  BY Zenon DEF Replied, Sniff
<1>. QED BY <1>1, Zenon


\* A step that goes somewhere else at its device, and does not end.
LEMMA GotoInv ==
  ASSUME ClientInv, at \notin {"diagnose", "done"}, at' \in Places \ {"diagnose", "done"},
         UNCHANGED <<k, outcome, connected, adopter, dialect, expired, interrupted>>,
         docs' \in [Macs -> Documents],
         \A d \in Macs : docs'[d] = "connected" => docs[d] = "connected",
         fresh' \in BOOLEAN, placeholder' \in BOOLEAN,
         placeholder' => "placeholder" \in told',
         at' = "loginWait" => placeholder',
         at' \in LoggedIn /\ dialect = "unifios" /\ ~fresh' => "token lost" \in told',
         landed' \in {landed, landed \cup {Mac}},
         at' \in Before => at \in Before /\ landed' = landed
  PROVE  ClientInv'
<1>1. outcome = "none"
  BY DEF ClientInv, Told
<1>2. DiagnosisTruthful'
  BY <1>1 DEF DiagnosisTruthful
<1>3. Told'
  BY <1>1 DEF ClientInv, Told, Forbidden
<1>4. at' \in Places /\ expired' \in BOOLEAN /\ interrupted' \in BOOLEAN
  BY DEF ClientInv, ClientTypeOK
<1>. QED BY <1>1, <1>2, <1>3, <1>4, StayInv

\* A step that ends without success.
LEMMA EndInv ==
  ASSUME ClientInv, at' \in {"diagnose", "done"},
         UNCHANGED <<docs, k, connected, adopter, expired, interrupted, landed, placeholder>>,
         fresh' \in BOOLEAN,
         told \ {"overlooked"} \subseteq told',
         outcome' # "connected",
         DiagnosisTruthful'
  PROVE  ClientInv'
<1>1. Told'
  BY DEF ClientInv, Told, LoggedIn
<1>2. /\ at' \in Places /\ at' \notin Before
      /\ placeholder' \in BOOLEAN /\ expired' \in BOOLEAN /\ interrupted' \in BOOLEAN
      /\ docs' \in [Macs -> Documents]
  BY DEF ClientInv, ClientTypeOK, Places, Before
<1>. QED BY <1>1, <1>2, StayInv

-----------------------------------------------------------------------------
(* The steps of the client, one by one.                                    *)

\* Logging in, answered or cut off.
LEMMA LoginInv ==
  ASSUME ClientInv, BeginLogin \/ LoginReply \/ LoginCut
  PROVE  ClientInv'
<1> USE DEF Steady, contextVars
<1>0. ClientTypeOK /\ Told
  BY DEF ClientInv
<1>1. CASE BeginLogin
  BY <1>0, <1>1, GotoInv DEF BeginLogin, Goto, ClientTypeOK, Told, Places, Before, LoggedIn
<1>2. CASE LoginReply
  <2>1. /\ at = "login" /\ outcome = "none" /\ UNCHANGED <<docs, landed, k>>
        /\ UNCHANGED <<adopter, dialect, expired, interrupted, connected>>
    BY <1>0, <1>2 DEF LoginReply, Goto, End, Told
  <2>2. CASE Goto("loginWait") /\ placeholder' = TRUE /\ fresh' = fresh
             /\ told' = told \cup {"placeholder"}
    BY <1>0, <2>1, <2>2, GotoInv DEF Goto, ClientTypeOK, Places, Before, LoggedIn
  <2>3. CASE Goto("lookup") /\ fresh' = TRUE /\ placeholder' = placeholder /\ told' = told
    BY <1>0, <2>1, <2>3, GotoInv DEF Goto, ClientTypeOK, Told, Places, Before, LoggedIn
  <2>4. CASE End(LoginError("login rejected")) /\ placeholder' = placeholder /\ fresh' = fresh
             /\ told' = told \cup {"login rejected"}
    <3>1. \/ outcome' = "login rejected"
          \/ outcome' = "never ready" /\ CtxDone /\ placeholder
      BY <2>4 DEF End, LoginError
    <3>2. DiagnosisTruthful'
      BY <1>0, <2>1, <2>4, <3>1 DEF DiagnosisTruthful, Told, CtxDone
    <3>. QED BY <1>0, <2>1, <2>4, <3>1, <3>2, EndInv DEF End, ClientTypeOK
  <2>. QED BY <1>2, <2>2, <2>3, <2>4 DEF LoginReply
<1>3. CASE LoginCut
  <2>1. /\ UNCHANGED <<docs, landed, k, placeholder, fresh, told>>
        /\ UNCHANGED <<adopter, dialect, expired, interrupted, connected>>
        /\ at' = "done"
    BY <1>3 DEF LoginCut, End
  <2>2. \/ outcome' = "login cut"
        \/ outcome' = "never ready" /\ CtxDone /\ placeholder
    BY <1>3 DEF LoginCut, End, LoginError
  <2>3. DiagnosisTruthful'
    BY <1>0, <2>1, <2>2 DEF DiagnosisTruthful, Told, CtxDone
  <2>. QED BY <1>0, <2>1, <2>2, <2>3, EndInv DEF ClientTypeOK
<1>. QED BY <1>1, <1>2, <1>3

\* Only a document that says connected is read as connected.
LEMMA ReadsTruly ==
  ASSUME NEW r \in Reads, r = "connected"
  PROVE  docs[Mac] = "connected"
  BY DEF Reads

\* A read moves the client on in one of these ways.
LEMMA ReadMoves ==
  ASSUME NEW r, Lookup(r) \/ Settle(r) \/ Watch(r)
  PROVE  /\ at \in {"lookup", "settle", "watch"}
         /\ \/ r = "connected" /\ NextDevice /\ told' = told
            \/ /\ at' \in LoggedIn /\ UNCHANGED <<k, outcome>>
               /\ at' \in Before => at \in Before
            \/ Fail("abandoned")
            \/ r = "connected" /\ Fail("already adopted") /\ at = "lookup"
         /\ told \ {"overlooked"} \subseteq told'
<1> USE DEF LoggedIn, Before
<1>1. CASE Lookup(r)
  <2>1. told \ {"overlooked"} \subseteq told' /\ (r = "connected" => told' = told)
    BY <1>1 DEF Lookup
  <2>. QED BY <1>1, <2>1 DEF Lookup, Goto
<1>2. CASE Settle(r)
  BY <1>2 DEF Settle, AfterAdopt, Goto
<1>3. CASE Watch(r)
  BY <1>3 DEF Watch, Up, Goto
<1>. QED BY <1>1, <1>2, <1>3

\* What the client does with what it was told of a device.
LEMMA ReadInv ==
  ASSUME ClientInv,
         NEW r, Lookup(r) \/ Settle(r) \/ Watch(r),
         r = "connected" => docs[Mac] = "connected",
         Steady, UNCHANGED <<docs, placeholder, landed>>,
         fresh' \in BOOLEAN, fresh => fresh'
  PROVE  ClientInv'
<1> USE DEF Steady, contextVars
<1>0. ClientTypeOK /\ Told /\ outcome = "none" /\ at \in LoggedIn
  BY ReadMoves DEF ClientInv, Told, LoggedIn
<1>1. told \ {"overlooked"} \subseteq told'
  BY ReadMoves
<1>2. CASE r = "connected" /\ NextDevice /\ told' = told
  BY <1>0, <1>2, LeaveInv
<1>3. CASE /\ at' \in LoggedIn /\ UNCHANGED <<k, outcome>>
           /\ at' \in Before => at \in Before
  <2>1. at' \in Places \ {"diagnose", "done"} /\ at \notin {"diagnose", "done"} /\ at' # "loginWait"
    BY <1>0, <1>3 DEF LoggedIn, Places
  <2>2. dialect = "unifios" /\ ~fresh' => "token lost" \in told'
    BY <1>0, <1>1 DEF Told, Forbidden
  <2>3. placeholder' \in BOOLEAN /\ docs' \in [Macs -> Documents]
    BY <1>0 DEF ClientTypeOK
  <2>4. placeholder' => "placeholder" \in told'
    BY <1>0, <1>1 DEF Told
  <2>. QED BY <1>3, <2>1, <2>2, <2>3, <2>4, GotoInv
<1>4. CASE Fail("abandoned")
  <2>1. DiagnosisTruthful'
    BY <1>4 DEF Fail, DiagnosisTruthful
  <2>. QED BY <1>1, <1>4, <2>1, EndInv DEF Fail
<1>5. CASE r = "connected" /\ Fail("already adopted") /\ at = "lookup"
  <2>1. Mac' = Mac /\ Mac \notin landed
    BY <1>5 DEF Fail, Mac, ClientInv, OneByOne, Before
  <2>2. DiagnosisTruthful'
    BY <1>5, <2>1 DEF Fail, DiagnosisTruthful
  <2>. QED BY <1>1, <1>5, <2>2, EndInv DEF Fail
<1>. QED BY <1>2, <1>3, <1>4, <1>5, ReadMoves

\* Reading the device list, answered or cut off.
LEMMA ReadsInv ==
  ASSUME ClientInv, ReadCut \/ \E r \in Reads : ReadReply(r)
  PROVE  ClientInv'
<1>0. fresh \in BOOLEAN
  BY DEF ClientInv, ClientTypeOK
<1>1. CASE ReadCut
  BY <1>0, <1>1, ReadInv DEF ReadCut
<1>2. ASSUME NEW r \in Reads, ReadReply(r) PROVE ClientInv'
  <2>1. r = "connected" => docs[Mac] = "connected"
    BY ReadsTruly
  <2>2. fresh' \in BOOLEAN /\ (fresh => fresh')
    BY <1>0, <1>2, RepliedFresh DEF ReadReply
  <2>. QED BY <1>2, <2>1, <2>2, ReadInv DEF ReadReply
<1>. QED BY <1>1, <1>2

\* What the controller takes an adopt for is no longer pending, nor connected.
LEMMA TakesFacts ==
  ASSUME ClientInv, Takes(Mac)
  PROVE  /\ docs' \in [Macs -> Documents]
         /\ \A d \in Macs : docs'[d] = "connected" => docs[d] = "connected"
         /\ landed' = landed \cup {Mac}
  BY DEF ClientInv, ClientTypeOK, Takes, Documents

\* Asking for the adoption, answered or cut off.
LEMMA AdoptInv ==
  ASSUME ClientInv, AdoptReply \/ AdoptCut
  PROVE  ClientInv'
<1> USE DEF Steady, contextVars
<1>0. ClientTypeOK /\ Told /\ at = "adopt"
  BY DEF ClientInv, AdoptReply, AdoptCut
<1>1. CASE AdoptCut
  <2>1. DiagnosisTruthful'
    BY <1>1 DEF AdoptCut, Fail, DiagnosisTruthful
  <2>. QED BY <1>0, <1>1, <2>1, EndInv DEF AdoptCut, Fail, ClientTypeOK
<1>2. CASE AdoptReply
  <2>1. fresh' \in BOOLEAN /\ (fresh => fresh')
    BY <1>0, <1>2, RepliedFresh DEF AdoptReply, ClientTypeOK
  <2>2. UNCHANGED <<placeholder, connected, adopter, dialect, expired, interrupted>>
    BY <1>2 DEF AdoptReply
  <2>3. placeholder' \in BOOLEAN /\ (placeholder' => "placeholder" \in told)
    BY <1>0, <2>2 DEF ClientTypeOK, Told
  <2>4. dialect = "unifios" /\ ~fresh' => "token lost" \in told
    BY <1>0, <2>1 DEF Told, LoggedIn, Forbidden
  <2>5. CASE Takes(Mac) /\ AfterAdopt /\ told' = told
    BY <1>0, <2>1, <2>2, <2>3, <2>4, <2>5, TakesFacts, GotoInv
    DEF AfterAdopt, Goto, Places, Before
  <2>6. CASE Goto("settle") /\ UNCHANGED <<docs, landed, told>>
    BY <1>0, <2>1, <2>2, <2>3, <2>4, <2>6, GotoInv DEF Goto, Places, Before, ClientTypeOK
  <2>7. CASE /\ Fail("adopt rejected") /\ UNCHANGED <<docs, landed>>
             /\ told' = IF Forbidden THEN told ELSE told \cup {"refused"}
    <3>1. told' \cap {"refused", "token lost"} # {} /\ told \subseteq told'
      BY <1>0, <2>7 DEF Told, LoggedIn
    <3>2. DiagnosisTruthful'
      BY <2>7, <3>1 DEF Fail, DiagnosisTruthful
    <3>. QED BY <2>1, <2>2, <2>7, <3>1, <3>2, EndInv DEF Fail
  <2>. QED BY <1>2, <2>5, <2>6, <2>7 DEF AdoptReply
<1>. QED BY <1>1, <1>2

\* A request that took effect is sent again.
LEMMA ReplyLostInv == ClientInv /\ ReplyLost => ClientInv'
<1> SUFFICES ASSUME ClientInv, ReplyLost PROVE ClientInv'
  OBVIOUS
<1> USE DEF Steady, contextVars
<1>0. /\ ClientTypeOK /\ Told /\ at' = at /\ at \in {"lookup", "adopt", "settle", "watch"}
      /\ UNCHANGED <<k, outcome, placeholder, connected, adopter, dialect, expired, interrupted>>
  BY DEF ClientInv, ReplyLost, Requests
<1>1. at \in Places \ {"diagnose", "done", "loginWait"} /\ at \in LoggedIn
  BY <1>0 DEF Places, LoggedIn
<1>2. placeholder' \in BOOLEAN /\ (placeholder' => "placeholder" \in told)
  BY <1>0 DEF ClientTypeOK, Told
<1>3. CASE at = "adopt" /\ Takes(Mac) /\ UNCHANGED <<fresh, told>>
  <2>1. fresh' \in BOOLEAN /\ (dialect = "unifios" /\ ~fresh' => "token lost" \in told')
    BY <1>0, <1>1, <1>3 DEF ClientTypeOK, Told, Forbidden
  <2>. QED BY <1>0, <1>1, <1>2, <1>3, <2>1, TakesFacts, GotoInv DEF Before
<1>4. CASE fresh' = FALSE /\ told' = told \cup {"token lost"} /\ UNCHANGED <<docs, landed>>
  BY <1>0, <1>1, <1>2, <1>4, GotoInv DEF ClientTypeOK
<1>. QED BY <1>3, <1>4 DEF ReplyLost

\* The waits, and what each repeats.
LEMMA Waits ==
  ASSUME at \in DOMAIN Repeats
  PROVE  \/ at = "loginWait" /\ Repeats[at] = "login"
         \/ at = "lookupWait" /\ Repeats[at] = "lookup"
         \/ at = "adoptWait" /\ Repeats[at] = "adopt"
         \/ at = "watchWait" /\ Repeats[at] = "watch"
  BY DEF Repeats

\* Waiting, and giving up on it.
LEMMA WaitsInv ==
  ASSUME ClientInv, Tick \/ GiveUp
  PROVE  ClientInv'
<1> USE DEF Steady, contextVars
<1>0. ClientTypeOK /\ Told /\ at \in DOMAIN Repeats
  BY DEF ClientInv, Tick, GiveUp
<1>1. CASE Tick
  <2>1. /\ UNCHANGED <<docs, placeholder, fresh, landed, k, outcome, connected,
                       adopter, dialect, expired, interrupted>>
        /\ at' = Repeats[at] /\ told \subseteq told'
    BY <1>1 DEF Tick, Goto
  <2>2. /\ at' \in Places \ {"diagnose", "done", "loginWait"} /\ at \notin {"diagnose", "done"}
        /\ at' \in Before => at \in Before
        /\ at' \in LoggedIn => at \in LoggedIn
    BY <1>0, <2>1, Waits DEF Places, Before, LoggedIn
  <2>3. /\ placeholder' \in BOOLEAN /\ fresh' \in BOOLEAN /\ docs' \in [Macs -> Documents]
        /\ placeholder' => "placeholder" \in told'
        /\ at' \in LoggedIn /\ dialect = "unifios" /\ ~fresh' => "token lost" \in told'
    BY <1>0, <2>1, <2>2 DEF ClientTypeOK, Told, Forbidden
  <2>. QED BY <2>1, <2>2, <2>3, GotoInv
<1>2. CASE GiveUp
  <2>1. UNCHANGED <<docs, placeholder, fresh, told, landed, k, connected,
                    adopter, dialect, expired, interrupted>>
    BY <1>0, <1>2, Waits DEF GiveUp, End, Fail
  <2>2. \/ at = "loginWait" /\ End("never ready")
        \/ \E o \in {"never listed", "not pending", "never adopted", "stalled"} : Fail(o)
    BY <1>0, <1>2, Waits DEF GiveUp
  <2>3. /\ at' \in {"diagnose", "done"}
        /\ outcome' \in {"never ready", "never listed", "not pending", "never adopted", "stalled"}
        /\ outcome' = "never ready" => placeholder
    BY <1>0, <2>2 DEF End, Fail, Told
  <2>4. CtxDone
    BY <1>2 DEF GiveUp
  <2>5. DiagnosisTruthful'
    BY <1>0, <2>1, <2>3, <2>4 DEF DiagnosisTruthful, CtxDone, Told
  <2>. QED BY <1>0, <2>1, <2>3, <2>5, EndInv DEF ClientTypeOK
<1>. QED BY <1>1, <1>2

\* The diagnosis, and the budget.
LEMMA RestInv ==
  ASSUME ClientInv, Diagnosed \/ Expire
  PROVE  ClientInv'
<1>0. ClientTypeOK /\ Told /\ DiagnosisTruthful
  BY DEF ClientInv
<1>1. CASE Diagnosed
  <2>1. /\ UNCHANGED <<docs, placeholder, fresh, told, landed, k, outcome, connected,
                       adopter, dialect, expired, interrupted>>
        /\ at = "diagnose" /\ at' = "done"
    BY <1>1 DEF Diagnosed, Goto, Steady, contextVars
  <2>2. Told' /\ DiagnosisTruthful'
    BY <1>0, <2>1 DEF Told, DiagnosisTruthful, CtxDone, Mac, LoggedIn
  <2>. QED BY <1>0, <2>1, <2>2, StayInv DEF ClientTypeOK, Places, Before
<1>2. CASE Expire
  <2>1. /\ UNCHANGED <<docs, placeholder, fresh, told, landed, k, outcome, connected,
                       adopter, dialect, at, interrupted>>
        /\ expired' = TRUE
    BY <1>2 DEF Expire, clientVars, adoptHistory
  <2>2. Told' /\ DiagnosisTruthful'
    BY <1>0, <2>1 DEF Told, DiagnosisTruthful, CtxDone, Mac, Forbidden
  <2>. QED BY <1>0, <2>1, <2>2, StayInv DEF ClientTypeOK
<1>. QED BY <1>1, <1>2

\* Every step of the client keeps the invariant.
LEMMA ClientStepInv == ClientInv /\ ClientStep => ClientInv'
  BY LoginInv, ReadsInv, AdoptInv, ReplyLostInv, WaitsInv, RestInv DEF ClientStep
=============================================================================
