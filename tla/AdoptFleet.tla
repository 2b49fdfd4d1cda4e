----------------------------- MODULE AdoptFleet -----------------------------
(***************************************************************************)
(* Adopting a fleet on a controller that is still booting (internal/adopt: *)
(* client.go, fleet.go; runAdopt in cmd/unifi-emu/adopt.go): log in, and   *)
(* for one MAC after the other wait for the pending document, send the     *)
(* adopt, and wait for state 1, all under one budget.                      *)
(*                                                                         *)
(* go-retryablehttp repeats a request until it is answered or the context  *)
(* is done, so a request is one control point that a reply may be lost at. *)
(* The controller is external: it adopts what it has seen pending for a    *)
(* while, and answers as the client's code and its tests expect it to.     *)
(***************************************************************************)
EXTENDS Naturals, Sequences

CONSTANTS
  Order,      \* the fleet's addresses, in the order they are adopted
  Dashed      \* those whose MAC was not written in the controller's colon form

Macs == {Order[k] : k \in DOMAIN Order}

ASSUME OrderAssumption ==
  /\ Order \in Seq(Macs) /\ Order # <<>>
  /\ \A j, k \in DOMAIN Order : Order[j] = Order[k] => j = k

VARIABLES
  \* the controller
  boot,        \* "starting", "front" (UniFi OS without its Network App) or "running"
  docs,        \* its document of each device
  \* the client
  adopter,     \* "cli", or a "harness" whose options are RequirePending and Check
  dialect,     \* "classic" or "unifios"
  at,          \* the request or wait it is in
  k,           \* the device it is at
  placeholder, \* Login has a lastAnswer
  fresh,       \* its CSRF token is the controller's
  seen,        \* waitPending: the controller has listed the device
  outcome,     \* what it ended with
  expired,     \* the budget is spent
  interrupted, \* the context the budget was made from is done
  alive,       \* the devices' process is up: what Check looks at
  \* history
  told,        \* what the controller has told it, or failed to
  landed,      \* devices the controller took this client's adopt for
  connected    \* devices it has had connected since this client began

clientVars == <<adopter, dialect, at, k, placeholder, fresh, seen, outcome>>
contextVars == <<expired, interrupted, alive>>
adoptHistory == <<told, landed, connected>>
adoptVars == <<boot, docs, clientVars, contextVars, adoptHistory>>

Requests == {"login", "lookup", "adopt", "settle", "watch"}

\* The request a wait repeats.
Repeats == [loginWait |-> "login", lookupWait |-> "lookup", adoptWait |-> "adopt",
            watchWait |-> "watch"]

Mac == Order[k]
CtxDone == expired \/ interrupted
CheckFails == adopter = "harness" /\ ~alive

-----------------------------------------------------------------------------
(* The controller. *)

Boots ==
  /\ \/ boot = "starting" /\ boot' \in {"front", "running"}
     \/ boot = "front" /\ boot' = "running"
  /\ UNCHANGED <<docs, clientVars, contextVars, adoptHistory>>

\* An inform of the device arrives: it is listed, is then old enough to be
\* adopted, and completes an adoption.
Hears(d) ==
  /\ boot = "running"
  /\ docs[d] \notin {"pending", "connected"}
  /\ docs' = [docs EXCEPT ![d] =
       CASE @ = "absent" -> "young" [] @ = "young" -> "pending" [] OTHER -> "connected"]
  /\ connected' = connected \cup {c \in {d} : docs'[c] = "connected"}
  /\ UNCHANGED <<boot, clientVars, contextVars, told, landed>>

\* A connected device has not informed for too long.
Misses(d) ==
  /\ docs[d] = "connected"
  /\ docs' = [docs EXCEPT ![d] = "offline"]
  /\ UNCHANGED <<boot, clientVars, contextVars, adoptHistory>>

-----------------------------------------------------------------------------
(* Where the client goes. *)

ClientInit ==
  /\ at = "idle"
  /\ k = 1
  /\ placeholder = FALSE
  /\ fresh = FALSE
  /\ seen = FALSE
  /\ outcome = "none"
  /\ expired = FALSE
  /\ interrupted = FALSE
  /\ alive = TRUE
  /\ told = {}
  /\ landed = {}

\* A controller that is new, or that has had the fleet.  The command line's
\* dialect comes with its settings.
AdoptInit ==
  /\ boot = "starting"
  /\ docs \in {[d \in Macs |-> s] : s \in {"absent", "offline"}}
  /\ adopter \in {"cli", "harness"}
  /\ dialect \in IF adopter = "cli" THEN {"classic"} ELSE {"classic", "unifios"}
  /\ connected = {}
  /\ ClientInit

Goto(p) == at' = p /\ UNCHANGED <<k, seen, outcome>>

End(o) == outcome' = o /\ at' = "done" /\ UNCHANGED <<k, seen>>

\* Fleet ends.  runAdopt looks at every device again, unless it was interrupted.
Fail(o) ==
  /\ outcome' = o
  /\ at' = IF adopter = "cli" /\ ~interrupted THEN "diagnose" ELSE "done"
  /\ UNCHANGED <<k, seen>>

\* The next MAC of Fleet's loop.
NextDevice ==
  IF k < Len(Order)
  THEN k' = k + 1 /\ at' = "lookup" /\ seen' = FALSE /\ UNCHANGED outcome
  ELSE End("connected")

\* Faulty variant: an adopt that was accepted is not followed up.
AfterAdoptAtOnce == NextDevice

AfterAdopt == Goto("watch")

\* Faulty variant: only the login's token is stored.
SniffAtLogin(rotated) == ~rotated /\ fresh

\* csrfSniffer: a token a reply carries is stored, whatever the reply.
Sniff(rotated) == rotated \/ fresh

\* UniFi OS may replace the token with any reply of a running controller.
Replied ==
  \E rotated \in {FALSE, dialect = "unifios" /\ boot = "running"} : fresh' = Sniff(rotated)

Forbidden == dialect = "unifios" /\ ~fresh

Steady == UNCHANGED <<boot, adopter, dialect, contextVars, connected>>

-----------------------------------------------------------------------------
(* Login. *)

BeginLogin ==
  /\ at = "idle"
  /\ Goto("login")
  /\ Steady /\ UNCHANGED <<docs, placeholder, fresh, told, landed>>

\* A failure that is not the placeholder, unless the context's end caused it.
LoginError(o) == IF CtxDone /\ placeholder THEN "never ready" ELSE o

LoginReply ==
  /\ at = "login"
  /\ \/ /\ boot = "starting" \/ (boot = "front" /\ dialect = "classic")
        /\ Goto("loginWait")
        /\ placeholder' = TRUE
        /\ told' = told \cup {"placeholder"}
        /\ UNCHANGED fresh
     \/ /\ boot = "running" \/ (boot = "front" /\ dialect = "unifios")
        /\ UNCHANGED placeholder
        /\ \/ Goto("lookup") /\ fresh' = TRUE /\ UNCHANGED told
           \/ /\ End(LoginError("login rejected"))
              /\ told' = told \cup {"login rejected"}
              /\ UNCHANGED fresh
  /\ Steady /\ UNCHANGED <<docs, landed>>

LoginCut ==
  /\ at = "login"
  /\ CtxDone
  /\ End(LoginError("login cut"))
  /\ Steady /\ UNCHANGED <<docs, placeholder, fresh, told, landed>>

-----------------------------------------------------------------------------
(* deviceByMAC, in the three places that read a document. *)

Absent(d) == docs[d] = "absent"

\* What a read may come back with: an error, no document under this MAC (the
\* comparison ignores case and nothing else), or the document.
Reads ==
  IF boot # "running" \/ Forbidden THEN {"error"}
  ELSE {"error", IF Absent(Mac) \/ Mac \in Dashed THEN "missing" ELSE docs[Mac]}

\* waitPending.
Lookup(r) ==
  /\ at = "lookup"
  /\ IF r = "connected"
     THEN IF adopter = "harness" THEN Fail("already adopted") ELSE NextDevice
     ELSE IF r \in {"young", "pending"} THEN Goto("adopt")
     ELSE IF CheckFails THEN Fail("abandoned")
     ELSE /\ at' = "lookupWait"
          /\ seen' = (seen \/ r \notin {"error", "missing"})
          /\ UNCHANGED <<k, outcome>>
  /\ told' = IF r # "missing" THEN told
             ELSE IF Absent(Mac) THEN told \ {"overlooked"} ELSE told \cup {"overlooked"}

\* Faulty variant: CannotAdopt is taken for a young document, always.
SettledNever(r) == FALSE

\* A document that says adopted settles what a CannotAdopt meant.
Settled(r) == r \in {"adopting", "offline", "connected"}

\* adoptWithRetry after a premature adopt.
Settle(r) ==
  /\ at = "settle"
  /\ IF Settled(r) THEN AfterAdopt
     ELSE IF CheckFails THEN Fail("abandoned") ELSE Goto("adoptWait")
  /\ UNCHANGED told

\* Faulty variant: adopted is enough.
UpAdopted(r) == r \in {"adopting", "connected"}

Up(r) == r = "connected"

\* WaitAdopted.  It knows nothing of Check.
Watch(r) ==
  /\ at = "watch"
  /\ IF Up(r) THEN NextDevice ELSE Goto("watchWait")
  /\ UNCHANGED told

ReadReply(r) ==
  /\ Lookup(r) \/ Settle(r) \/ Watch(r)
  /\ Replied
  /\ Steady /\ UNCHANGED <<docs, placeholder, landed>>

ReadCut ==
  /\ CtxDone
  /\ Lookup("error") \/ Settle("error") \/ Watch("error")
  /\ Steady /\ UNCHANGED <<docs, placeholder, fresh, landed>>

-----------------------------------------------------------------------------
(* adoptWithRetry. *)

Takes(d) ==
  /\ docs[d] = "pending"
  /\ docs' = [docs EXCEPT ![d] = "adopting"]
  /\ landed' = landed \cup {d}

AdoptReply ==
  /\ at = "adopt"
  /\ \/ /\ boot = "running" /\ ~Forbidden
        /\ Takes(Mac)
        /\ AfterAdopt
        /\ UNCHANGED told
     \/ \* the placeholder, or CannotAdopt
        /\ boot # "running" \/ (~Forbidden /\ docs[Mac] # "pending")
        /\ Goto("settle")
        /\ UNCHANGED <<docs, landed, told>>
     \/ \* any other reason
        /\ boot = "running"
        /\ Fail("adopt rejected")
        /\ told' = IF Forbidden THEN told ELSE told \cup {"refused"}
        /\ UNCHANGED <<docs, landed>>
  /\ Replied
  /\ Steady /\ UNCHANGED placeholder

AdoptCut ==
  /\ at = "adopt"
  /\ CtxDone
  /\ Fail("adopt cut")
  /\ Steady /\ UNCHANGED <<docs, placeholder, fresh, told, landed>>

\* The controller handles a request and its reply is lost: the same request
\* will be sent again.
ReplyLost ==
  /\ at \in Requests \ {"login"}
  /\ boot = "running" /\ ~Forbidden
  /\ \/ at = "adopt" /\ Takes(Mac) /\ UNCHANGED <<fresh, told>>
     \/ /\ dialect = "unifios"
        /\ fresh' = FALSE
        /\ told' = told \cup {"token lost"}
        /\ UNCHANGED <<docs, landed>>
  /\ Steady /\ UNCHANGED <<at, k, seen, outcome, placeholder>>

-----------------------------------------------------------------------------
(* The waits, and the contexts. *)

\* The timer wins the select.
Tick ==
  /\ at \in DOMAIN Repeats
  /\ Goto(Repeats[at])
  /\ told' = IF CheckFails /\ at # "loginWait" THEN told \cup {"check failed"} ELSE told
  /\ Steady /\ UNCHANGED <<docs, placeholder, fresh, landed>>

\* Faulty variant: the wait of adoptWithRetry is on its ticker alone.
GiveUpUnlessRetrying ==
  /\ at \in {"loginWait", "lookupWait", "watchWait"}
  /\ CtxDone
  /\ CASE at = "loginWait"  -> End("never ready")
       [] at = "lookupWait" -> Fail(IF seen THEN "not pending" ELSE "never listed")
       [] at = "watchWait"  -> Fail("stalled")
  /\ Steady /\ UNCHANGED <<docs, placeholder, fresh, told, landed>>

\* The context wins it.
GiveUp ==
  /\ at \in DOMAIN Repeats
  /\ CtxDone
  /\ CASE at = "loginWait"  -> End("never ready")
       [] at = "lookupWait" -> Fail(IF seen THEN "not pending" ELSE "never listed")
       [] at = "adoptWait"  -> Fail("never adopted")
       [] at = "watchWait"  -> Fail("stalled")
  /\ Steady /\ UNCHANGED <<docs, placeholder, fresh, told, landed>>

\* logAdoptDiagnosis: its reads have 15 s of their own.
Diagnosed ==
  /\ at = "diagnose"
  /\ Goto("done")
  /\ Steady /\ UNCHANGED <<docs, placeholder, fresh, told, landed>>

Expire ==
  /\ at \notin {"idle", "diagnose", "done"}
  /\ ~expired
  /\ expired' = TRUE
  /\ UNCHANGED <<boot, docs, clientVars, interrupted, alive, adoptHistory>>

ClientStep ==
  \/ BeginLogin \/ LoginReply \/ LoginCut
  \/ \E r \in Reads : ReadReply(r)
  \/ ReadCut \/ AdoptReply \/ AdoptCut \/ ReplyLost
  \/ Tick \/ GiveUp \/ Diagnosed \/ Expire

-----------------------------------------------------------------------------
(* Properties. *)

\* Success means that the controller had every device connected (fleet.go,
\* Fleet; client.go, Device: 7 is "a step on the happy path" and no end of it).
AllConnected == outcome = "connected" => Macs \subseteq connected

\* No adopt is sent while an earlier one is under way, lost replies and repeated
\* requests included (fleet.go, Fleet: "controllers reject bursts of adopts").
OneAtATime == landed \ {Mac} \subseteq connected

\* What the client says went wrong is what went wrong: a controller that never
\* became ready had answered with its placeholder, and an adopt is rejected only
\* by a controller that meant it, or whose new token was lost on the way.
DiagnosisTruthful ==
  /\ outcome = "never ready" => CtxDone /\ "placeholder" \in told
  /\ outcome = "login rejected" => "login rejected" \in told
  /\ outcome = "adopt rejected" => told \cap {"refused", "token lost"} # {}
  /\ outcome = "already adopted" => Mac \notin landed

\* When the budget is spent or the process told to stop, the client comes back,
\* whatever it was waiting for (fleet.go, Fleet: "The whole run is bounded by
\* ctx").
BudgetEnds == []<>(~CtxDone \/ at \in {"idle", "done"})

\* An adopt the controller took does not leave the client retrying, though the
\* reply was lost and every further adopt is refused (fleet.go, adoptWithRetry:
\* "the document settles that").
LandedAdoptSettles ==
  []<>(Mac \notin landed \/ at \notin {"adopt", "settle", "adoptWait"})

\* The report that a device never appeared is "the signature of an emulator that
\* produced no informs" (fleet.go, waitPending): the controller does not list it.
NeverListedMeansAbsent == outcome = "never listed" => "overlooked" \notin told

\* "Check runs on every poll.  A non-nil error aborts immediately" (fleet.go,
\* Options): once a poll of Fleet has begun after the devices died, no other
\* begins.
CheckEveryPoll ==
  [][(at \in DOMAIN Repeats /\ at' \in Requests) => "check failed" \notin told]_adoptVars
=============================================================================
