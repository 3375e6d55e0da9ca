------------------------------- MODULE Rotator -------------------------------
(***************************************************************************)
(* The proxy rotator (proxy/proxy.go) over the shared health trackers: Do  *)
(* with its sticky sessions, its shared uint32 cursor, its per-domain      *)
(* cooldowns and its failover, the background prober, UpdateClients,       *)
(* Reset, ResetDomainCooldowns and Close.                                  *)
(***************************************************************************)
EXTENDS HealthTracker, Sequences, SequencesExt

CONSTANTS
  Requests,      \* calls of Do
  Prober,        \* the healthCheckLoop goroutine
  Admin,         \* the caller of UpdateClients, Reset, ... and Close
  FirstClients,  \* proxies given to NewRotator
  SecondClients, \* proxies given to UpdateClients
  Sessions,      \* sticky keys; a request without one has key NoSession
  NoSession,     \* the empty key
  Solid,         \* proxies that relay every request
  CounterSize,   \* 2^w for the w-bit cursor r.current
  MaxInFlight,   \* bound on concurrent calls of Do
  MaxTime,       \* bound on the clock
  MaxBackground  \* bound on rounds of probes and administrative calls, together

ASSUME RotatorThreads ==
  /\ Threads = Requests \cup {Prober, Admin}
  /\ Prober # Admin /\ {Prober, Admin} \cap Requests = {}
ASSUME ClientsAssumption ==
  /\ {FirstClients, SecondClients} \subseteq Seq(Endpoints) \ {<<>>}
  /\ Range(FirstClients) \cap Range(SecondClients) = {}
ASSUME SessionsAssumption == NoSession \notin Sessions
ASSUME CounterAssumption == CounterSize \in Nat \ {0}
ASSUME RotatorBounds ==
  {MaxTime, MaxBackground, MaxInFlight} \subseteq Nat

VARIABLES
  clients,     \* r.clients
  current,     \* r.current
  sessions,    \* r.sessions: an index, 0 for none
  cooled,      \* proxies in cooldown for the target domain
  key,         \* sticky key of each request
  pc,
  snapshot,    \* the clients slice each goroutine captured
  sticky,      \* stickyIdx of each request, 0 for -1
  cand,        \* index being tried
  viaSticky,   \* requests still on their sticky attempt
  rounds,      \* iterations of the loop
  lastErr, hasCooledDown,
  forbidden,   \* requests whose last response was a 403
  result,
  pos,         \* loop index of prober and admin
  probes, admin, closing,
  overlapped   \* calls of Do that another one, UpdateClients or a skipping wrap of
               \* the cursor overlapped (a ghost)

rotVars == <<clients, current, sessions, cooled, key, pc, snapshot, sticky, cand,
             viaSticky, rounds, lastErr, hasCooledDown, forbidden, result, pos,
             probes, admin, closing, overlapped>>
vars == <<trackerVars, rotVars>>

pool == <<clients, current, sessions, cooled, key>>
locals == <<sticky, cand, viaSticky, rounds, lastErr, hasCooledDown, forbidden, result, overlapped>>
workers == <<pos, probes, admin, closing>>

NoSessions == [s \in Sessions |-> 0]

Init ==
  /\ TrackerInit
  /\ clients = FirstClients
  /\ current = 0
  /\ sessions = NoSessions
  /\ cooled = {}
  /\ key \in [Requests -> Sessions \cup {NoSession}]
  /\ pc = [t \in Threads |-> "idle"]
  /\ snapshot = [t \in Threads |-> <<>>]
  /\ sticky = [r \in Requests |-> 0]
  /\ cand = [r \in Requests |-> 0]
  /\ viaSticky = {}
  /\ rounds = [r \in Requests |-> 0]
  /\ lastErr = {}
  /\ hasCooledDown = {}
  /\ forbidden = {}
  /\ result = [r \in Requests |-> "none"]
  /\ pos = [t \in {Prober, Admin} |-> 1]
  /\ probes = 0
  /\ admin = 0
  /\ closing = FALSE
  /\ overlapped = {}

Goto(t, l) == pc' = [pc EXCEPT ![t] = l]
Candidate(r) == snapshot[r][cand[r]]
Count(r) == Len(snapshot[r])
IsPowerOfTwo(n) == \E w \in 0 .. n : n = 2 ^ w

-----------------------------------------------------------------------------
(* Faulty variants of single steps, which the properties must tell apart    *)
(* from the code.                                                           *)
ShortLoop(r) == Count(r) - 1

-----------------------------------------------------------------------------
InFlight == {r \in Requests : pc[r] \notin {"idle", "done"}}

(* Do captures r.clients under the read lock. *)
Capture(r) ==
  /\ pc[r] = "idle"
  /\ Cardinality(InFlight) < MaxInFlight
  /\ snapshot' = [snapshot EXCEPT ![r] = clients]
  /\ Goto(r, "session")
  /\ overlapped' = IF InFlight = {} THEN overlapped ELSE overlapped \cup InFlight \cup {r}
  /\ UNCHANGED <<trackerVars, pool, sticky, cand, viaSticky, rounds, lastErr,
                 hasCooledDown, forbidden, result, workers>>

(* A sticky index that does not fit the captured slice is ignored. *)
Fits(r) == sticky[r] \in 1 .. Count(r)

(* getStickyClientIndex reads r.sessions without the lock, twice: for Get   *)
(* and again for the Set that extends the TTL.                              *)
LookUpSession(r) ==
  /\ pc[r] = "session"
  /\ IF key[r] # NoSession /\ sessions[key[r]] # 0
       THEN /\ sticky' = [sticky EXCEPT ![r] = sessions[key[r]]]
            /\ Goto(r, "extend")
       ELSE /\ Goto(r, "loop")
            /\ UNCHANGED sticky
  /\ UNCHANGED <<trackerVars, pool, snapshot, cand, viaSticky, rounds, lastErr,
                 hasCooledDown, forbidden, result, overlapped, workers>>

ExtendSession(r) ==
  /\ pc[r] = "extend"
  /\ sessions' = [sessions EXCEPT ![key[r]] = sticky[r]]
  /\ IF Fits(r)
       THEN /\ cand' = [cand EXCEPT ![r] = sticky[r]]
            /\ viaSticky' = viaSticky \cup {r}
            /\ Goto(r, "load")
       ELSE /\ Goto(r, "loop")
            /\ UNCHANGED <<cand, viaSticky>>
  /\ UNCHANGED <<trackerVars, clients, current, cooled, key, snapshot, sticky,
                 rounds, lastErr, hasCooledDown, forbidden, result, overlapped, workers>>

(* sessionTTL passes. *)
SessionExpires(s) ==
  /\ sessions[s] # 0
  /\ sessions' = [sessions EXCEPT ![s] = 0]
  /\ UNCHANGED <<trackerVars, clients, current, cooled, key, pc, snapshot, locals, workers>>

(* The index drawn from the cursor: masked for a power of two, else modulo. *)
(* c is the value current.Add(1) returned; indices count from 1.            *)
IndexOf(n, c) ==
  IF IsPowerOfTwo(n) THEN (((c + CounterSize - 1) % CounterSize) % n) + 1 ELSE (c % n) + 1

(* for range n *)
Iterations(r) == Count(r)

(* The cursor goes from index i of n to the next one, as it does but for    *)
(* the wrap of a cursor that n does not divide.                             *)
Follows(n, i, next) == next = IF i = n THEN 1 ELSE i + 1

Draw(r) ==
  LET c == (current + 1) % CounterSize
      i == IndexOf(Count(r), c)
  IN
  /\ pc[r] = "loop"
  /\ rounds[r] < Iterations(r)
  /\ rounds' = [rounds EXCEPT ![r] = @ + 1]
  /\ current' = c
  /\ viaSticky' = viaSticky \ {r}
  /\ overlapped' = IF rounds[r] = 0 \/ Follows(Count(r), IndexOf(Count(r), current), i)
                     THEN overlapped ELSE overlapped \cup {r}
  /\ IF i = sticky[r]
       THEN UNCHANGED <<cand, pc>>
       ELSE /\ cand' = [cand EXCEPT ![r] = i]
            /\ Goto(r, "load")
  /\ UNCHANGED <<trackerVars, clients, sessions, cooled, key, snapshot, sticky,
                 lastErr, hasCooledDown, forbidden, result, workers>>

(* Do returns and its locals go out of scope. *)
Returns(r, res) ==
  /\ result' = [result EXCEPT ![r] = res]
  /\ Goto(r, "done")
  /\ sticky' = [sticky EXCEPT ![r] = 0]
  /\ cand' = [cand EXCEPT ![r] = 0]
  /\ rounds' = [rounds EXCEPT ![r] = 0]
  /\ forbidden' = forbidden \ {r}
  /\ viaSticky' = viaSticky \ {r}
  /\ lastErr' = lastErr \ {r}
  /\ hasCooledDown' = hasCooledDown \ {r}

(* The loop is exhausted: which error Do returns. *)
GiveUp(r) ==
  /\ pc[r] = "loop"
  /\ rounds[r] >= Iterations(r)
  /\ Returns(r, CASE r \in lastErr -> "all failed"
                  [] r \notin lastErr /\ r \in hasCooledDown -> "domain cooldown"
                  [] OTHER -> "ErrNoHealthyProxies")
  /\ UNCHANGED <<trackerVars, pool, snapshot, overlapped, workers>>

(* tracker.IsAvailable: two loads. *)
LoadUnhealthy(r) ==
  /\ pc[r] = "load"
  /\ Goto(r, IF unhealthy[Candidate(r)] THEN "cool" ELSE "domain")
  /\ UNCHANGED <<trackerVars, pool, snapshot, locals, workers>>

LoadRecoveredAt(r) ==
  /\ pc[r] = "cool"
  /\ Goto(r, IF CooledDown(Candidate(r)) THEN "domain" ELSE "loop")
  /\ UNCHANGED <<trackerVars, pool, snapshot, locals, workers>>

(* IsDomainCooledDown; the sticky attempt does not count in hasCooledDown. *)
CheckDomain(r) ==
  /\ pc[r] = "domain"
  /\ IF Candidate(r) \in cooled
       THEN /\ Goto(r, "loop")
            /\ hasCooledDown' = IF r \in viaSticky THEN hasCooledDown
                                ELSE hasCooledDown \cup {r}
       ELSE /\ Goto(r, "exchange")
            /\ UNCHANGED hasCooledDown
  /\ UNCHANGED <<trackerVars, pool, snapshot, sticky, cand, viaSticky, rounds,
                 lastErr, forbidden, result, overlapped, workers>>

Answers(r) ==
  IF Candidate(r) \in Solid THEN {"response", "cancelled"}
  ELSE {"response", "forbidden", "cancelled", "error", "fault"}

(* isProxyFault: an error other than Canceled, or 407, 429, 502, 503, 504. *)
IsProxyFault(out) == out \in {"error", "fault"}

(* executeWithProxy and the first half of handleProxyResult.  lastErr is    *)
(* overwritten by every fault, with nil when a response came.               *)
Exchange(r, out) ==
  /\ pc[r] = "exchange"
  /\ out \in Answers(r)
  /\ forbidden' = IF out = "forbidden" THEN forbidden \cup {r} ELSE forbidden \ {r}
  /\ IF IsProxyFault(out)
       THEN /\ Enter(r, MarkFailed, Candidate(r))
            /\ lastErr' = IF out = "error" THEN lastErr \cup {r} ELSE lastErr \ {r}
            /\ Goto(r, "failed")
       ELSE /\ Enter(r, MarkSuccess, Candidate(r))
            /\ Goto(r, "relayed")
            /\ UNCHANGED lastErr
  /\ UNCHANGED <<tracker, now, pool, snapshot, sticky, cand, viaSticky, rounds,
                 hasCooledDown, result, overlapped, workers>>

TryNext(r) ==
  /\ pc[r] = "failed"
  /\ step[r] = "none"
  /\ Goto(r, "loop")
  /\ UNCHANGED <<trackerVars, pool, snapshot, locals, workers>>

(* PutDomainInCooldown after a 403. *)
PutDomainInCooldown(r) ==
  /\ pc[r] = "relayed"
  /\ step[r] = "none"
  /\ cooled' = IF r \in forbidden THEN cooled \cup {Candidate(r)} ELSE cooled
  /\ Goto(r, "save")
  /\ UNCHANGED <<trackerVars, clients, current, sessions, key, snapshot, locals, workers>>

(* saveSession, into whatever r.sessions is by now, and return. *)
SaveSession(r) ==
  /\ pc[r] = "save"
  /\ sessions' = IF key[r] = NoSession \/ r \in viaSticky THEN sessions
                 ELSE [sessions EXCEPT ![key[r]] = cand[r]]
  /\ Returns(r, "relayed")
  /\ UNCHANGED <<trackerVars, clients, current, cooled, key, snapshot, overlapped, workers>>

-----------------------------------------------------------------------------
(* healthCheckLoop: one round over the captured clients.                    *)
ProbeRound ==
  /\ pc[Prober] = "idle"
  /\ probes + admin < MaxBackground
  /\ probes' = probes + 1
  /\ snapshot' = [snapshot EXCEPT ![Prober] = clients]
  /\ pos' = [pos EXCEPT ![Prober] = 1]
  /\ Goto(Prober, "probe")
  /\ UNCHANGED <<trackerVars, pool, locals, admin, closing>>

(* Only proxies that are available are probed; a probe never marks failure. *)
ProbeNext(good) ==
  LET e == snapshot[Prober][pos[Prober]] IN
  /\ pc[Prober] = "probe"
  /\ step[Prober] = "none"
  /\ IF pos[Prober] <= Len(snapshot[Prober])
       THEN /\ pos' = [pos EXCEPT ![Prober] = @ + 1]
            /\ IF IsAvailable(e) /\ good
                 THEN Enter(Prober, MarkSuccess, e)
                 ELSE UNCHANGED calls
            /\ UNCHANGED pc
       ELSE /\ Goto(Prober, "idle")
            /\ pos' = [pos EXCEPT ![Prober] = 1]
            /\ UNCHANGED calls
  /\ UNCHANGED <<tracker, now, pool, snapshot, locals, probes, admin, closing>>

(* case <-r.ctx.Done() *)
CtxDone == closing

ProberExits ==
  /\ pc[Prober] = "idle"
  /\ CtxDone
  /\ Goto(Prober, "done")
  /\ UNCHANGED <<trackerVars, pool, snapshot, locals, workers>>

-----------------------------------------------------------------------------
MayAdminister == pc[Admin] = "idle" /\ probes + admin < MaxBackground /\ ~closing

UpdateClients ==
  /\ MayAdminister
  /\ admin' = admin + 1
  /\ clients' = SecondClients
  /\ current' = 0
  /\ sessions' = NoSessions
  /\ overlapped' = overlapped \cup InFlight
  /\ UNCHANGED <<trackerVars, cooled, key, pc, snapshot, sticky, cand, viaSticky, rounds,
                 lastErr, hasCooledDown, forbidden, result, pos, probes, closing>>

ResetDomainCooldowns ==
  /\ MayAdminister
  /\ admin' = admin + 1
  /\ cooled' = cooled \ Range(clients)
  /\ UNCHANGED <<trackerVars, clients, current, sessions, key, pc, snapshot, locals,
                 pos, probes, closing>>

BeginReset ==
  /\ MayAdminister
  /\ admin' = admin + 1
  /\ snapshot' = [snapshot EXCEPT ![Admin] = clients]
  /\ pos' = [pos EXCEPT ![Admin] = 1]
  /\ Goto(Admin, "reset")
  /\ UNCHANGED <<trackerVars, pool, locals, probes, closing>>

ResetNext ==
  /\ pc[Admin] = "reset"
  /\ step[Admin] = "none"
  /\ IF pos[Admin] <= Len(snapshot[Admin])
       THEN /\ Enter(Admin, Reset, snapshot[Admin][pos[Admin]])
            /\ pos' = [pos EXCEPT ![Admin] = @ + 1]
            /\ UNCHANGED pc
       ELSE /\ Goto(Admin, "idle")
            /\ pos' = [pos EXCEPT ![Admin] = 1]
            /\ UNCHANGED calls
  /\ UNCHANGED <<tracker, now, pool, snapshot, locals, probes, admin, closing>>

(* Close: cancel, then wait for the background loops. *)
BeginClose ==
  /\ pc[Admin] = "idle"
  /\ ~closing
  /\ closing' = TRUE
  /\ Goto(Admin, "closing")
  /\ UNCHANGED <<trackerVars, pool, snapshot, locals, pos, probes, admin>>

EndClose ==
  /\ pc[Admin] = "closing"
  /\ pc[Prober] = "done"
  /\ Goto(Admin, "done")
  /\ UNCHANGED <<trackerVars, pool, snapshot, locals, workers>>

(* The ten minutes of a domain cooldown pass. *)
DomainCooldownExpires(e) ==
  /\ e \in cooled
  /\ cooled' = cooled \ {e}
  /\ UNCHANGED <<trackerVars, clients, current, sessions, key, pc, snapshot, locals, workers>>

-----------------------------------------------------------------------------
RequestStep(r) ==
  \/ Capture(r) \/ LookUpSession(r) \/ ExtendSession(r) \/ Draw(r) \/ GiveUp(r)
  \/ LoadUnhealthy(r) \/ LoadRecoveredAt(r) \/ CheckDomain(r)
  \/ \E out \in {"response", "forbidden", "cancelled", "error", "fault"} : Exchange(r, out)
  \/ TryNext(r) \/ PutDomainInCooldown(r) \/ SaveSession(r)
  \/ TrackerStep(r) /\ UNCHANGED rotVars

ProberStep ==
  \/ \E good \in BOOLEAN : ProbeNext(good)
  \/ ProberExits
  \/ TrackerStep(Prober) /\ UNCHANGED rotVars

AdminStep ==
  \/ ResetNext \/ EndClose
  \/ TrackerStep(Admin) /\ UNCHANGED rotVars

Next ==
  \/ \E r \in Requests : RequestStep(r)
  \/ ProbeRound \/ ProberStep
  \/ UpdateClients \/ ResetDomainCooldowns \/ BeginReset \/ BeginClose \/ AdminStep
  \/ \E e \in Endpoints : DomainCooldownExpires(e)
  \/ \E s \in Sessions : SessionExpires(s)
  \/ Tick(MaxTime) /\ UNCHANGED rotVars

Spec == Init /\ [][Next]_vars

-----------------------------------------------------------------------------
(* "ErrNoHealthyProxies is returned when all registered proxy exit nodes    *)
(* are unhealthy or in cooldown": a call that neither another one nor       *)
(* UpdateClients nor a skipping wrap of the cursor overlaps does not give   *)
(* up over a pool with a proxy that relays every request, whatever cursor   *)
(* and sessions earlier calls left.                                         *)
ProxyServes ==
  \A r \in Requests \ overlapped :
    result[r] \in {"all failed", "domain cooldown", "ErrNoHealthyProxies"}
      => Range(snapshot[r]) \cap Solid = {}
=============================================================================
