------------------------------ MODULE Balancer ------------------------------
(***************************************************************************)
(* The load balancer (resiliency/loadbalancer/loadbalancer.go) over the    *)
(* shared health trackers: Do with its three strategies and its failover,  *)
(* SelectHealthy, the background prober, pool replacement, SetWeight,      *)
(* Reset and Close, all running concurrently.                              *)
(***************************************************************************)
EXTENDS HealthTracker, Sequences, SequencesExt

CONSTANTS
  Requests,       \* calls of Do and SelectHealthy
  Prober,         \* the healthCheckLoop goroutine
  Admin,          \* the caller of Reset, SetBackendPool, SetWeight and Close
  FirstPool,      \* backends given to New
  SecondPool,     \* backends given to SetBackendPool
  Strategies,     \* strategies to explore
  Kinds,          \* entry points the requests use
  Weights,        \* weights SetWeight may give
  Solid,          \* backends that answer every whole request
  BadURLs,        \* backends with a parse error
  WithBody,       \* requests that carry a body
  MaxTime,        \* bound on the clock
  MaxBackground   \* bound on rounds of probes and administrative calls, together

ASSUME ThreadsAssumption ==
  /\ Threads = Requests \cup {Prober, Admin}
  /\ Prober # Admin /\ {Prober, Admin} \cap Requests = {}
ASSUME PoolsAssumption ==
  /\ {FirstPool, SecondPool} \subseteq Seq(Endpoints) \ {<<>>}
  /\ Solid \cap BadURLs = {}
ASSUME KindsAssumption == Kinds \subseteq {"Do", "SelectHealthy"}
ASSUME BalancerBounds == MaxTime \in Nat /\ MaxBackground \in Nat

VARIABLES
  strategy,   \* config.Strategy
  weight,     \* Backend.Weight
  pool,       \* b.backends
  current,    \* b.current
  kind,       \* whether a request is a Do or a SelectHealthy
  pc,         \* control point of requests, prober and admin
  snapshot,   \* the backends slice each goroutine captured
  order,      \* indices to try
  pos,        \* position in order or in snapshot
  lastErr,    \* requests that saw a transport error
  spent,      \* requests whose body has been read
  outcome,    \* how the last exchange of each request ended
  result,     \* what the request returned
  probes, admin,  \* rounds of the prober, calls of the Admin
  closing     \* b.ctx is cancelled

balVars == <<strategy, weight, pool, current, kind, pc, snapshot, order, pos,
             lastErr, spent, outcome, result, probes, admin, closing>>
vars == <<trackerVars, balVars>>

reqLocals == <<lastErr, spent, outcome, result>>
settings == <<strategy, weight, kind>>
counters == <<probes, admin, closing>>

Init ==
  /\ TrackerInit
  /\ strategy \in Strategies
  /\ weight = [e \in Endpoints |-> 1]
  /\ pool = FirstPool
  /\ current = 0
  /\ kind \in [Requests -> Kinds]
  /\ pc = [t \in Threads |-> "idle"]
  /\ snapshot = [t \in Threads |-> <<>>]
  /\ order = [r \in Requests |-> <<>>]
  /\ pos = [t \in Threads |-> 1]
  /\ lastErr = {}
  /\ spent = {}
  /\ outcome = [r \in Requests |-> "none"]
  /\ result = [r \in Requests |-> "none"]
  /\ probes = 0
  /\ admin = 0
  /\ closing = FALSE

Goto(t, l) == pc' = [pc EXCEPT ![t] = l]
Backend(t) == snapshot[t][pos[t]]
Candidate(r) == snapshot[r][order[r][pos[r]]]

-----------------------------------------------------------------------------
(* Faulty variants of single steps, which the properties must tell apart    *)
(* from the code.                                                           *)
SameTicket == current
CancelIsFault(out) == out # "response"

(* The Admin is free to make another call. *)
MayAdminister == pc[Admin] = "idle" /\ probes + admin < MaxBackground /\ ~closing

-----------------------------------------------------------------------------
(* The orders of attempts.                                                  *)
Perms(n) == {p \in [1 .. n -> 1 .. n] : Range(p) = 1 .. n}

(* start+i modulo n, from the ticket current.Add(1). *)
RoundRobinOrder(n, ticket) == [i \in 1 .. n |-> ((ticket + i - 1) % n) + 1]

(* SortStableFunc by descending weight: the one order that is sorted.       *)
ByWeight(backends) ==
  {p \in Perms(Len(backends)) :
     \A i, j \in 1 .. Len(backends) :
       i < j => LET wi == weight[backends[p[i]]]
                    wj == weight[backends[p[j]]]
                IN  wi > wj \/ (wi = wj /\ p[i] < p[j])}

(* Do and SelectHealthy capture b.backends under the read lock. *)
Capture(r) ==
  /\ pc[r] = "idle"
  /\ snapshot' = [snapshot EXCEPT ![r] = pool]
  /\ Goto(r, "order")
  /\ UNCHANGED <<trackerVars, settings, pool, current, order, pos, reqLocals, counters>>

(* n := len(backends), of the captured slice. *)
BackendCount(r) == Len(snapshot[r])

(* The sort reads Weight without the lock: with a SetWeight running at the  *)
(* same time it may end in any order.                                       *)
RacedSorts(r) == IF MayAdminister THEN Perms(BackendCount(r)) ELSE {}

(* b.current.Add(1) *)
Ticket == current + 1

(* buildBackendIndices, or the inlined RoundRobin path of Do. *)
BuildOrder(r) ==
  /\ pc[r] = "order"
  /\ \/ /\ strategy = "RoundRobin"
        /\ current' = Ticket
        /\ order' = [order EXCEPT ![r] = RoundRobinOrder(BackendCount(r), Ticket)]
     \/ /\ strategy = "Random"
        /\ \E p \in Perms(BackendCount(r)) : order' = [order EXCEPT ![r] = p]
        /\ UNCHANGED current
     \/ /\ strategy = "WeightedRoundRobin"
        /\ \E p \in ByWeight(snapshot[r]) \cup RacedSorts(r) : order' = [order EXCEPT ![r] = p]
        /\ UNCHANGED current
  /\ Goto(r, "try")
  /\ UNCHANGED <<trackerVars, settings, pool, snapshot, pos, reqLocals, counters>>

-----------------------------------------------------------------------------
(* tryBackend                                                               *)

(* Where a request goes with an available candidate. *)
Chosen(r) == IF kind[r] = "Do" THEN "exchange" ELSE "selected"

(* IsAvailable, first load: a healthy endpoint needs no look at the clock. *)
LoadUnhealthy(r) ==
  /\ pc[r] = "try"
  /\ Goto(r, IF unhealthy[Candidate(r)] THEN "cool" ELSE Chosen(r))
  /\ UNCHANGED <<trackerVars, settings, pool, current, snapshot, order, pos, reqLocals, counters>>

(* IsAvailable, second load: the clock against recoveredAt. *)
LoadRecoveredAt(r) ==
  /\ pc[r] = "cool"
  /\ Goto(r, IF CooledDown(Candidate(r)) THEN Chosen(r) ELSE "next")
  /\ UNCHANGED <<trackerVars, settings, pool, current, snapshot, order, pos, reqLocals, counters>>

(* A backend whose URL does not parse is a failure without an exchange. *)
RejectURL(r) ==
  /\ pc[r] = "exchange"
  /\ Candidate(r) \in BadURLs
  /\ Enter(r, MarkFailed, Candidate(r))
  /\ lastErr' = lastErr \cup {r}
  /\ Goto(r, "next")
  /\ UNCHANGED <<tracker, now, settings, pool, current, snapshot, order, pos,
                 spent, outcome, result, counters>>

(* The answers a backend may give: a solid one errs only on a request whose *)
(* body an earlier attempt has read, since Clone shares the body.           *)
Answers(r) ==
  IF Candidate(r) \in Solid
    THEN {"response", "cancelled"} \cup (IF r \in spent THEN {"error"} ELSE {})
    ELSE {"response", "cancelled", "error", "5xx"}

(* isFault: an error other than Canceled, or 502, 503, 504. *)
IsFault(out) == out \in {"error", "5xx"}

Exchange(r, out) ==
  /\ pc[r] = "exchange"
  /\ Candidate(r) \notin BadURLs
  /\ out \in Answers(r)
  /\ outcome' = [outcome EXCEPT ![r] = out]
  /\ \E read \in BOOLEAN :
       /\ out \in {"response", "5xx"} => read
       /\ spent' = IF read /\ r \in WithBody THEN spent \cup {r} ELSE spent
  /\ lastErr' = IF out = "error" THEN lastErr \cup {r} ELSE lastErr
  /\ Enter(r, IF IsFault(out) THEN MarkFailed ELSE MarkSuccess, Candidate(r))
  /\ Goto(r, IF IsFault(out) THEN "next" ELSE "selected")
  /\ UNCHANGED <<tracker, now, settings, pool, current, snapshot, order, pos,
                 result, counters>>

Advance(r) ==
  /\ pc[r] = "next"
  /\ step[r] = "none"
  /\ IF pos[r] < Len(order[r])
       THEN /\ pos' = [pos EXCEPT ![r] = @ + 1]
            /\ Goto(r, "try")
            /\ UNCHANGED result
       ELSE /\ Goto(r, "done")
            /\ result' = [result EXCEPT ![r] =
                            IF r \in lastErr THEN "all failed" ELSE "ErrNoHealthyBackends"]
            /\ UNCHANGED pos
  /\ UNCHANGED <<trackerVars, settings, pool, current, snapshot, order, lastErr,
                 spent, outcome, counters>>

Return(r) ==
  /\ pc[r] = "selected"
  /\ step[r] = "none"
  /\ result' = [result EXCEPT ![r] = "backend"]
  /\ Goto(r, "done")
  /\ UNCHANGED <<trackerVars, settings, pool, current, snapshot, order, pos,
                 lastErr, spent, outcome, counters>>

-----------------------------------------------------------------------------
(* healthCheckLoop and probeUnhealthyBackends                               *)

(* select: ctx.Done and the ticker may both be ready, and either is taken. *)
ProbeRound ==
  /\ pc[Prober] = "idle"
  /\ probes + admin < MaxBackground
  /\ probes' = probes + 1
  /\ snapshot' = [snapshot EXCEPT ![Prober] = pool]
  /\ pos' = [pos EXCEPT ![Prober] = 1]
  /\ Goto(Prober, "probe")
  /\ UNCHANGED <<trackerVars, settings, pool, current, order, reqLocals, admin, closing>>

(* The loop over the captured backends. *)
ProbeMore == pos[Prober] <= Len(snapshot[Prober])

(* One backend: probed when unavailable, marked when it answers 2xx. *)
Probe(good) ==
  /\ pc[Prober] = "probe"
  /\ step[Prober] = "none"
  /\ ProbeMore
  /\ pos' = [pos EXCEPT ![Prober] = @ + 1]
  /\ IF ~IsAvailable(Backend(Prober)) /\ good
       THEN Enter(Prober, MarkSuccess, Backend(Prober))
       ELSE UNCHANGED calls
  /\ UNCHANGED <<tracker, now, settings, pool, current, pc, snapshot, order, reqLocals, counters>>

ProbeEnd ==
  /\ pc[Prober] = "probe"
  /\ step[Prober] = "none"
  /\ ~ProbeMore
  /\ Goto(Prober, "idle")
  /\ UNCHANGED <<trackerVars, settings, pool, current, snapshot, order, pos, reqLocals, counters>>

(* case <-b.ctx.Done() *)
CtxDone == closing

(* The loop returns. *)
ProberExits ==
  /\ pc[Prober] = "idle"
  /\ CtxDone
  /\ Goto(Prober, "done")
  /\ UNCHANGED <<trackerVars, settings, pool, current, snapshot, order, pos, reqLocals, counters>>

-----------------------------------------------------------------------------
(* Administration                                                           *)

SetBackendPool ==
  /\ MayAdminister
  /\ admin' = admin + 1
  /\ pool' = SecondPool
  /\ current' = 0
  /\ UNCHANGED <<trackerVars, settings, pc, snapshot, order, pos, reqLocals, probes, closing>>

SetWeight(e, w) ==
  /\ MayAdminister
  /\ e \in Range(pool)
  /\ admin' = admin + 1
  /\ weight' = [weight EXCEPT ![e] = w]
  /\ UNCHANGED <<trackerVars, strategy, kind, pool, current, pc, snapshot, order,
                 pos, reqLocals, probes, closing>>

(* Reset walks the pool under the read lock. *)
BeginReset ==
  /\ MayAdminister
  /\ admin' = admin + 1
  /\ snapshot' = [snapshot EXCEPT ![Admin] = pool]
  /\ pos' = [pos EXCEPT ![Admin] = 1]
  /\ Goto(Admin, "reset")
  /\ UNCHANGED <<trackerVars, settings, pool, current, order, reqLocals, probes, closing>>

ResetNext ==
  /\ pc[Admin] = "reset"
  /\ step[Admin] = "none"
  /\ IF pos[Admin] <= Len(snapshot[Admin])
       THEN /\ Enter(Admin, Reset, Backend(Admin))
            /\ pos' = [pos EXCEPT ![Admin] = @ + 1]
            /\ UNCHANGED pc
       ELSE /\ Goto(Admin, "idle")
            /\ UNCHANGED <<calls, pos>>
  /\ UNCHANGED <<tracker, now, settings, pool, current, snapshot, order, reqLocals, counters>>

(* Close: cancel, then wg.Wait for the prober. *)
BeginClose ==
  /\ pc[Admin] = "idle"
  /\ ~closing
  /\ closing' = TRUE
  /\ Goto(Admin, "closing")
  /\ UNCHANGED <<trackerVars, settings, pool, current, snapshot, order, pos,
                 reqLocals, probes, admin>>

EndClose ==
  /\ pc[Admin] = "closing"
  /\ pc[Prober] = "done"
  /\ Goto(Admin, "done")
  /\ UNCHANGED <<trackerVars, settings, pool, current, snapshot, order, pos, reqLocals, counters>>

-----------------------------------------------------------------------------
RequestStep(r) ==
  \/ Capture(r) \/ BuildOrder(r) \/ LoadUnhealthy(r) \/ LoadRecoveredAt(r)
  \/ RejectURL(r)
  \/ \E out \in {"response", "cancelled", "error", "5xx"} : Exchange(r, out)
  \/ Advance(r) \/ Return(r)
  \/ TrackerStep(r) /\ UNCHANGED balVars

ProberStep ==
  \/ \E good \in BOOLEAN : Probe(good)
  \/ ProbeEnd
  \/ ProberExits
  \/ TrackerStep(Prober) /\ UNCHANGED balVars

AdminStep ==
  \/ ResetNext
  \/ EndClose
  \/ TrackerStep(Admin) /\ UNCHANGED balVars

Next ==
  \/ \E r \in Requests : RequestStep(r)
  \/ ProbeRound \/ ProberStep
  \/ SetBackendPool \/ BeginReset \/ BeginClose \/ AdminStep
  \/ \E e \in Endpoints, w \in Weights : SetWeight(e, w)
  \/ Tick(MaxTime) /\ UNCHANGED balVars

(* Exchanges and probes end (the clients carry timeouts) and goroutines     *)
(* run; new rounds, calls and ticks are not forced.                         *)
Spec == Init /\ [][Next]_vars

-----------------------------------------------------------------------------
Failed(r) == result[r] \in {"all failed", "ErrNoHealthyBackends"}
Tried(r) == {order[r][j] : j \in 1 .. pos[r]}

(* RoundRobin: as many concurrent requests as there are backends begin at   *)
(* different ones, as long as the pool is not replaced.                     *)
RoundRobinSpreads ==
  /\ strategy = "RoundRobin"
  /\ pool = FirstPool
  /\ Cardinality(Requests) <= Len(FirstPool)
  => \A r, s \in Requests :
       /\ r # s /\ order[r] # <<>> /\ order[s] # <<>>
       => order[r][1] # order[s][1]

(* "Automatically retries remaining backends if a backend experiences       *)
(* connection faults": a Do whose pool holds a backend that answers every   *)
(* request does not fail, and it gives up only after every backend of the   *)
(* slice it captured had its turn, however the pool was replaced meanwhile. *)
FailoverServes ==
  \A r \in Requests :
    /\ Range(order[r]) \subseteq DOMAIN snapshot[r]
    /\ Failed(r) => Range(snapshot[r]) \cap Solid = {} /\ Tried(r) = DOMAIN snapshot[r]
=============================================================================
