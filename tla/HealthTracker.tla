---------------------------- MODULE HealthTracker ----------------------------
(***************************************************************************)
(* Endpoint health tracking (internal/health/health.go).  A Tracker is     *)
(* three independent atomics; its methods are sequences of atomic          *)
(* operations, so the calls of several goroutines interleave between any   *)
(* two of them.  Balancer and Rotator extend this module: their requests   *)
(* and probers are the Threads.                                            *)
(***************************************************************************)
EXTENDS Naturals, FiniteSets

CONSTANTS
  Endpoints,   \* one Tracker each
  Threads,     \* goroutines that call the trackers' methods
  MaxFails,    \* h.maxFails
  RetryAfter   \* h.retryAfter, in ticks of the coarse clock

ASSUME EndpointsAssumption == Endpoints # {}
ASSUME MaxFailsAssumption == MaxFails \in Nat \ {0}
ASSUME RetryAfterAssumption == RetryAfter \in Nat \ {0}

VARIABLES
  failCount, recoveredAt, unhealthy,  \* the atomics of each Tracker
  now,                                \* clock.CoarseNowNano()
  step,                               \* next atomic operation of each thread
  target,                             \* the tracker it works on
  seen,                               \* what MarkFailed has read from the clock
  contended,  \* trackers a success or reset of which overlapped another call (a ghost)
  since       \* when the calls now overlapping on each tracker began, or the last did (a ghost)

tracker == <<failCount, recoveredAt, unhealthy>>
calls == <<step, target, seen, contended, since>>
trackerVars == <<failCount, recoveredAt, unhealthy, now, step, target, seen, contended, since>>

Steps == {"none", "fail.add", "fail.clock", "fail.store", "fail.cas", "ok.store", "ok.cas",
          "reset.count", "reset.time", "reset.cas"}

FailSteps == {"fail.add", "fail.clock", "fail.store", "fail.cas"}

(* The first atomic operation of each method. *)
MarkFailed == "fail.add"
MarkSuccess == "ok.store"
Reset == "reset.count"

(* The tracker of a thread that is in no method: any. *)
Idle == CHOOSE e \in Endpoints : TRUE

TrackerInit ==
  /\ failCount = [e \in Endpoints |-> 0]
  /\ recoveredAt = [e \in Endpoints |-> 0]
  /\ unhealthy = [e \in Endpoints |-> FALSE]
  /\ now = 0
  /\ step = [t \in Threads |-> "none"]
  /\ target = [t \in Threads |-> Idle]
  /\ seen = [t \in Threads |-> 0]
  /\ contended = {}
  /\ since = [e \in Endpoints |-> 0]

(* Thread t is inside a method of the tracker of e. *)
In(t, e) == step[t] # "none" /\ target[t] = e

Quiet(e) == \A t \in Threads : ~In(t, e)

(* Thread t enters method m of the tracker of e. *)
Enter(t, m, e) ==
  /\ step' = [step EXCEPT ![t] = m]
  /\ target' = [target EXCEPT ![t] = e]
  /\ contended' = IF \E u \in Threads : In(u, e) /\ (m # MarkFailed \/ step[u] \notin FailSteps)
                    THEN contended \cup {e} ELSE contended
  /\ since' = IF Quiet(e) THEN [since EXCEPT ![e] = now] ELSE since
  /\ UNCHANGED seen

(* The next atomic operation; a method that has returned works on none.     *)
Goes(t, l) ==
  /\ step' = [step EXCEPT ![t] = l]
  /\ target' = IF l = "none" THEN [target EXCEPT ![t] = Idle] ELSE target
  /\ UNCHANGED <<contended, since>>

-----------------------------------------------------------------------------
(* Faulty variants of single steps, which the properties must tell apart    *)
(* from the code.                                                           *)
ReachedLate(fails) == fails > MaxFails
FirstCooldown(e, clock) == IF unhealthy[e] THEN recoveredAt[e] ELSE clock + RetryAfter

-----------------------------------------------------------------------------
(* MarkFailed: failCount.Add(1), then, at the threshold, a look at the      *)
(* clock, recoveredAt.Store and unhealthy.CompareAndSwap(false, true).      *)
Reached(fails) == fails >= MaxFails

FailAdd(t) ==
  /\ step[t] = "fail.add"
  /\ failCount' = [failCount EXCEPT ![target[t]] = @ + 1]
  /\ Goes(t, IF Reached(failCount[target[t]] + 1) THEN "fail.clock" ELSE "none")
  /\ UNCHANGED <<recoveredAt, unhealthy, now, seen>>

(* clock.CoarseNowNano() *)
FailClock(t) ==
  /\ step[t] = "fail.clock"
  /\ seen' = [seen EXCEPT ![t] = now]
  /\ Goes(t, "fail.store")
  /\ UNCHANGED <<tracker, now>>

(* The end of a cooldown of endpoint e that begins at the given time. *)
CooldownEnd(e, clock) == clock + RetryAfter

FailStore(t) ==
  /\ step[t] = "fail.store"
  /\ recoveredAt' = [recoveredAt EXCEPT ![target[t]] = CooldownEnd(target[t], seen[t])]
  /\ seen' = [seen EXCEPT ![t] = 0]
  /\ Goes(t, "fail.cas")
  /\ UNCHANGED <<failCount, unhealthy, now>>

FailCAS(t) ==
  /\ step[t] = "fail.cas"
  /\ unhealthy' = [unhealthy EXCEPT ![target[t]] = TRUE]
  /\ Goes(t, "none")
  /\ UNCHANGED <<failCount, recoveredAt, now, seen>>

(* failCount.Store(0), of MarkSuccess and Reset. *)
Zeroed(e) == [failCount EXCEPT ![e] = 0]

(* unhealthy.CompareAndSwap(true, false), of MarkSuccess and Reset. *)
Recovered(e) == [unhealthy EXCEPT ![e] = FALSE]

(* MarkSuccess: failCount.Store(0), then the compare-and-swap. *)
SuccessStore(t) ==
  /\ step[t] = "ok.store"
  /\ failCount' = Zeroed(target[t])
  /\ Goes(t, "ok.cas")
  /\ UNCHANGED <<recoveredAt, unhealthy, now, seen>>

SuccessCAS(t) ==
  /\ step[t] = "ok.cas"
  /\ unhealthy' = Recovered(target[t])
  /\ Goes(t, "none")
  /\ UNCHANGED <<failCount, recoveredAt, now, seen>>

(* Reset: both stores, then the compare-and-swap. *)
ResetCount(t) ==
  /\ step[t] = "reset.count"
  /\ failCount' = Zeroed(target[t])
  /\ Goes(t, "reset.time")
  /\ UNCHANGED <<recoveredAt, unhealthy, now, seen>>

ResetTime(t) ==
  /\ step[t] = "reset.time"
  /\ recoveredAt' = [recoveredAt EXCEPT ![target[t]] = 0]
  /\ Goes(t, "reset.cas")
  /\ UNCHANGED <<failCount, unhealthy, now, seen>>

ResetCAS(t) ==
  /\ step[t] = "reset.cas"
  /\ unhealthy' = Recovered(target[t])
  /\ Goes(t, "none")
  /\ UNCHANGED <<failCount, recoveredAt, now, seen>>

TrackerStep(t) ==
  \/ FailAdd(t) \/ FailClock(t) \/ FailStore(t) \/ FailCAS(t)
  \/ SuccessStore(t) \/ SuccessCAS(t)
  \/ ResetCount(t) \/ ResetTime(t) \/ ResetCAS(t)

(* The coarse clock advances. *)
Tick(limit) ==
  /\ now < limit
  /\ now' = now + 1
  /\ UNCHANGED <<tracker, calls>>

-----------------------------------------------------------------------------
CooledDown(e) == now >= recoveredAt[e]
IsAvailable(e) == ~unhealthy[e] \/ CooledDown(e)

(* Any callers: a goroutine that is in no method may call any method of any *)
(* tracker.                                                                 *)
TrackerNext ==
  \/ \E t \in Threads, m \in {MarkFailed, MarkSuccess, Reset}, e \in Endpoints :
       step[t] = "none" /\ Enter(t, m, e) /\ UNCHANGED <<tracker, now>>
  \/ \E t \in Threads : TrackerStep(t)
  \/ Tick(now + 1)

TrackerSpec == TrackerInit /\ [][TrackerNext]_trackerVars

TrackerTypeOK ==
  /\ failCount \in [Endpoints -> Nat]
  /\ recoveredAt \in [Endpoints -> Nat]
  /\ unhealthy \in [Endpoints -> BOOLEAN]
  /\ now \in Nat
  /\ step \in [Threads -> Steps]
  /\ target \in [Threads -> Endpoints]
  /\ seen \in [Threads -> Nat]
  /\ contended \subseteq Endpoints
  /\ since \in [Endpoints -> Nat]

(* However the clock readings and stores of failures interleave, an endpoint *)
(* that is unhealthy between calls cools down from a failure of the last     *)
(* burst of overlapping calls: a late store of an older reading shortens the *)
(* cooldown by no more than that burst lasted, and no cooldown is longer     *)
(* than one of a failure that is noted now.                                  *)
CooldownKept ==
  \A e \in Endpoints \ contended :
    Quiet(e) /\ unhealthy[e] =>
      since[e] + RetryAfter <= recoveredAt[e] /\ recoveredAt[e] <= now + RetryAfter

(* The atomics of a tracker agree between calls: it is unhealthy exactly    *)
(* when the consecutive failures reached maxFails.  Failures may overlap in *)
(* any way; only a success or a reset that overlaps another call can leave  *)
(* the flag and the count apart.                                            *)
TrackerExact ==
  \A e \in Endpoints \ contended :
    Quiet(e) => (unhealthy[e] <=> failCount[e] >= MaxFails)
=============================================================================
