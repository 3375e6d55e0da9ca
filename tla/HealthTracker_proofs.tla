------------------------- MODULE HealthTracker_proofs -------------------------
(***************************************************************************)
(* Proofs about the health trackers under any callers: any number of       *)
(* goroutines calling any methods in any interleaving of their atomic      *)
(* operations, for every threshold and cooldown; and about the load        *)
(* balancer, which is one such set of callers.                             *)
(***************************************************************************)
EXTENDS Balancer, SequenceTheorems, FiniteSetTheorems, TLAPS

(* Steps of MarkSuccess and Reset after which the count is zero and the     *)
(* flag is still to be cleared.                                             *)
Clearing == {"ok.cas", "reset.time", "reset.cas"}

(* Steps of MarkFailed behind the threshold. *)
Flagging == {"fail.clock", "fail.store", "fail.cas"}

(* What ties the flag of e to its count while calls are under way: a call   *)
(* that clears is alone; a failure that passed the threshold means the      *)
(* count still is there; and flag and count differ only while some call is  *)
(* about to bring them together.                                            *)
Tied(e) ==
  /\ \A t, u \in Threads : In(t, e) /\ In(u, e) /\ step[t] \notin FailSteps => t = u
  /\ \A t \in Threads : In(t, e) /\ step[t] \in Flagging => failCount[e] >= MaxFails
  /\ \A t \in Threads : In(t, e) /\ step[t] \in Clearing => failCount[e] = 0
  /\ unhealthy[e] =>
       failCount[e] >= MaxFails \/ \E t \in Threads : In(t, e) /\ step[t] \in Clearing
  /\ failCount[e] >= MaxFails =>
       unhealthy[e] \/ \E t \in Threads : In(t, e) /\ step[t] \in Flagging

AllTied == \A e \in Endpoints \ contended : Tied(e)

IInv == TrackerTypeOK /\ AllTied

(* A thread in no method is given a tracker. *)
LEMMA IdleType == Idle \in Endpoints
  BY EndpointsAssumption DEF Idle

(* The initial trackers satisfy the inductive invariant. *)
LEMMA InitIInv == TrackerInit => IInv
  <1> SUFFICES ASSUME TrackerInit PROVE IInv
    OBVIOUS
  <1> USE MaxFailsAssumption, RetryAfterAssumption, IdleType DEF TrackerInit
  <1>1. TrackerTypeOK
    BY DEF TrackerTypeOK, Steps
  <1>3. AllTied
    BY DEF AllTied, Tied, In
  <1> QED
    BY <1>1, <1>3 DEF IInv

(* An endpoint between calls is as its threshold says. *)
LEMMA TiedIsExact == IInv => TrackerExact
  <1> SUFFICES ASSUME IInv, NEW e \in Endpoints \ contended, Quiet(e)
               PROVE  unhealthy[e] <=> failCount[e] >= MaxFails
    BY DEF TrackerExact
  <1> QED
    BY DEF IInv, AllTied, Tied, Quiet

(* A step of t inside the tracker it works on moves only t, and leaves the  *)
(* trackers of other endpoints alone.                                       *)
LEMMA Elsewhere ==
  ASSUME TrackerTypeOK, NEW t \in Threads, NEW l \in Steps, step[t] # "none", Goes(t, l),
         NEW e \in Endpoints, e # target[t], Tied(e),
         failCount'[e] = failCount[e], unhealthy'[e] = unhealthy[e]
  PROVE  Tied(e)'
  <1>1. \A u \in Threads : In(u, e)' <=> In(u, e)
    BY DEF TrackerTypeOK, Goes, In
  <1>2. \A u \in Threads : In(u, e) => step'[u] = step[u]
    BY DEF TrackerTypeOK, Goes, In
  <1> QED
    BY <1>1, <1>2 DEF Tied

(* Where a step of t leaves the calls on its own tracker. *)
LEMMA Here ==
  ASSUME TrackerTypeOK, NEW t \in Threads, NEW l \in Steps, step[t] # "none", Goes(t, l)
  PROVE  /\ step' \in [Threads -> Steps] /\ target' \in [Threads -> Endpoints]
         /\ contended' = contended /\ since' = since
         /\ In(t, target[t])
         /\ step'[t] = l
         /\ \A e \in Endpoints : e = target[t] =>
              /\ In(t, e)' <=> l # "none"
              /\ \A u \in Threads : u # t => step'[u] = step[u] /\ (In(u, e)' <=> In(u, e))
  <1>1. step' \in [Threads -> Steps] /\ step'[t] = l /\ contended' = contended /\ since' = since
    BY DEF TrackerTypeOK, Goes
  <1>2. target' \in [Threads -> Endpoints]
    BY IdleType DEF TrackerTypeOK, Goes
  <1>3. In(t, target[t])
    BY DEF In
  <1>4. l # "none" => target'[t] = target[t]
    BY DEF TrackerTypeOK, Goes
  <1>5. \A u \in Threads : u # t => step'[u] = step[u] /\ target'[u] = target[u]
    BY DEF TrackerTypeOK, Goes
  <1> QED
    BY <1>1, <1>2, <1>3, <1>4, <1>5 DEF In

(* An operation of t on the tracker of e preserves the tie, whichever it    *)
(* is: one lemma for each.                                                  *)

(* The failure is counted: a count at the threshold leaves t about to flag it. *)
LEMMA TiedFailAdd ==
  ASSUME TrackerTypeOK, NEW t \in Threads, FailAdd(t), NEW e \in Endpoints, e = target[t], Tied(e)
  PROVE  Tied(e)'
  <1> DEFINE l == IF Reached(failCount[target[t]] + 1) THEN "fail.clock" ELSE "none"
  <1>1. l \in Steps /\ step[t] # "none" /\ Goes(t, l)
    BY DEF FailAdd, Steps
  <1>2. /\ In(t, e) /\ step'[t] = l
        /\ In(t, e)' <=> l # "none"
        /\ \A u \in Threads : u # t => step'[u] = step[u] /\ (In(u, e)' <=> In(u, e))
    <2> HIDE DEF l
    <2> QED
      BY <1>1, Here
  <1>3. failCount'[e] = failCount[e] + 1 /\ (unhealthy'[e] <=> unhealthy[e])
    BY DEF FailAdd, TrackerTypeOK
  <1>4. failCount[e] \in Nat
    BY DEF TrackerTypeOK
  <1> QED
    BY <1>2, <1>3, <1>4, MaxFailsAssumption DEF FailAdd, Reached, Tied, FailSteps, Clearing, Flagging

(* The clock is read: the cooldown is still to be stored. *)
LEMMA TiedFailClock ==
  ASSUME TrackerTypeOK, NEW t \in Threads, FailClock(t), NEW e \in Endpoints, e = target[t], Tied(e)
  PROVE  Tied(e)'
  <1> DEFINE l == "fail.store"
  <1>1. l \in Steps /\ step[t] # "none" /\ Goes(t, l)
    BY DEF FailClock, Steps
  <1>2. /\ In(t, e) /\ step'[t] = l
        /\ In(t, e)' <=> l # "none"
        /\ \A u \in Threads : u # t => step'[u] = step[u] /\ (In(u, e)' <=> In(u, e))
    <2> HIDE DEF l
    <2> QED
      BY <1>1, Here
  <1>3. failCount'[e] = failCount[e] /\ (unhealthy'[e] <=> unhealthy[e])
    BY DEF FailClock, tracker
  <1> QED
    BY <1>2, <1>3 DEF FailClock, Tied, FailSteps, Clearing, Flagging

(* The cooldown is stored: the flag is still to be set. *)
LEMMA TiedFailStore ==
  ASSUME TrackerTypeOK, NEW t \in Threads, FailStore(t), NEW e \in Endpoints, e = target[t], Tied(e)
  PROVE  Tied(e)'
  <1> DEFINE l == "fail.cas"
  <1>1. l \in Steps /\ step[t] # "none" /\ Goes(t, l)
    BY DEF FailStore, Steps
  <1>2. /\ In(t, e) /\ step'[t] = l
        /\ In(t, e)' <=> l # "none"
        /\ \A u \in Threads : u # t => step'[u] = step[u] /\ (In(u, e)' <=> In(u, e))
    <2> HIDE DEF l
    <2> QED
      BY <1>1, Here
  <1>3. failCount'[e] = failCount[e] /\ (unhealthy'[e] <=> unhealthy[e])
    BY DEF FailStore, CooldownEnd, TrackerTypeOK
  <1>4. failCount[e] \in Nat
    BY DEF TrackerTypeOK
  <1> QED
    BY <1>2, <1>3, <1>4, MaxFailsAssumption DEF FailStore, Tied, FailSteps, Clearing, Flagging

(* The flag is set, and the count is at the threshold. *)
LEMMA TiedFailCAS ==
  ASSUME TrackerTypeOK, NEW t \in Threads, FailCAS(t), NEW e \in Endpoints, e = target[t], Tied(e)
  PROVE  Tied(e)'
  <1> DEFINE l == "none"
  <1>1. l \in Steps /\ step[t] # "none" /\ Goes(t, l)
    BY DEF FailCAS, Steps
  <1>2. /\ In(t, e) /\ step'[t] = l
        /\ In(t, e)' <=> l # "none"
        /\ \A u \in Threads : u # t => step'[u] = step[u] /\ (In(u, e)' <=> In(u, e))
    <2> HIDE DEF l
    <2> QED
      BY <1>1, Here
  <1>3. failCount'[e] = failCount[e] /\ (unhealthy'[e] <=> TRUE)
    BY DEF FailCAS, TrackerTypeOK
  <1>4. failCount[e] \in Nat
    BY DEF TrackerTypeOK
  <1> QED
    BY <1>2, <1>3, <1>4, MaxFailsAssumption DEF FailCAS, Tied, FailSteps, Clearing, Flagging

(* The count is zeroed by the only call inside: the flag is to be cleared. *)
LEMMA TiedSuccessStore ==
  ASSUME TrackerTypeOK, NEW t \in Threads, SuccessStore(t), NEW e \in Endpoints, e = target[t], Tied(e)
  PROVE  Tied(e)'
  <1> DEFINE l == "ok.cas"
  <1>1. l \in Steps /\ step[t] # "none" /\ Goes(t, l)
    BY DEF SuccessStore, Steps
  <1>2. /\ In(t, e) /\ step'[t] = l
        /\ In(t, e)' <=> l # "none"
        /\ \A u \in Threads : u # t => step'[u] = step[u] /\ (In(u, e)' <=> In(u, e))
    <2> HIDE DEF l
    <2> QED
      BY <1>1, Here
  <1>3. failCount'[e] = 0 /\ (unhealthy'[e] <=> unhealthy[e])
    BY DEF SuccessStore, Zeroed, TrackerTypeOK
  <1>4. failCount[e] \in Nat
    BY DEF TrackerTypeOK
  <1> QED
    BY <1>2, <1>3, <1>4, MaxFailsAssumption DEF SuccessStore, Tied, FailSteps, Clearing, Flagging

(* The flag is cleared, and the count is zero. *)
LEMMA TiedSuccessCAS ==
  ASSUME TrackerTypeOK, NEW t \in Threads, SuccessCAS(t), NEW e \in Endpoints, e = target[t], Tied(e)
  PROVE  Tied(e)'
  <1> DEFINE l == "none"
  <1>1. l \in Steps /\ step[t] # "none" /\ Goes(t, l)
    BY DEF SuccessCAS, Steps
  <1>2. /\ In(t, e) /\ step'[t] = l
        /\ In(t, e)' <=> l # "none"
        /\ \A u \in Threads : u # t => step'[u] = step[u] /\ (In(u, e)' <=> In(u, e))
    <2> HIDE DEF l
    <2> QED
      BY <1>1, Here
  <1>3. failCount'[e] = failCount[e] /\ (unhealthy'[e] <=> FALSE)
    BY DEF SuccessCAS, Recovered, TrackerTypeOK
  <1>4. failCount[e] \in Nat
    BY DEF TrackerTypeOK
  <1> QED
    BY <1>2, <1>3, <1>4, MaxFailsAssumption DEF SuccessCAS, Tied, FailSteps, Clearing, Flagging

(* As SuccessStore. *)
LEMMA TiedResetCount ==
  ASSUME TrackerTypeOK, NEW t \in Threads, ResetCount(t), NEW e \in Endpoints, e = target[t], Tied(e)
  PROVE  Tied(e)'
  <1> DEFINE l == "reset.time"
  <1>1. l \in Steps /\ step[t] # "none" /\ Goes(t, l)
    BY DEF ResetCount, Steps
  <1>2. /\ In(t, e) /\ step'[t] = l
        /\ In(t, e)' <=> l # "none"
        /\ \A u \in Threads : u # t => step'[u] = step[u] /\ (In(u, e)' <=> In(u, e))
    <2> HIDE DEF l
    <2> QED
      BY <1>1, Here
  <1>3. failCount'[e] = 0 /\ (unhealthy'[e] <=> unhealthy[e])
    BY DEF ResetCount, Zeroed, TrackerTypeOK
  <1>4. failCount[e] \in Nat
    BY DEF TrackerTypeOK
  <1> QED
    BY <1>2, <1>3, <1>4, MaxFailsAssumption DEF ResetCount, Tied, FailSteps, Clearing, Flagging

(* The cooldown is dropped: the flag is still to be cleared. *)
LEMMA TiedResetTime ==
  ASSUME TrackerTypeOK, NEW t \in Threads, ResetTime(t), NEW e \in Endpoints, e = target[t], Tied(e)
  PROVE  Tied(e)'
  <1> DEFINE l == "reset.cas"
  <1>1. l \in Steps /\ step[t] # "none" /\ Goes(t, l)
    BY DEF ResetTime, Steps
  <1>2. /\ In(t, e) /\ step'[t] = l
        /\ In(t, e)' <=> l # "none"
        /\ \A u \in Threads : u # t => step'[u] = step[u] /\ (In(u, e)' <=> In(u, e))
    <2> HIDE DEF l
    <2> QED
      BY <1>1, Here
  <1>3. failCount'[e] = failCount[e] /\ (unhealthy'[e] <=> unhealthy[e])
    BY DEF ResetTime, TrackerTypeOK
  <1>4. failCount[e] \in Nat
    BY DEF TrackerTypeOK
  <1> QED
    BY <1>2, <1>3, <1>4, MaxFailsAssumption DEF ResetTime, Tied, FailSteps, Clearing, Flagging

(* As SuccessCAS. *)
LEMMA TiedResetCAS ==
  ASSUME TrackerTypeOK, NEW t \in Threads, ResetCAS(t), NEW e \in Endpoints, e = target[t], Tied(e)
  PROVE  Tied(e)'
  <1> DEFINE l == "none"
  <1>1. l \in Steps /\ step[t] # "none" /\ Goes(t, l)
    BY DEF ResetCAS, Steps
  <1>2. /\ In(t, e) /\ step'[t] = l
        /\ In(t, e)' <=> l # "none"
        /\ \A u \in Threads : u # t => step'[u] = step[u] /\ (In(u, e)' <=> In(u, e))
    <2> HIDE DEF l
    <2> QED
      BY <1>1, Here
  <1>3. failCount'[e] = failCount[e] /\ (unhealthy'[e] <=> FALSE)
    BY DEF ResetCAS, Recovered, TrackerTypeOK
  <1>4. failCount[e] \in Nat
    BY DEF TrackerTypeOK
  <1> QED
    BY <1>2, <1>3, <1>4, MaxFailsAssumption DEF ResetCAS, Tied, FailSteps, Clearing, Flagging

(* Every atomic operation of every method preserves the inductive           *)
(* invariant.                                                               *)
LEMMA StepIInv == ASSUME IInv, NEW t \in Threads, TrackerStep(t) PROVE IInv'
  <1>0. /\ TrackerTypeOK /\ AllTied
        /\ target[t] \in Endpoints
    BY DEF IInv, TrackerTypeOK
  <1>1. PICK l \in Steps : step[t] # "none" /\ Goes(t, l)
    BY DEF TrackerStep, FailAdd, FailClock, FailStore, FailCAS, SuccessStore, SuccessCAS,
           ResetCount, ResetTime, ResetCAS, Steps
  <1>2. /\ step' \in [Threads -> Steps] /\ target' \in [Threads -> Endpoints]
        /\ contended' = contended /\ since' = since
    BY <1>0, <1>1, Here
  <1>3. failCount' \in [Endpoints -> Nat] /\ unhealthy' \in [Endpoints -> BOOLEAN]
    <2>1. CASE FailAdd(t) \/ SuccessStore(t) \/ ResetCount(t)
      BY <1>0, <2>1 DEF FailAdd, SuccessStore, ResetCount, Zeroed, TrackerTypeOK
    <2>2. CASE FailCAS(t) \/ SuccessCAS(t) \/ ResetCAS(t)
      BY <1>0, <2>2 DEF FailCAS, SuccessCAS, ResetCAS, Recovered, TrackerTypeOK
    <2>3. CASE FailClock(t) \/ FailStore(t) \/ ResetTime(t)
      BY <1>0, <2>3 DEF FailClock, FailStore, ResetTime, tracker, TrackerTypeOK
    <2> QED
      BY <2>1, <2>2, <2>3 DEF TrackerStep
  <1>4. now' = now /\ recoveredAt' \in [Endpoints -> Nat] /\ seen' \in [Threads -> Nat]
    BY <1>0, RetryAfterAssumption
       DEF TrackerStep, FailAdd, FailClock, FailStore, FailCAS, SuccessStore, SuccessCAS,
           ResetCount, ResetTime, ResetCAS, CooldownEnd, tracker, TrackerTypeOK
  <1>5. TrackerTypeOK'
    BY <1>0, <1>2, <1>3, <1>4 DEF TrackerTypeOK
  <1>6. ASSUME NEW e \in Endpoints, Tied(e), e = target[t] PROVE Tied(e)'
    BY <1>0, <1>6, TiedFailAdd, TiedFailClock, TiedFailStore, TiedFailCAS, TiedSuccessStore,
       TiedSuccessCAS, TiedResetCount, TiedResetTime, TiedResetCAS DEF TrackerStep
  <1>7. ASSUME NEW e \in Endpoints, Tied(e), e # target[t] PROVE Tied(e)'
    <2>1. failCount'[e] = failCount[e] /\ unhealthy'[e] = unhealthy[e]
      BY <1>0, <1>7 DEF TrackerStep, FailAdd, FailClock, FailStore, FailCAS, SuccessStore, SuccessCAS,
                        ResetCount, ResetTime, ResetCAS, Zeroed, Recovered, tracker, TrackerTypeOK
    <2> QED
      BY <1>0, <1>1, <1>7, <2>1, Elsewhere
  <1>8. AllTied'
    BY <1>0, <1>2, <1>6, <1>7 DEF AllTied
  <1> QED
    BY <1>5, <1>8 DEF IInv

(* A call that enters a method preserves it: one that meets another call    *)
(* marks the tracker contended unless both report failures.                 *)
LEMMA EnterIInv ==
  ASSUME IInv, NEW t \in Threads, NEW m \in {MarkFailed, MarkSuccess, Reset},
         NEW e0 \in Endpoints, step[t] = "none", Enter(t, m, e0), UNCHANGED <<tracker, now>>
  PROVE  IInv'
  <1>0. /\ TrackerTypeOK /\ AllTied
        /\ failCount' = failCount /\ unhealthy' = unhealthy
        /\ recoveredAt' = recoveredAt /\ now' = now
    BY DEF IInv, tracker
  <1>1. /\ step' \in [Threads -> Steps] /\ target' \in [Threads -> Endpoints]
        /\ contended \subseteq contended' /\ contended' \subseteq Endpoints
        /\ step'[t] = m /\ target'[t] = e0 /\ m # "none"
        /\ \A u \in Threads : u # t => step'[u] = step[u] /\ target'[u] = target[u]
    BY <1>0 DEF Enter, TrackerTypeOK, MarkFailed, MarkSuccess, Reset, Steps
  <1>2. TrackerTypeOK'
    BY <1>0, <1>1 DEF Enter, TrackerTypeOK
  <1>3. ASSUME NEW e \in Endpoints \ contended' PROVE Tied(e)'
    <2>1. Tied(e) /\ e \in Endpoints /\ e \notin contended
      BY <1>0, <1>1, <1>3 DEF AllTied
    <2>2. /\ \A u \in Threads : u # t => step'[u] = step[u] /\ (In(u, e)' <=> In(u, e))
          /\ ~In(t, e)
          /\ In(t, e)' <=> e = e0
      BY <1>1 DEF In
    <2>3. e = e0 => \A u \in Threads : In(u, e) => m = MarkFailed /\ step[u] \in FailSteps
      BY <1>3, <2>1 DEF Enter
    <2>4. m \notin Clearing /\ m \notin Flagging
      BY DEF MarkFailed, MarkSuccess, Reset, Clearing, Flagging
    <2>5. m = MarkFailed => m \in FailSteps
      BY DEF MarkFailed, FailSteps
    <2>6. (\A u, v \in Threads : In(u, e) /\ In(v, e) /\ step[u] \notin FailSteps => u = v)'
      BY <1>1, <2>1, <2>2, <2>3, <2>5 DEF Tied
    <2>7. (\A u \in Threads : In(u, e) /\ step[u] \in Flagging => failCount[e] >= MaxFails)'
      BY <1>0, <1>1, <2>1, <2>2, <2>4 DEF Tied
    <2>8. (\A u \in Threads : In(u, e) /\ step[u] \in Clearing => failCount[e] = 0)'
      BY <1>0, <1>1, <2>1, <2>2, <2>4 DEF Tied
    <2>9. (unhealthy[e] =>
             failCount[e] >= MaxFails \/ \E u \in Threads : In(u, e) /\ step[u] \in Clearing)'
      BY <1>0, <1>1, <2>1, <2>2, <2>4 DEF Tied
    <2>10. (failCount[e] >= MaxFails =>
              unhealthy[e] \/ \E u \in Threads : In(u, e) /\ step[u] \in Flagging)'
      BY <1>0, <1>1, <2>1, <2>2, <2>4 DEF Tied
    <2> QED
      BY <2>6, <2>7, <2>8, <2>9, <2>10 DEF Tied
  <1> QED
    BY <1>2, <1>3 DEF IInv, AllTied

(* The invariant is inductive. *)
LEMMA NextIInv == IInv /\ [TrackerNext]_trackerVars => IInv'
  <1> SUFFICES ASSUME IInv, [TrackerNext]_trackerVars PROVE IInv'
    OBVIOUS
  <1>1. ASSUME NEW t \in Threads, NEW m \in {MarkFailed, MarkSuccess, Reset}, NEW e \in Endpoints,
               step[t] = "none", Enter(t, m, e), UNCHANGED <<tracker, now>>
        PROVE  IInv'
    BY <1>1, EnterIInv
  <1>2. ASSUME NEW t \in Threads, TrackerStep(t) PROVE IInv'
    BY <1>2, StepIInv
  <1>3. CASE Tick(now + 1) \/ UNCHANGED trackerVars
    <2>1. /\ failCount' = failCount /\ unhealthy' = unhealthy /\ recoveredAt' = recoveredAt
          /\ step' = step /\ target' = target /\ contended' = contended
          /\ seen' = seen /\ since' = since
          /\ now' = now \/ now' = now + 1
      BY <1>3 DEF Tick, tracker, calls, trackerVars
    <2>2. TrackerTypeOK'
      BY <2>1 DEF IInv, TrackerTypeOK
    <2>3. AllTied'
      BY <2>1 DEF IInv, AllTied, Tied, In
    <2> QED
      BY <2>2, <2>3 DEF IInv
  <1> QED
    BY <1>1, <1>2, <1>3 DEF TrackerNext

(* Whoever calls the trackers, their atomics keep their types. *)
THEOREM TrackerTypeCorrect == TrackerSpec => []TrackerTypeOK
  <1>1. IInv => TrackerTypeOK
    BY DEF IInv
  <1> QED
    BY InitIInv, NextIInv, <1>1, PTL DEF TrackerSpec

(* Whoever calls the trackers, in any interleaving, a tracker between calls *)
(* is unhealthy exactly at its threshold, unless a success or a reset of it *)
(* overlapped another call.                                                 *)
THEOREM TrackerIsExact == TrackerSpec => []TrackerExact
  <1> QED
    BY InitIInv, NextIInv, TiedIsExact, PTL DEF TrackerSpec

-----------------------------------------------------------------------------
(* Cooldowns.                                                               *)

(* No reading of the clock and no cooldown is from the future. *)
NotAhead ==
  /\ \A t \in Threads : step[t] = "fail.store" => seen[t] <= now
  /\ \A e \in Endpoints : recoveredAt[e] <= now + RetryAfter

(* A reading and a cooldown are not older than the burst of calls: not once *)
(* it is read, nor stored, nor at the end of a burst that leaves the        *)
(* endpoint unhealthy.                                                      *)
Cooling(e) ==
  /\ since[e] <= now
  /\ \A t \in Threads : In(t, e) /\ step[t] = "fail.store" => since[e] <= seen[t]
  /\ \A t \in Threads : In(t, e) /\ step[t] = "fail.cas" => since[e] + RetryAfter <= recoveredAt[e]
  /\ Quiet(e) /\ unhealthy[e] => since[e] + RetryAfter <= recoveredAt[e]

CooldownInv == NotAhead /\ \A e \in Endpoints \ contended : Cooling(e)

(* Every tracker begins healthy. *)
LEMMA InitCooldown == TrackerInit => CooldownInv
  BY RetryAfterAssumption DEF TrackerInit, CooldownInv, NotAhead, Cooling, In

(* What the trackers make of a step of t that is not on e. *)
LEMMA CoolingElsewhere ==
  ASSUME IInv, NEW t \in Threads, TrackerStep(t), NEW e \in Endpoints, e # target[t], Cooling(e)
  PROVE  Cooling(e)'
  <1>0. TrackerTypeOK
    BY DEF IInv
  <1>1. PICK l \in Steps : step[t] # "none" /\ Goes(t, l)
    BY DEF TrackerStep, FailAdd, FailClock, FailStore, FailCAS, SuccessStore, SuccessCAS,
           ResetCount, ResetTime, ResetCAS, Steps
  <1>2. \A u \in Threads : In(u, e)' <=> In(u, e)
    BY <1>0, <1>1 DEF TrackerTypeOK, Goes, In
  <1>3. \A u \in Threads : In(u, e) => u # t /\ step'[u] = step[u]
    BY <1>0, <1>1 DEF TrackerTypeOK, Goes, In
  <1>4. /\ since' = since /\ now' = now
        /\ recoveredAt'[e] = recoveredAt[e] /\ unhealthy'[e] = unhealthy[e]
        /\ \A u \in Threads : u # t => seen'[u] = seen[u]
    BY <1>0 DEF TrackerStep, FailAdd, FailClock, FailStore, FailCAS, SuccessStore, SuccessCAS,
                ResetCount, ResetTime, ResetCAS, Recovered, Goes, tracker, TrackerTypeOK
  <1>5. Quiet(e)' <=> Quiet(e)
    BY <1>2 DEF Quiet
  <1> QED
    BY <1>2, <1>3, <1>4, <1>5 DEF Cooling

(* The burst goes on: t stays inside. *)
LEMMA CoolingGoesOn ==
  ASSUME TrackerTypeOK, NEW t \in Threads, NEW l \in Steps \ {"none"}, step[t] # "none", Goes(t, l),
         NEW e \in Endpoints, e = target[t], Cooling(e), now' = now,
         \A u \in Threads : u # t => seen'[u] = seen[u],
         l = "fail.store" => since[e] <= seen'[t],
         l = "fail.cas" => since[e] + RetryAfter <= recoveredAt'[e],
         \/ recoveredAt'[e] = recoveredAt[e]
         \/ \A u \in Threads : u # t /\ In(u, e) /\ step[u] = "fail.cas" => since[e] + RetryAfter <= recoveredAt'[e]
  PROVE  Cooling(e)'
  <1>1. /\ since' = since /\ step'[t] = l /\ In(t, e)'
        /\ \A u \in Threads : u # t => step'[u] = step[u] /\ (In(u, e)' <=> In(u, e))
    BY Here
  <1>2. ~Quiet(e)'
    BY <1>1 DEF Quiet
  <1> QED
    BY <1>1, <1>2 DEF Cooling

(* t leaves the tracker, as it was or recovered. *)
LEMMA CoolingEnds ==
  ASSUME TrackerTypeOK, NEW t \in Threads, step[t] # "none", Goes(t, "none"),
         NEW e \in Endpoints, e = target[t], Cooling(e), UNCHANGED <<now, recoveredAt, seen>>,
         unhealthy'[e] => since[e] + RetryAfter <= recoveredAt[e]
  PROVE  Cooling(e)'
  <1>1. "none" \in Steps
    BY DEF Steps
  <1>2. /\ since' = since /\ ~In(t, e)'
        /\ \A u \in Threads : u # t => step'[u] = step[u] /\ (In(u, e)' <=> In(u, e))
    BY <1>1, Here
  <1> QED
    BY <1>2 DEF Cooling

(* Every operation of every method keeps the cooldown of the tracker it     *)
(* works on.                                                                *)
LEMMA CoolingHere ==
  ASSUME IInv, NotAhead, NEW t \in Threads, TrackerStep(t), NEW e \in Endpoints, e = target[t],
         e \notin contended, Cooling(e)
  PROVE  Cooling(e)'
  <1>1. TrackerTypeOK /\ Tied(e) /\ In(t, e)' \in BOOLEAN /\ (step[t] # "none" => In(t, e))
    BY DEF IInv, AllTied, In
  <1>2. now \in Nat /\ RetryAfter \in Nat /\ since[e] \in Nat /\ recoveredAt[e] \in Nat /\ seen[t] \in Nat
    BY <1>1, RetryAfterAssumption DEF TrackerTypeOK
  <1>3. CASE FailAdd(t)
    <2>1. /\ step[t] = "fail.add" /\ UNCHANGED <<now, recoveredAt, seen, unhealthy>>
          /\ Goes(t, IF Reached(failCount[target[t]] + 1) THEN "fail.clock" ELSE "none")
      BY <1>3 DEF FailAdd
    <2>2. CASE Reached(failCount[target[t]] + 1)
      BY <1>1, <2>1, <2>2, CoolingGoesOn DEF Steps
    <2>3. CASE ~Reached(failCount[target[t]] + 1)
      <3>1. ~(failCount[e] >= MaxFails)
        BY <1>1, <2>3, MaxFailsAssumption DEF Reached, TrackerTypeOK
      <3>2. \A u \in Threads : In(u, e) => step[u] \notin Clearing
        BY <1>1, <2>1 DEF Tied, Clearing, FailSteps
      <3>3. ~unhealthy[e]
        BY <1>1, <3>1, <3>2 DEF Tied
      <3> QED
        BY <1>1, <2>1, <2>3, <3>3, CoolingEnds
    <2> QED
      BY <2>2, <2>3
  <1>4. CASE FailClock(t)
    <2>1. /\ step[t] = "fail.clock" /\ UNCHANGED <<now, recoveredAt>> /\ Goes(t, "fail.store")
          /\ seen'[t] = now /\ \A u \in Threads : u # t => seen'[u] = seen[u]
      BY <1>1, <1>4 DEF FailClock, tracker, TrackerTypeOK
    <2> QED
      BY <1>1, <2>1, CoolingGoesOn DEF Steps, Cooling
  <1>5. CASE FailStore(t)
    <2>1. /\ step[t] = "fail.store" /\ now' = now /\ Goes(t, "fail.cas")
          /\ recoveredAt'[e] = seen[t] + RetryAfter /\ \A u \in Threads : u # t => seen'[u] = seen[u]
      BY <1>1, <1>5 DEF FailStore, CooldownEnd, TrackerTypeOK
    <2>2. since[e] + RetryAfter <= recoveredAt'[e]
      BY <1>1, <1>2, <2>1 DEF Cooling
    <2> QED
      BY <1>1, <2>1, <2>2, CoolingGoesOn DEF Steps
  <1>6. CASE FailCAS(t)
    BY <1>1, <1>6, CoolingEnds DEF FailCAS, Cooling
  <1>7. CASE SuccessStore(t) \/ ResetCount(t)
    BY <1>1, <1>7, CoolingGoesOn DEF SuccessStore, ResetCount, Steps
  <1>8. CASE SuccessCAS(t) \/ ResetCAS(t)
    <2>1. unhealthy'[e] = FALSE
      BY <1>1, <1>8 DEF SuccessCAS, ResetCAS, Recovered, TrackerTypeOK
    <2> QED
      BY <1>1, <1>8, <2>1, CoolingEnds DEF SuccessCAS, ResetCAS
  <1>9. CASE ResetTime(t)
    <2>1. \A u \in Threads : u # t /\ In(u, e) => FALSE
      BY <1>1, <1>9 DEF ResetTime, Tied, FailSteps
    <2> QED
      BY <1>1, <1>9, <2>1, CoolingGoesOn DEF ResetTime, Steps
  <1> QED
    BY <1>3, <1>4, <1>5, <1>6, <1>7, <1>8, <1>9 DEF TrackerStep

(* A call that enters begins a burst, or joins the one under way. *)
LEMMA CoolingEntered ==
  ASSUME IInv, NEW t \in Threads, NEW m \in {MarkFailed, MarkSuccess, Reset},
         NEW e0 \in Endpoints, step[t] = "none", Enter(t, m, e0), UNCHANGED <<tracker, now>>,
         NEW e \in Endpoints, Cooling(e)
  PROVE  Cooling(e)'
  <1>1. /\ step'[t] = m /\ target'[t] = e0 /\ m \notin {"none", "fail.store", "fail.cas"}
        /\ \A u \in Threads : u # t => step'[u] = step[u] /\ target'[u] = target[u]
        /\ UNCHANGED <<now, recoveredAt, unhealthy, seen>>
        /\ since' = IF Quiet(e0) THEN [since EXCEPT ![e0] = now] ELSE since
    BY DEF Enter, IInv, TrackerTypeOK, MarkFailed, MarkSuccess, Reset, tracker
  <1>2. now \in Nat /\ since \in [Endpoints -> Nat]
    BY DEF IInv, TrackerTypeOK
  <1>3. CASE e = e0
    <2>1. ~Quiet(e)'
      BY <1>1, <1>3 DEF Quiet, In
    <2>2. \A u \in Threads : u # t => (In(u, e)' <=> In(u, e))
      BY <1>1 DEF In
    <2>3. CASE Quiet(e)
      BY <1>1, <1>2, <1>3, <2>1, <2>2, <2>3 DEF Cooling, Quiet
    <2>4. CASE ~Quiet(e)
      BY <1>1, <1>3, <2>1, <2>2, <2>4 DEF Cooling
    <2> QED
      BY <2>3, <2>4
  <1>4. CASE e # e0
    <2>1. \A u \in Threads : In(u, e)' <=> In(u, e)
      BY <1>1, <1>4 DEF In
    <2>2. \A u \in Threads : In(u, e) => step'[u] = step[u]
      BY <1>1, <1>4 DEF In
    <2>3. since'[e] = since[e]
      BY <1>1, <1>2, <1>4
    <2> QED
      BY <1>1, <2>1, <2>2, <2>3 DEF Cooling, Quiet
  <1> QED
    BY <1>3, <1>4

(* The invariant of the cooldowns is inductive. *)
LEMMA NextCooldown == IInv /\ CooldownInv /\ [TrackerNext]_trackerVars => CooldownInv'
  <1> SUFFICES ASSUME IInv, CooldownInv, [TrackerNext]_trackerVars PROVE CooldownInv'
    OBVIOUS
  <1>0. NotAhead /\ TrackerTypeOK /\ RetryAfter \in Nat
    BY RetryAfterAssumption DEF CooldownInv, IInv
  <1>1. ASSUME NEW t \in Threads, NEW m \in {MarkFailed, MarkSuccess, Reset}, NEW e0 \in Endpoints,
               step[t] = "none", Enter(t, m, e0), UNCHANGED <<tracker, now>>
        PROVE  CooldownInv'
    <2>1. NotAhead'
      BY <1>0, <1>1 DEF NotAhead, Enter, tracker, TrackerTypeOK, MarkFailed, MarkSuccess, Reset
    <2>2. contended \subseteq contended'
      BY <1>1 DEF Enter
    <2> QED
      BY <1>1, <2>1, <2>2, CoolingEntered DEF CooldownInv
  <1>2. ASSUME NEW t \in Threads, TrackerStep(t) PROVE CooldownInv'
    <2>1. NotAhead'
      <3>1. CASE FailClock(t)
        BY <1>0, <3>1 DEF NotAhead, FailClock, Goes, tracker, TrackerTypeOK
      <3>2. CASE FailStore(t)
        BY <1>0, <3>2 DEF NotAhead, FailStore, CooldownEnd, Goes, TrackerTypeOK
      <3>3. CASE ResetTime(t)
        BY <1>0, <3>3 DEF NotAhead, ResetTime, Goes, TrackerTypeOK
      <3>4. CASE FailAdd(t)
        BY <1>0, <3>4 DEF NotAhead, FailAdd, Goes, TrackerTypeOK
      <3>5. CASE FailCAS(t) \/ SuccessStore(t) \/ SuccessCAS(t) \/ ResetCount(t) \/ ResetCAS(t)
        BY <1>0, <3>5 DEF NotAhead, FailCAS, SuccessStore, SuccessCAS, ResetCount, ResetCAS, Goes, TrackerTypeOK
      <3> QED
        BY <1>2, <3>1, <3>2, <3>3, <3>4, <3>5 DEF TrackerStep
    <2>2. contended' = contended
      BY <1>2 DEF TrackerStep, FailAdd, FailClock, FailStore, FailCAS, SuccessStore, SuccessCAS,
                  ResetCount, ResetTime, ResetCAS, Goes
    <2>3. ASSUME NEW e \in Endpoints \ contended PROVE Cooling(e)'
      BY <1>0, <1>2, CoolingHere, CoolingElsewhere DEF CooldownInv
    <2> QED
      BY <2>1, <2>2, <2>3 DEF CooldownInv
  <1>3. CASE Tick(now + 1) \/ UNCHANGED trackerVars
    <2>1. /\ UNCHANGED <<unhealthy, recoveredAt, step, target, contended, seen, since>>
          /\ now' = now \/ now' = now + 1
      BY <1>3 DEF Tick, tracker, calls, trackerVars
    <2>2. NotAhead'
      BY <1>0, <2>1 DEF NotAhead, TrackerTypeOK
    <2>3. ASSUME NEW e \in Endpoints \ contended PROVE Cooling(e)'
      BY <1>0, <2>1 DEF CooldownInv, Cooling, Quiet, In, TrackerTypeOK
    <2> QED
      BY <2>1, <2>2, <2>3 DEF CooldownInv
  <1> QED
    BY <1>1, <1>2, <1>3 DEF TrackerNext

(* Whoever calls the trackers, in any interleaving of their readings of the *)
(* clock and their stores, an endpoint left unhealthy by a burst of calls   *)
(* cools down from a failure of that burst, and for no longer than          *)
(* retryAfter.                                                              *)
THEOREM CooldownIsKept == TrackerSpec => []CooldownKept
  <1>1. TrackerInit => IInv /\ CooldownInv
    BY InitIInv, InitCooldown
  <1>2. IInv /\ CooldownInv /\ [TrackerNext]_trackerVars => IInv' /\ CooldownInv'
    BY NextIInv, NextCooldown
  <1>3. CooldownInv => CooldownKept
    BY DEF CooldownInv, NotAhead, Cooling, CooldownKept
  <1> QED
    BY <1>1, <1>2, <1>3, PTL DEF TrackerSpec

-----------------------------------------------------------------------------
(* The balancer.                                                            *)

(* First what the cursor needs of remainders: division, and that there is   *)
(* one remainder.                                                           *)
LEMMA Division ==
  ASSUME NEW n \in Nat \ {0}, NEW c \in Nat
  PROVE  c = n * (c \div n) + (c % n) /\ c \div n \in Nat /\ c % n \in 0 .. n - 1
  <1>1. c % n \in 0 .. n - 1
    OBVIOUS
  <1>2. c = n * (c \div n) + (c % n)
    OBVIOUS
  <1>3. c \div n \in Nat
    OBVIOUS
  <1> QED
    BY <1>1, <1>2, <1>3

(* c is a turns of n, and b more. *)
Turns(c, n, a, b) == c = n * a + b

(* A larger factor adds at least one more n. *)
LEMMA Larger ==
  ASSUME NEW n \in Nat, NEW a \in Nat, NEW b \in Nat, a < b
  PROVE  n * a + n <= n * b
  <1>1. PICK d \in Nat : b = a + 1 + d
    <2>1. b - (a + 1) \in Nat
      OBVIOUS
    <2> QED
      BY <2>1
  <1>2. n * b = n * a + n + n * d
    BY <1>1
  <1>3. n * d \in Nat
    OBVIOUS
  <1> QED
    BY <1>2, <1>3

(* There is one remainder. *)
LEMMA Remainder ==
  ASSUME NEW n \in Nat \ {0}, NEW a \in Nat, NEW b \in 0 .. n - 1, NEW c \in Nat, Turns(c, n, a, b)
  PROVE  c % n = b
  <1> DEFINE q == c \div n
  <1> DEFINE d == c % n
  <1>1. c = n * q + d /\ q \in Nat /\ d \in 0 .. n - 1
    BY Division
  <1> HIDE DEF q, d
  <1>0. c = n * a + b
    BY DEF Turns
  <1>2. n * q \in Nat /\ n * a \in Nat
    BY <1>1
  <1>3. ~ q < a
    BY <1>0, <1>1, <1>2, Larger
  <1>4. ~ a < q
    BY <1>0, <1>1, <1>2, Larger
  <1>5. q = a
    BY <1>1, <1>3, <1>4
  <1>6. d = b
    BY <1>0, <1>1, <1>2, <1>5
  <1> QED
    BY <1>6 DEF d

(* From any ticket, the circle covers every backend. *)
LEMMA RoundRobinCovers ==
  ASSUME NEW n \in Nat \ {0}, NEW c \in Nat
  PROVE  RoundRobinOrder(n, c) \in Perms(n)
  <1> DEFINE p == RoundRobinOrder(n, c)
  <1>1. \A i \in 1 .. n : (c + i - 1) % n \in 0 .. n - 1
    <2> TAKE i \in 1 .. n
    <2>1. c + i - 1 \in Nat
      OBVIOUS
    <2> QED
      BY <2>1, Division
  <1>2. p \in [1 .. n -> 1 .. n] /\ \A i \in 1 .. n : p[i] = ((c + i - 1) % n) + 1
    BY <1>1 DEF RoundRobinOrder
  <1> HIDE DEF p
  <1>3. ASSUME NEW k \in 1 .. n PROVE \E i \in 1 .. n : p[i] = k
    <2>1. PICK q \in Nat, d \in 0 .. n - 1 : c = n * q + d
      BY Division
    <2>2. PICK i \in 1 .. n, a \in Nat : c + i - 1 = n * a + (k - 1)
      <3>1. CASE k - 1 >= d
        <4>1. c + (k - d) - 1 = n * q + (k - 1) /\ k - d \in 1 .. n
          BY <2>1, <3>1
        <4> QED
          BY <4>1
      <3>2. CASE k - 1 < d
        <4>1. n * (q + 1) = n * q + n
          BY <2>1
        <4>2. c + (k - d + n) - 1 = n * (q + 1) + (k - 1) /\ k - d + n \in 1 .. n /\ q + 1 \in Nat
          BY <2>1, <3>2, <4>1
        <4> QED
          BY <4>2
      <3> QED
        BY <2>1, <3>1, <3>2
    <2>3. c + i - 1 \in Nat /\ k - 1 \in 0 .. n - 1 /\ Turns(c + i - 1, n, a, k - 1)
      BY <2>2 DEF Turns
    <2>4. (c + i - 1) % n = k - 1
      BY <2>3, Remainder
    <2>5. (k - 1) + 1 = k
      OBVIOUS
    <2>6. p[i] = (k - 1) + 1
      BY <1>2, <2>4, Zenon
    <2> QED
      BY <2>5, <2>6, Zenon
  <1>4. Range(p) = 1 .. n
    BY <1>2, <1>3 DEF Range
  <1> QED
    BY <1>2, <1>4 DEF Perms, p

(* An order of n attempts is a sequence of them, and reaches every index.   *)
LEMMA OrderFacts ==
  ASSUME NEW n \in Nat, NEW p \in Perms(n)
  PROVE  /\ p \in Seq(1 .. n) /\ Len(p) = n
         /\ Range(p) = 1 .. n
         /\ \A i \in 1 .. n : p[i] \in 1 .. n
         /\ \A k \in 1 .. n : \E i \in 1 .. n : p[i] = k
  <1>1. p \in [1 .. n -> 1 .. n] /\ Range(p) = 1 .. n
    BY DEF Perms
  <1>2. p \in Seq(1 .. n) /\ Len(p) = n
    BY <1>1, SeqDef, LenProperties
  <1> QED
    BY <1>1, <1>2 DEF Range

CallLabels == {"idle", "order", "try", "cool", "exchange", "next", "selected", "done"}

BalancerType ==
  /\ pool \in Seq(Endpoints) \ {<<>>}
  /\ current \in Nat
  /\ snapshot \in [Threads -> Seq(Endpoints)]
  /\ pos \in [Threads -> Nat \ {0}]
  /\ DOMAIN pc = Threads /\ DOMAIN order = Requests /\ DOMAIN result = Requests

(* How far a call is: it works on a tracker only after an exchange, its     *)
(* order of attempts covers the backends it captured, and it fails at the   *)
(* end of that order.                                                       *)
CallFits(r) ==
  /\ pc[r] \in CallLabels
  /\ pc[r] \notin {"next", "selected"} => step[r] = "none"
  /\ pc[r] = "idle" \/ snapshot[r] # <<>>
  /\ IF pc[r] \in {"idle", "order"}
       THEN order[r] = <<>> /\ pos[r] = 1
       ELSE order[r] \in Perms(Len(snapshot[r])) /\ pos[r] \in 1 .. Len(snapshot[r])
  /\ pc[r] # "done" => result[r] = "none"
  /\ Failed(r) => pos[r] = Len(snapshot[r])

CallsFit == BalancerType /\ \A r \in Requests : CallFits(r)

BalancerInv == IInv /\ CallsFit

(* The initial balancer satisfies the invariant. *)
LEMMA BalancerStarts == Init => BalancerInv
  <1> SUFFICES ASSUME Init PROVE BalancerInv
    OBVIOUS
  <1>1. IInv
    BY InitIInv DEF Init
  <1>2. BalancerType
    BY PoolsAssumption, ThreadsAssumption DEF Init, BalancerType
  <1>3. \A r \in Requests : CallFits(r)
    BY ThreadsAssumption DEF Init, CallFits, CallLabels, Failed, TrackerInit
  <1> QED
    BY <1>1, <1>2, <1>3 DEF BalancerInv, CallsFit

(* What a step of thread t leaves alone. *)
Apart(t) ==
  \A s \in Requests : s # t =>
    /\ pc'[s] = pc[s] /\ step'[s] = step[s] /\ snapshot'[s] = snapshot[s]
    /\ order'[s] = order[s] /\ pos'[s] = pos[s] /\ result'[s] = result[s]

LEMMA ApartFits ==
  ASSUME NEW t \in Threads, Apart(t), NEW s \in Requests, s # t, CallFits(s)
  PROVE  CallFits(s)'
  <1>1. /\ pc'[s] = pc[s] /\ step'[s] = step[s] /\ snapshot'[s] = snapshot[s]
        /\ order'[s] = order[s] /\ pos'[s] = pos[s] /\ result'[s] = result[s]
    BY DEF Apart
  <1> QED
    BY <1>1 DEF CallFits, Failed

(* The candidate of a call on its way is an endpoint. *)
LEMMA CandidateIs ==
  ASSUME CallsFit, NEW r \in Requests, pc[r] \notin {"idle", "order"}
  PROVE  /\ Candidate(r) \in Endpoints
         /\ order[r] \in Perms(Len(snapshot[r])) /\ Len(order[r]) = Len(snapshot[r])
         /\ pos[r] \in 1 .. Len(snapshot[r]) /\ Len(snapshot[r]) \in Nat
         /\ order[r][pos[r]] \in 1 .. Len(snapshot[r])
  <1>1. /\ order[r] \in Perms(Len(snapshot[r])) /\ pos[r] \in 1 .. Len(snapshot[r])
        /\ snapshot[r] \in Seq(Endpoints)
    BY ThreadsAssumption DEF CallsFit, CallFits, BalancerType
  <1>2. Len(snapshot[r]) \in Nat
    BY <1>1
  <1>3. Len(order[r]) = Len(snapshot[r]) /\ order[r][pos[r]] \in 1 .. Len(snapshot[r])
    BY <1>1, <1>2, OrderFacts
  <1> QED
    BY <1>1, <1>2, <1>3 DEF Candidate

(* A goroutine that calls a method is in none before, and no other moves.   *)
LEMMA EnterRefines ==
  ASSUME IInv, NEW t \in Threads, NEW m \in {MarkFailed, MarkSuccess, Reset}, NEW e \in Endpoints,
         step[t] = "none", Enter(t, m, e), UNCHANGED <<tracker, now>>
  PROVE  /\ TrackerNext
         /\ \A s \in Requests : s # t => step'[s] = step[s]
  <1>1. TrackerNext
    BY DEF TrackerNext
  <1>2. \A s \in Requests : s # t => step'[s] = step[s]
    BY ThreadsAssumption DEF IInv, TrackerTypeOK, Enter
  <1> QED
    BY <1>1, <1>2

(* Only the goroutine in a method moves with it. *)
LEMMA OwnStep ==
  ASSUME IInv, NEW t \in Threads, TrackerStep(t)
  PROVE  /\ step[t] # "none" /\ TrackerNext
         /\ \A s \in Requests : s # t => step'[s] = step[s]
  <1>1. PICK l \in Steps : step[t] # "none" /\ Goes(t, l)
    BY DEF TrackerStep, FailAdd, FailClock, FailStore, FailCAS, SuccessStore, SuccessCAS,
           ResetCount, ResetTime, ResetCAS, Steps
  <1>2. TrackerNext
    BY DEF TrackerNext
  <1>3. \A s \in Requests : s # t => step'[s] = step[s]
    BY <1>1, ThreadsAssumption DEF IInv, TrackerTypeOK, Goes
  <1> QED
    BY <1>1, <1>2, <1>3

(* What each goroutine of the balancer does, to the trackers and to itself. *)
Keeps(t) ==
  /\ [TrackerNext]_trackerVars
  /\ BalancerType' /\ Apart(t)
  /\ t \in Requests => CallFits(t)'

(* A step of a call. *)
LEMMA CallSteps ==
  ASSUME BalancerInv, NEW r \in Requests, RequestStep(r)
  PROVE  Keeps(r)
  <1>0. /\ IInv /\ CallsFit /\ BalancerType /\ CallFits(r) /\ r \in Threads
        /\ step \in [Threads -> Steps]
    BY ThreadsAssumption DEF BalancerInv, CallsFit, IInv, TrackerTypeOK
  <1> USE DEF Goto, settings, reqLocals, counters
  <1>1. CASE Capture(r)
    BY <1>0, <1>1
       DEF Capture, Keeps, Apart, BalancerType, CallFits, CallLabels, Failed, trackerVars
  <1>2. CASE BuildOrder(r)
    <2>1. PICK p \in Perms(Len(snapshot[r])) : order' = [order EXCEPT ![r] = p]
      <3>1. Len(snapshot[r]) \in Nat \ {0} /\ Ticket \in Nat
        BY <1>0, <1>2 DEF BuildOrder, BalancerType, CallFits, Ticket
      <3>2. RoundRobinOrder(BackendCount(r), Ticket) \in Perms(Len(snapshot[r]))
        BY <3>1, RoundRobinCovers DEF BackendCount
      <3> QED
        BY <1>2, <3>2 DEF BuildOrder, ByWeight, RacedSorts, BackendCount
    <2>2. current' \in Nat
      BY <1>0, <1>2 DEF BuildOrder, BalancerType, Ticket
    <2>3. /\ pc[r] = "order" /\ pc' = [pc EXCEPT ![r] = "try"]
          /\ UNCHANGED <<trackerVars, pool, snapshot, pos, result>>
      BY <1>2 DEF BuildOrder
    <2>4. 1 \in 1 .. Len(snapshot[r]) /\ pos[r] = 1
      BY <1>0, <2>3 DEF CallFits, BalancerType
    <2> QED
      BY <1>0, <2>1, <2>2, <2>3, <2>4
         DEF Keeps, Apart, BalancerType, CallFits, CallLabels, Failed, trackerVars
  <1>3. CASE LoadUnhealthy(r)
    BY <1>0, <1>3
       DEF LoadUnhealthy, Chosen, Keeps, Apart, BalancerType, CallFits, CallLabels, Failed, trackerVars
  <1>4. CASE LoadRecoveredAt(r)
    BY <1>0, <1>4
       DEF LoadRecoveredAt, Chosen, Keeps, Apart, BalancerType, CallFits, CallLabels, Failed, trackerVars
  <1>5. CASE RejectURL(r) \/ \E out \in {"response", "cancelled", "error", "5xx"} : Exchange(r, out)
    <2>1. PICK m \in {MarkFailed, MarkSuccess, Reset}, l \in {"next", "selected"} :
            /\ pc[r] = "exchange" /\ pc' = [pc EXCEPT ![r] = l]
            /\ Enter(r, m, Candidate(r)) /\ UNCHANGED <<tracker, now>>
            /\ UNCHANGED <<pool, current, snapshot, order, pos, result>>
      BY <1>5 DEF RejectURL, Exchange
    <2>2. Candidate(r) \in Endpoints /\ step[r] = "none"
      BY <1>0, <2>1, CandidateIs DEF CallFits
    <2>3. TrackerNext /\ \A s \in Requests : s # r => step'[s] = step[s]
      BY <1>0, <2>1, <2>2, EnterRefines
    <2> QED
      BY <1>0, <2>1, <2>3 DEF Keeps, Apart, BalancerType, CallFits, CallLabels, Failed
  <1>6. CASE Advance(r)
    <2>1. /\ pc[r] = "next" /\ step[r] = "none" /\ pos[r] \in 1 .. Len(snapshot[r])
          /\ Len(order[r]) = Len(snapshot[r]) /\ Len(snapshot[r]) \in Nat
      BY <1>0, <1>6, CandidateIs DEF Advance
    <2>2. CASE pos[r] < Len(order[r])
      <3>1. pos'[r] \in 1 .. Len(snapshot[r]) /\ pos' \in [Threads -> Nat \ {0}]
        BY <1>0, <1>6, <2>1, <2>2 DEF Advance, BalancerType
      <3>2. /\ pc' = [pc EXCEPT ![r] = "try"]
            /\ \A s \in Requests : s # r => pos'[s] = pos[s]
            /\ UNCHANGED <<trackerVars, pool, current, snapshot, order, result>>
        BY <1>0, <1>6, <2>2, ThreadsAssumption DEF Advance, BalancerType
      <3>3. CallFits(r)'
        BY <1>0, <2>1, <3>1, <3>2 DEF BalancerType, CallFits, CallLabels, Failed, trackerVars
      <3>4. Apart(r) /\ BalancerType' /\ UNCHANGED trackerVars
        BY <1>0, <3>1, <3>2 DEF BalancerType, Apart, trackerVars
      <3> QED
        BY <3>3, <3>4 DEF Keeps
    <2>3. CASE ~ pos[r] < Len(order[r])
      <3>1. pos[r] = Len(snapshot[r])
        BY <2>1, <2>3
      <3>2. /\ pc' = [pc EXCEPT ![r] = "done"]
            /\ \A s \in Requests : s # r => result'[s] = result[s]
            /\ DOMAIN result' = Requests
            /\ UNCHANGED <<trackerVars, pool, current, snapshot, order, pos>>
        BY <1>0, <1>6, <2>3 DEF Advance, BalancerType
      <3>3. CallFits(r)'
        BY <1>0, <2>1, <3>1, <3>2 DEF BalancerType, CallFits, CallLabels, Failed, trackerVars
      <3>4. Apart(r) /\ BalancerType' /\ UNCHANGED trackerVars
        BY <1>0, <3>2 DEF BalancerType, Apart, trackerVars
      <3> QED
        BY <3>3, <3>4 DEF Keeps
    <2> QED
      BY <2>2, <2>3
  <1>7. CASE Return(r)
    BY <1>0, <1>7
       DEF Return, Keeps, Apart, BalancerType, CallFits, CallLabels, Failed, trackerVars
  <1>8. CASE TrackerStep(r) /\ UNCHANGED balVars
    <2>1. step[r] # "none" /\ TrackerNext /\ \A s \in Requests : s # r => step'[s] = step[s]
      BY <1>0, <1>8, OwnStep
    <2> QED
      BY <1>0, <1>8, <2>1 DEF balVars, Keeps, Apart, BalancerType, CallFits, CallLabels, Failed
  <1> QED
    BY <1>1, <1>2, <1>3, <1>4, <1>5, <1>6, <1>7, <1>8 DEF RequestStep

(* A step of the prober. *)
LEMMA ProberSteps ==
  ASSUME BalancerInv, ProbeRound \/ ProberStep
  PROVE  Keeps(Prober)
  <1>0. /\ IInv /\ BalancerType /\ Prober \in Threads /\ Prober \notin Requests
        /\ step \in [Threads -> Steps]
    BY ThreadsAssumption DEF BalancerInv, CallsFit, IInv, TrackerTypeOK
  <1> USE DEF Goto, settings, reqLocals, counters
  <1>1. CASE ProbeRound \/ ProbeEnd \/ ProberExits
    <2>1. UNCHANGED <<trackerVars, pool, current, order, result>>
      BY <1>1 DEF ProbeRound, ProbeEnd, ProberExits
    <2>2. /\ \A s \in Requests : pc'[s] = pc[s] /\ snapshot'[s] = snapshot[s] /\ pos'[s] = pos[s]
          /\ DOMAIN pc' = Threads
      BY <1>0, <1>1, ThreadsAssumption DEF ProbeRound, ProbeEnd, ProberExits, BalancerType
    <2>3. snapshot' \in [Threads -> Seq(Endpoints)] /\ pos' \in [Threads -> Nat \ {0}]
      <3>1. /\ snapshot' = snapshot \/ snapshot' = [snapshot EXCEPT ![Prober] = pool]
            /\ pos' = pos \/ pos' = [pos EXCEPT ![Prober] = 1]
        BY <1>1 DEF ProbeRound, ProbeEnd, ProberExits
      <3>2. snapshot' \in [Threads -> Seq(Endpoints)]
        BY <1>0, <3>1 DEF BalancerType
      <3>3. pos \in [Threads -> Nat \ {0}]
        BY <1>0 DEF BalancerType
      <3>4. pos' \in [Threads -> Nat \ {0}]
        BY <3>1, <3>3
      <3> QED
        BY <3>2, <3>4
    <2> QED
      BY <1>0, <2>1, <2>2, <2>3 DEF Keeps, Apart, BalancerType, trackerVars
  <1>2. CASE \E good \in BOOLEAN : Probe(good)
    <2>1. /\ pos' = [pos EXCEPT ![Prober] = @ + 1] /\ step[Prober] = "none"
          /\ UNCHANGED <<tracker, now, pool, current, pc, snapshot, order, result>>
          /\ Enter(Prober, MarkSuccess, Backend(Prober)) \/ UNCHANGED calls
          /\ pos[Prober] <= Len(snapshot[Prober])
      BY <1>2 DEF Probe, ProbeMore
    <2>2. Backend(Prober) \in Endpoints
      BY <1>0, <2>1 DEF Backend, BalancerType
    <2>3. [TrackerNext]_trackerVars /\ \A s \in Requests : step'[s] = step[s]
      BY <1>0, <2>1, <2>2, EnterRefines DEF calls, tracker, trackerVars
    <2>4. pos' \in [Threads -> Nat \ {0}] /\ \A s \in Requests : pos'[s] = pos[s]
      BY <1>0, <2>1, ThreadsAssumption DEF BalancerType
    <2> QED
      BY <1>0, <2>1, <2>3, <2>4 DEF Keeps, Apart, BalancerType
  <1>3. CASE TrackerStep(Prober) /\ UNCHANGED balVars
    BY <1>0, <1>3, OwnStep DEF balVars, Keeps, Apart, BalancerType
  <1> QED
    BY <1>1, <1>2, <1>3 DEF ProberStep

(* A step of the administration, or of the clock. *)
LEMMA AdminSteps ==
  ASSUME BalancerInv,
         \/ SetBackendPool \/ BeginReset \/ BeginClose \/ AdminStep
         \/ \E e \in Endpoints, w \in Weights : SetWeight(e, w)
         \/ Tick(MaxTime) /\ UNCHANGED balVars
  PROVE  Keeps(Admin)
  <1>0. /\ IInv /\ BalancerType /\ Admin \in Threads /\ Admin \notin Requests
        /\ step \in [Threads -> Steps] /\ now \in Nat
    BY ThreadsAssumption DEF BalancerInv, CallsFit, IInv, TrackerTypeOK
  <1> USE DEF Goto, settings, reqLocals, counters
  <1>1. CASE \/ SetBackendPool \/ BeginReset \/ BeginClose \/ EndClose
             \/ \E e \in Endpoints, w \in Weights : SetWeight(e, w)
    <2>1. UNCHANGED <<trackerVars, order, result>>
      BY <1>1 DEF SetBackendPool, BeginReset, BeginClose, EndClose, SetWeight
    <2>2. /\ \A s \in Requests : pc'[s] = pc[s] /\ snapshot'[s] = snapshot[s] /\ pos'[s] = pos[s]
          /\ DOMAIN pc' = Threads
      BY <1>0, <1>1, ThreadsAssumption
         DEF SetBackendPool, BeginReset, BeginClose, EndClose, SetWeight, BalancerType
    <2>3. snapshot' \in [Threads -> Seq(Endpoints)] /\ pos' \in [Threads -> Nat \ {0}]
      <3>1. /\ snapshot' = snapshot \/ snapshot' = [snapshot EXCEPT ![Admin] = pool]
            /\ pos' = pos \/ pos' = [pos EXCEPT ![Admin] = 1]
        BY <1>1 DEF SetBackendPool, BeginReset, BeginClose, EndClose, SetWeight
      <3>2. snapshot' \in [Threads -> Seq(Endpoints)]
        BY <1>0, <3>1 DEF BalancerType
      <3>3. pos \in [Threads -> Nat \ {0}]
        BY <1>0 DEF BalancerType
      <3>4. pos' \in [Threads -> Nat \ {0}]
        BY <3>1, <3>3
      <3> QED
        BY <3>2, <3>4
    <2>4. pool' \in Seq(Endpoints) \ {<<>>} /\ current' \in Nat
      BY <1>0, <1>1, PoolsAssumption
         DEF SetBackendPool, BeginReset, BeginClose, EndClose, SetWeight, BalancerType
    <2> QED
      BY <1>0, <2>1, <2>2, <2>3, <2>4 DEF Keeps, Apart, BalancerType, trackerVars
  <1>2. CASE ResetNext
    <2>1. /\ step[Admin] = "none"
          /\ UNCHANGED <<tracker, now, pool, current, snapshot, order, result>>
          /\ \/ /\ Enter(Admin, Reset, Backend(Admin)) /\ pos[Admin] <= Len(snapshot[Admin])
                /\ pos' = [pos EXCEPT ![Admin] = @ + 1] /\ pc' = pc
             \/ pc' = [pc EXCEPT ![Admin] = "idle"] /\ UNCHANGED <<calls, pos>>
      BY <1>2 DEF ResetNext
    <2>2. pos[Admin] <= Len(snapshot[Admin]) => Backend(Admin) \in Endpoints
      BY <1>0 DEF Backend, BalancerType
    <2>3. [TrackerNext]_trackerVars /\ \A s \in Requests : step'[s] = step[s]
      BY <1>0, <2>1, <2>2, EnterRefines DEF calls, tracker, trackerVars
    <2>4. pos' \in [Threads -> Nat \ {0}] /\ \A s \in Requests : pos'[s] = pos[s] /\ pc'[s] = pc[s]
      BY <1>0, <2>1, ThreadsAssumption DEF BalancerType
    <2> QED
      BY <1>0, <2>1, <2>3, <2>4 DEF Keeps, Apart, BalancerType
  <1>3. CASE TrackerStep(Admin) /\ UNCHANGED balVars
    BY <1>0, <1>3, OwnStep DEF balVars, Keeps, Apart, BalancerType
  <1>4. CASE Tick(MaxTime) /\ UNCHANGED balVars
    <2>1. now < now + 1
      BY <1>0
    <2>2. TrackerNext
      BY <1>4, <2>1 DEF TrackerNext, Tick
    <2> QED
      BY <1>0, <1>4, <2>2 DEF Tick, calls, balVars, Keeps, Apart, BalancerType
  <1> QED
    BY <1>1, <1>2, <1>3, <1>4 DEF AdminStep

(* The invariant is inductive, and every step of the balancer is one of the *)
(* trackers' callers, or leaves the trackers alone.                         *)
LEMMA BalancerNextInv ==
  ASSUME BalancerInv, [Next]_vars
  PROVE  BalancerInv' /\ [TrackerNext]_trackerVars
  <1>1. ASSUME NEW t \in Threads, Keeps(t) PROVE BalancerInv' /\ [TrackerNext]_trackerVars
    <2>1. IInv'
      BY <1>1, NextIInv DEF BalancerInv, Keeps
    <2>2. \A s \in Requests : s # t => CallFits(s)'
      BY <1>1, ApartFits DEF BalancerInv, CallsFit, Keeps
    <2> QED
      BY <1>1, <2>1, <2>2 DEF BalancerInv, CallsFit, Keeps
  <1>2. CASE \E r \in Requests : RequestStep(r)
    BY <1>1, <1>2, CallSteps, ThreadsAssumption
  <1>3. CASE ProbeRound \/ ProberStep
    BY <1>1, <1>3, ProberSteps, ThreadsAssumption
  <1>4. CASE \/ SetBackendPool \/ BeginReset \/ BeginClose \/ AdminStep
             \/ \E e \in Endpoints, w \in Weights : SetWeight(e, w)
             \/ Tick(MaxTime) /\ UNCHANGED balVars
    BY <1>1, <1>4, AdminSteps, ThreadsAssumption
  <1>5. CASE UNCHANGED vars
    <2>1. UNCHANGED trackerVars /\ UNCHANGED balVars
      BY <1>5 DEF vars
    <2>2. IInv'
      BY <2>1, NextIInv DEF BalancerInv
    <2>3. Apart(Prober) /\ BalancerType'
      BY <2>1 DEF BalancerInv, CallsFit, BalancerType, Apart, balVars, trackerVars
    <2> QED
      BY <2>1, <2>2, <2>3, ApartFits, ThreadsAssumption DEF BalancerInv, CallsFit
  <1> QED
    BY <1>2, <1>3, <1>4, <1>5 DEF Next

(* The load balancer calls the trackers as any callers may: what is proved  *)
(* of them holds under its requests, its prober and its administration.     *)
THEOREM BalancerCallsTrackers == Spec => TrackerSpec
  <1>1. Init => TrackerInit
    BY DEF Init
  <1> QED
    BY <1>1, BalancerStarts, BalancerNextInv, PTL DEF Spec, TrackerSpec

(* The backend a call tries j-th. *)
Nth(r, j) == snapshot[r][order[r][j]]

(* No request carries a body, so a solid backend never fails: it is in      *)
(* rotation, and no failure of it is on its way into the tracker.           *)
SolidWell ==
  /\ spent = {}
  /\ \A e \in Endpoints \cap Solid :
       ~unhealthy[e] /\ \A t \in Threads : In(t, e) => step[t] \in Steps \ FailSteps

(* A call goes on to its next attempt only past a backend that is not solid. *)
PassedOver(r) ==
  /\ pc[r] \in {"cool", "next"} => Nth(r, pos[r]) \notin Solid
  /\ pc[r] \in {"try", "cool", "exchange", "next"} \/ Failed(r) =>
       \A j \in 1 .. pos[r] - 1 : Nth(r, j) \notin Solid
  /\ Failed(r) => Nth(r, pos[r]) \notin Solid

ServesInv == SolidWell /\ \A r \in Requests : PassedOver(r)

LEMMA ServesStarts == Init => ServesInv
  <1> SUFFICES ASSUME Init PROVE ServesInv
    OBVIOUS
  <1>1. SolidWell
    BY ThreadsAssumption DEF Init, SolidWell, TrackerInit, In
  <1>2. \A r \in Requests : PassedOver(r)
    BY ThreadsAssumption DEF Init, PassedOver, Failed
  <1> QED
    BY <1>1, <1>2 DEF ServesInv

(* The calls that a step of t leaves alone have passed over what they had.  *)
LEMMA ApartPassed ==
  ASSUME NEW t \in Threads, Apart(t), NEW s \in Requests, s # t, PassedOver(s)
  PROVE  PassedOver(s)'
  <1>1. /\ pc'[s] = pc[s] /\ snapshot'[s] = snapshot[s] /\ order'[s] = order[s]
        /\ pos'[s] = pos[s] /\ result'[s] = result[s]
    BY DEF Apart
  <1> QED
    BY <1>1 DEF PassedOver, Failed, Nth

(* The solid backends stay well under a goroutine that starts a method on   *)
(* one only to report a success or to reset it.                             *)
LEMMA EnterWell ==
  ASSUME IInv, SolidWell, NEW t \in Threads, NEW m \in {MarkFailed, MarkSuccess, Reset},
         NEW e0 \in Endpoints, Enter(t, m, e0), e0 \in Solid => m # MarkFailed,
         UNCHANGED <<tracker, now>>, spent' = {}
  PROVE  SolidWell'
  <1>1. /\ step \in [Threads -> Steps] /\ target \in [Threads -> Endpoints]
        /\ unhealthy' = unhealthy
    BY DEF IInv, TrackerTypeOK, tracker
  <1>2. /\ step'[t] = m /\ target'[t] = e0
        /\ \A u \in Threads : u # t => step'[u] = step[u] /\ target'[u] = target[u]
    BY <1>1 DEF Enter
  <1>3. m # MarkFailed => m \in Steps \ FailSteps
    BY DEF MarkFailed, MarkSuccess, Reset, Steps, FailSteps
  <1>4. \A u \in Threads, e \in Endpoints \cap Solid : In(u, e)' => step'[u] \in Steps \ FailSteps
    BY <1>1, <1>2, <1>3 DEF SolidWell, In
  <1> QED
    BY <1>1, <1>4 DEF SolidWell

LEMMA StepWell ==
  ASSUME IInv, SolidWell, NEW t \in Threads, TrackerStep(t), spent' = {}
  PROVE  SolidWell'
  <1>0. TrackerTypeOK /\ target[t] \in Endpoints
    BY DEF IInv, TrackerTypeOK
  <1>1. PICK l \in Steps : /\ step[t] # "none" /\ Goes(t, l)
                           /\ step[t] \notin FailSteps => l \notin FailSteps
    BY DEF TrackerStep, FailAdd, FailClock, FailStore, FailCAS, SuccessStore, SuccessCAS,
           ResetCount, ResetTime, ResetCAS, Steps, FailSteps
  <1>2. /\ step' \in [Threads -> Steps] /\ target' \in [Threads -> Endpoints]
        /\ In(t, target[t]) /\ step'[t] = l
        /\ l # "none" => target'[t] = target[t]
        /\ \A u \in Threads : u # t => step'[u] = step[u] /\ target'[u] = target[u]
    BY <1>0, <1>1, IdleType DEF Goes, TrackerTypeOK, In
  <1>3. \A u \in Threads, e \in Endpoints \cap Solid : In(u, e)' => step'[u] \in Steps \ FailSteps
    BY <1>0, <1>1, <1>2 DEF SolidWell, In
  <1>4. \A e \in Endpoints \cap Solid : ~unhealthy'[e]
    <2> TAKE e \in Endpoints \cap Solid
    <2>1. ~unhealthy[e] /\ (target[t] = e => step[t] \notin FailSteps)
      BY <1>0, <1>1 DEF SolidWell, In
    <2>2. CASE FailCAS(t)
      BY <1>0, <2>1, <2>2 DEF FailCAS, FailSteps, TrackerTypeOK
    <2>3. CASE SuccessCAS(t) \/ ResetCAS(t)
      BY <1>0, <2>1, <2>3 DEF SuccessCAS, ResetCAS, Recovered, TrackerTypeOK
    <2>4. CASE unhealthy' = unhealthy
      BY <2>1, <2>4
    <2> QED
      BY <2>2, <2>3, <2>4
         DEF TrackerStep, FailAdd, FailClock, FailStore, SuccessStore, ResetCount, ResetTime, tracker
  <1> QED
    BY <1>3, <1>4 DEF SolidWell

(* Nothing on the trackers moves, and they stay well. *)
LEMMA StillWell ==
  ASSUME SolidWell, UNCHANGED trackerVars \/ Tick(MaxTime), spent' = {}
  PROVE  SolidWell'
  <1>1. unhealthy' = unhealthy /\ step' = step /\ target' = target
    BY DEF trackerVars, Tick, tracker, calls
  <1> QED
    BY <1>1 DEF SolidWell, In

(* A step of a call passes over no solid backend. *)
LEMMA CallServes ==
  ASSUME WithBody = {}, BalancerInv, SolidWell, NEW r \in Requests, PassedOver(r), RequestStep(r)
  PROVE  SolidWell' /\ PassedOver(r)'
  <1>0. /\ IInv /\ CallsFit /\ BalancerType /\ CallFits(r) /\ r \in Threads
        /\ pos[r] \in Nat \ {0} /\ spent = {}
    BY ThreadsAssumption DEF BalancerInv, CallsFit, BalancerType, SolidWell
  <1>a. pc[r] \notin {"idle", "order"} =>
          /\ Candidate(r) \in Endpoints /\ Candidate(r) = Nth(r, pos[r])
          /\ Len(order[r]) = Len(snapshot[r])
    BY <1>0, CandidateIs DEF Candidate, Nth
  <1>b. pc[r] # "done" => result[r] = "none"
    BY <1>0 DEF CallFits
  <1> USE DEF Goto, settings, reqLocals, counters
  <1>1. CASE Capture(r)
    <2>1. /\ UNCHANGED trackerVars /\ spent' = spent /\ result' = result
          /\ pc[r] = "idle" /\ pc'[r] = "order"
      BY <1>0, <1>1 DEF Capture, BalancerType
    <2> QED
      BY <1>0, <1>b, <2>1, StillWell DEF PassedOver, Failed
  <1>2. CASE BuildOrder(r)
    <2>1. /\ UNCHANGED trackerVars /\ spent' = spent /\ result' = result /\ pos' = pos
          /\ pc[r] = "order" /\ pc'[r] = "try"
      BY <1>0, <1>2 DEF BuildOrder, BalancerType
    <2>2. pos'[r] - 1 = 0
      BY <1>0, <2>1 DEF CallFits
    <2>3. SolidWell' /\ ~Failed(r)'
      BY <1>0, <1>b, <2>1, StillWell DEF Failed
    <2>4. \A j \in 1 .. pos'[r] - 1 : FALSE
      BY <2>2
    <2> QED
      BY <2>1, <2>3, <2>4 DEF PassedOver
  <1>3. CASE LoadUnhealthy(r) \/ LoadRecoveredAt(r)
    <2>1. /\ UNCHANGED <<trackerVars, spent, result, pos, order, snapshot>>
          /\ pc[r] \in {"try", "cool"} /\ pc'[r] \in {"cool", "exchange", "selected", "next"}
          /\ pc'[r] = "cool" => unhealthy[Candidate(r)]
          /\ pc'[r] = "next" => pc[r] = "cool"
      BY <1>0, <1>3 DEF LoadUnhealthy, LoadRecoveredAt, Chosen, BalancerType
    <2>2. pc'[r] = "cool" => Candidate(r) \notin Solid
      BY <1>a, <2>1 DEF SolidWell
    <2>3. SolidWell'
      BY <1>0, <2>1, StillWell
    <2>4. pc'[r] = "next" => Nth(r, pos[r]) \notin Solid
      BY <2>1 DEF PassedOver
    <2>5. pc'[r] # "selected" => \A j \in 1 .. pos[r] - 1 : Nth(r, j) \notin Solid
      BY <2>1 DEF PassedOver
    <2>6. ~Failed(r)' /\ (pc'[r] = "cool" => Nth(r, pos[r]) \notin Solid)
      BY <1>a, <1>b, <2>1, <2>2 DEF Failed
    <2>7. PassedOver(r)'
      BY <2>1, <2>4, <2>5, <2>6 DEF PassedOver, Nth
    <2> QED
      BY <2>3, <2>7
  <1>4. CASE RejectURL(r) \/ \E out \in {"response", "cancelled", "error", "5xx"} : Exchange(r, out)
    <2>1. PICK m \in {MarkFailed, MarkSuccess, Reset} :
            /\ pc[r] = "exchange" /\ pc'[r] = (IF m = MarkFailed THEN "next" ELSE "selected")
            /\ Enter(r, m, Candidate(r)) /\ UNCHANGED <<tracker, now>>
            /\ UNCHANGED <<snapshot, order, pos, result>> /\ spent' = {}
            /\ m = MarkFailed => Candidate(r) \notin Solid
      <3>1. CASE RejectURL(r)
        BY <1>0, <3>1, PoolsAssumption DEF RejectURL, BalancerType
      <3>2. ASSUME NEW out \in {"response", "cancelled", "error", "5xx"}, Exchange(r, out)
            PROVE  \E m \in {MarkFailed, MarkSuccess, Reset} :
                     /\ pc[r] = "exchange" /\ pc'[r] = (IF m = MarkFailed THEN "next" ELSE "selected")
                     /\ Enter(r, m, Candidate(r)) /\ UNCHANGED <<tracker, now>>
                     /\ UNCHANGED <<snapshot, order, pos, result>> /\ spent' = {}
                     /\ m = MarkFailed => Candidate(r) \notin Solid
        <4>1. IsFault(out) => Candidate(r) \notin Solid
          BY <1>0, <3>2 DEF Exchange, Answers, IsFault
        <4>2. spent' = {}
          BY <1>0, <3>2 DEF Exchange
        <4> QED
          BY <1>0, <3>2, <4>1, <4>2 DEF Exchange, BalancerType, MarkFailed, MarkSuccess
      <3> QED
        BY <1>4, <3>1, <3>2
    <2>2. SolidWell'
      BY <1>0, <1>a, <2>1, EnterWell
    <2>3. ~Failed(r)' /\ (pc'[r] = "next" => Nth(r, pos[r]) \notin Solid)
      BY <1>a, <1>b, <2>1 DEF Failed
    <2>4. \A j \in 1 .. pos[r] - 1 : Nth(r, j) \notin Solid
      BY <2>1 DEF PassedOver
    <2>5. PassedOver(r)'
      BY <2>1, <2>3, <2>4 DEF PassedOver, Nth
    <2> QED
      BY <2>2, <2>5
  <1>5. CASE Advance(r)
    <2>1. UNCHANGED <<trackerVars, spent, order, snapshot>> /\ pc[r] = "next"
      BY <1>5 DEF Advance
    <2>2. \A j \in Nat : Nth(r, j)' = Nth(r, j)
      BY <2>1 DEF Nth
    <2>3. SolidWell'
      BY <1>0, <2>1, StillWell
    <2>4. \A j \in 1 .. pos[r] : Nth(r, j) \notin Solid
      BY <1>0, <2>1 DEF PassedOver
    <2>5. CASE pos[r] < Len(order[r])
      <3>1. pc'[r] = "try" /\ pos'[r] = pos[r] + 1 /\ result' = result
        BY <1>0, <1>5, <2>5 DEF Advance, BalancerType
      <3>2. \A j \in 1 .. pos'[r] - 1 : Nth(r, j)' \notin Solid
        BY <1>0, <2>2, <2>4, <3>1
      <3> QED
        BY <1>b, <2>1, <2>3, <3>1, <3>2 DEF PassedOver, Failed
    <2>6. CASE ~ pos[r] < Len(order[r])
      <3>1. pc'[r] = "done" /\ pos' = pos
        BY <1>0, <1>5, <2>6 DEF Advance, BalancerType
      <3>2. /\ \A j \in 1 .. pos[r] - 1 : Nth(r, j) \notin Solid
            /\ Nth(r, pos[r]) \notin Solid
        BY <1>0, <2>4
      <3>3. PassedOver(r)'
        BY <2>1, <3>1, <3>2 DEF PassedOver, Nth
      <3> QED
        BY <2>3, <3>3
    <2> QED
      BY <2>5, <2>6
  <1>6. CASE Return(r)
    <2>1. /\ UNCHANGED trackerVars /\ spent' = spent /\ result'[r] = "backend" /\ pc'[r] = "done"
      BY <1>0, <1>6 DEF Return, BalancerType
    <2> QED
      BY <1>0, <2>1, StillWell DEF PassedOver, Failed
  <1>7. CASE TrackerStep(r) /\ UNCHANGED balVars
    <2>1. UNCHANGED <<pc, snapshot, order, pos, result, spent>>
      BY <1>7 DEF balVars
    <2>2. SolidWell'
      BY <1>0, <1>7, <2>1, StepWell
    <2> QED
      BY <2>1, <2>2 DEF PassedOver, Failed, Nth
  <1> QED
    BY <1>1, <1>2, <1>3, <1>4, <1>5, <1>6, <1>7 DEF RequestStep

(* Neither the prober, nor the administration, nor the clock harms a solid  *)
(* backend.                                                                 *)
LEMMA OthersServe ==
  ASSUME BalancerInv, SolidWell,
         \/ ProbeRound \/ ProberStep
         \/ SetBackendPool \/ BeginReset \/ BeginClose \/ AdminStep
         \/ \E e \in Endpoints, w \in Weights : SetWeight(e, w)
         \/ Tick(MaxTime) /\ UNCHANGED balVars
  PROVE  SolidWell'
  <1>0. IInv /\ BalancerType /\ Prober \in Threads /\ Admin \in Threads /\ spent = {}
    BY ThreadsAssumption DEF BalancerInv, CallsFit, SolidWell
  <1>1. spent' = {}
    BY <1>0
       DEF ProbeRound, ProberStep, Probe, ProbeEnd, ProberExits, SetBackendPool, BeginReset,
           BeginClose, AdminStep, ResetNext, EndClose, SetWeight, balVars, reqLocals
  <1>2. CASE \E t \in {Prober, Admin} : TrackerStep(t)
    BY <1>0, <1>1, <1>2, StepWell
  <1>3. CASE \E good \in BOOLEAN : Probe(good)
    <2>1. /\ UNCHANGED <<tracker, now>> /\ pos[Prober] <= Len(snapshot[Prober])
          /\ Enter(Prober, MarkSuccess, Backend(Prober)) \/ UNCHANGED calls
      BY <1>3 DEF Probe, ProbeMore
    <2>2. Backend(Prober) \in Endpoints
      BY <1>0, <2>1 DEF Backend, BalancerType
    <2>3. MarkSuccess # MarkFailed
      BY DEF MarkSuccess, MarkFailed
    <2>4. UNCHANGED calls => UNCHANGED trackerVars
      BY <2>1 DEF calls, tracker, trackerVars
    <2> QED
      BY <1>0, <1>1, <2>1, <2>2, <2>3, <2>4, EnterWell, StillWell
  <1>4. CASE ResetNext
    <2>1. /\ UNCHANGED <<tracker, now>>
          /\ \/ Enter(Admin, Reset, Backend(Admin)) /\ pos[Admin] <= Len(snapshot[Admin])
             \/ UNCHANGED calls
      BY <1>4 DEF ResetNext
    <2>2. pos[Admin] <= Len(snapshot[Admin]) => Backend(Admin) \in Endpoints
      BY <1>0 DEF Backend, BalancerType
    <2>3. Reset # MarkFailed
      BY DEF Reset, MarkFailed
    <2>4. UNCHANGED calls => UNCHANGED trackerVars
      BY <2>1 DEF calls, tracker, trackerVars
    <2> QED
      BY <1>0, <1>1, <2>1, <2>2, <2>3, <2>4, EnterWell, StillWell
  <1>5. CASE UNCHANGED trackerVars \/ Tick(MaxTime)
    BY <1>1, <1>5, StillWell
  <1> QED
    BY <1>2, <1>3, <1>4, <1>5
       DEF ProbeRound, ProberStep, ProbeEnd, ProberExits, SetBackendPool, BeginReset,
           BeginClose, AdminStep, EndClose, SetWeight

LEMMA ServesNextInv ==
  ASSUME WithBody = {}, BalancerInv, ServesInv, [Next]_vars
  PROVE  ServesInv'
  <1>1. CASE \E r \in Requests : RequestStep(r)
    <2>1. PICK r \in Requests : RequestStep(r)
      BY <1>1
    <2>2. SolidWell' /\ PassedOver(r)' /\ Apart(r) /\ r \in Threads
      BY <2>1, CallServes, CallSteps, ThreadsAssumption DEF ServesInv, Keeps
    <2>3. \A s \in Requests : s # r => PassedOver(s)'
      BY <2>2, ApartPassed DEF ServesInv
    <2> QED
      BY <2>2, <2>3 DEF ServesInv
  <1>2. CASE \/ ProbeRound \/ ProberStep
             \/ SetBackendPool \/ BeginReset \/ BeginClose \/ AdminStep
             \/ \E e \in Endpoints, w \in Weights : SetWeight(e, w)
             \/ Tick(MaxTime) /\ UNCHANGED balVars
    <2>1. SolidWell'
      BY <1>2, OthersServe DEF ServesInv
    <2>2. Apart(Prober) \/ Apart(Admin)
      BY <1>2, ProberSteps, AdminSteps DEF Keeps
    <2> QED
      BY <2>1, <2>2, ApartPassed, ThreadsAssumption DEF ServesInv
  <1>3. CASE UNCHANGED vars
    <2>1. UNCHANGED trackerVars /\ UNCHANGED <<pc, snapshot, order, pos, result, spent>>
      BY <1>3 DEF vars, balVars
    <2>2. SolidWell'
      BY <2>1, StillWell DEF ServesInv, SolidWell
    <2> QED
      BY <2>1, <2>2 DEF ServesInv, PassedOver, Failed, Nth
  <1> QED
    BY <1>1, <1>2, <1>3 DEF Next

(* A call that failed went through an order that covers what it captured.   *)
LEMMA FailedTriedAll ==
  ASSUME BalancerInv, ServesInv
  PROVE  FailoverServes
  <1> SUFFICES ASSUME NEW r \in Requests
               PROVE  /\ Range(order[r]) \subseteq DOMAIN snapshot[r]
                      /\ Failed(r) => /\ Range(snapshot[r]) \cap Solid = {}
                                      /\ Tried(r) = DOMAIN snapshot[r]
    BY DEF FailoverServes
  <1> DEFINE n == Len(snapshot[r])
  <1>1. CallFits(r) /\ snapshot[r] \in Seq(Endpoints) /\ PassedOver(r)
    BY ThreadsAssumption DEF BalancerInv, CallsFit, BalancerType, ServesInv
  <1>2. n \in Nat /\ DOMAIN snapshot[r] = 1 .. n /\ Range(snapshot[r]) = {snapshot[r][k] : k \in 1 .. n}
    BY <1>1 DEF Range
  <1>3. CASE pc[r] \in {"idle", "order"}
    <2>1. order[r] = <<>> /\ ~Failed(r)
      BY <1>1, <1>3 DEF CallFits, Failed
    <2>2. Range(order[r]) = {}
      BY <2>1 DEF Range
    <2> QED
      BY <2>1, <2>2
  <1>4. CASE pc[r] \notin {"idle", "order"}
    <2>1. order[r] \in Perms(n) /\ Range(order[r]) = 1 .. n
      BY <1>1, <1>2, <1>4, OrderFacts DEF CallFits
    <2>2. \A k \in 1 .. n : \E j \in 1 .. n : order[r][j] = k
      BY <1>2, <2>1, OrderFacts
    <2>3. \A j \in 1 .. n : order[r][j] \in 1 .. n
      BY <1>2, <2>1, OrderFacts
    <2>4. ASSUME Failed(r)
          PROVE  Range(snapshot[r]) \cap Solid = {} /\ Tried(r) = DOMAIN snapshot[r]
      <3>1. pos[r] = n /\ \A j \in 1 .. n : Nth(r, j) \notin Solid
        BY <1>1, <1>2, <2>4 DEF CallFits, PassedOver
      <3>2. \A k \in 1 .. n : snapshot[r][k] \notin Solid
        BY <2>2, <3>1 DEF Nth
      <3>3. Tried(r) = {order[r][j] : j \in 1 .. n}
        BY <3>1 DEF Tried
      <3>4. Tried(r) = 1 .. n
        BY <2>2, <2>3, <3>3
      <3> QED
        BY <1>2, <3>2, <3>4
    <2> QED
      BY <1>2, <2>1, <2>4
  <1> QED
    BY <1>3, <1>4

(* Whichever strategy orders the attempts, however the pool is replaced and *)
(* the trackers are marked meanwhile: when no request carries a body, a     *)
(* call fails only after every backend it captured had its turn, and over   *)
(* none that answers every request.                                         *)
THEOREM BalancerFailsOver ==
  ASSUME WithBody = {}
  PROVE  Spec => []FailoverServes
  <1>1. Init => BalancerInv /\ ServesInv
    BY BalancerStarts, ServesStarts
  <1>2. BalancerInv /\ ServesInv /\ [Next]_vars => (BalancerInv /\ ServesInv)'
    BY BalancerNextInv, ServesNextInv
  <1>3. BalancerInv /\ ServesInv => FailoverServes
    BY FailedTriedAll
  <1> QED
    BY <1>1, <1>2, <1>3, PTL DEF Spec

(* Calls that took their order. *)
Started == {r \in Requests : order[r] # <<>>}

(* As long as the first pool is in place, every call captured it, the       *)
(* cursor counted the calls that started, and each start is at a ticket.    *)
TicketsFit ==
  strategy = "RoundRobin" /\ pool = FirstPool =>
    /\ \A r \in Requests : pc[r] # "idle" => snapshot[r] = FirstPool
    /\ current = Cardinality(Started)
    /\ \A r \in Started : \E k \in 1 .. current : order[r][1] = (k % Len(FirstPool)) + 1

SpreadInv == TicketsFit /\ RoundRobinSpreads

(* The n tickets of one turn lead to n places. *)
LEMMA TicketsApart ==
  ASSUME NEW n \in Nat \ {0}, NEW k \in 1 .. n, NEW c \in 1 .. n, k < c
  PROVE  k % n # c % n
  <1>1. k \in Nat /\ k \in 0 .. n - 1 /\ c \in Nat /\ Turns(k, n, 0, k)
    BY DEF Turns
  <1>2. k % n = k
    BY <1>1, Remainder
  <1>3. CASE c = n
    <2>1. PICK a \in Nat, b \in 0 .. n - 1 : a = 1 /\ b = 0
      OBVIOUS
    <2>2. Turns(c, n, a, b)
      BY <1>3, <2>1 DEF Turns
    <2>3. c % n = 0
      BY <1>1, <2>1, <2>2, Remainder
    <2> QED
      BY <1>2, <2>3
  <1>4. CASE c # n
    <2>1. c \in 0 .. n - 1 /\ Turns(c, n, 0, c)
      BY <1>4 DEF Turns
    <2>2. c % n = c
      BY <1>1, <2>1, Remainder
    <2> QED
      BY <1>2, <2>2
  <1> QED
    BY <1>3, <1>4

LEMMA SpreadStarts == Init => SpreadInv
  <1> SUFFICES ASSUME Init PROVE SpreadInv
    OBVIOUS
  <1>1. Started = {}
    BY DEF Init, Started
  <1>2. TicketsFit
    BY <1>1, FS_EmptySet, ThreadsAssumption DEF Init, TicketsFit
  <1>3. RoundRobinSpreads
    BY DEF Init, RoundRobinSpreads
  <1> QED
    BY <1>2, <1>3 DEF SpreadInv

(* A call that takes a ticket starts at a place no other one has. *)
LEMMA BuildSpreads ==
  ASSUME IsFiniteSet(Requests), BalancerInv, SpreadInv, NEW r \in Requests, BuildOrder(r)
  PROVE  SpreadInv'
  <1>0. /\ BalancerType /\ CallFits(r) /\ r \in Threads
        /\ pc[r] = "order" /\ order[r] = <<>> /\ pool' = pool /\ strategy' = strategy
        /\ snapshot' = snapshot /\ \A s \in Requests : pc'[s] # "idle" => pc[s] # "idle"
    BY ThreadsAssumption
       DEF BalancerInv, CallsFit, CallFits, BuildOrder, BalancerType, settings, Goto
  <1>1. CASE ~(strategy = "RoundRobin" /\ pool = FirstPool)
    BY <1>0, <1>1 DEF SpreadInv, TicketsFit, RoundRobinSpreads
  <1>2. CASE strategy = "RoundRobin" /\ pool = FirstPool
    <2> DEFINE n == Len(FirstPool)
    <2>1. /\ snapshot[r] = FirstPool /\ n \in Nat \ {0} /\ current \in Nat
          /\ current' = current + 1 /\ current = Cardinality(Started)
          /\ order' = [order EXCEPT ![r] = RoundRobinOrder(n, current + 1)]
      BY <1>0, <1>2, PoolsAssumption
         DEF SpreadInv, TicketsFit, BalancerType, BuildOrder, Ticket, BackendCount
    <2>2. order'[r][1] = ((current + 1) % n) + 1 /\ order'[r] # <<>>
      <3>1. RoundRobinOrder(n, current + 1) \in Perms(n) /\ current + 1 \in Nat
        BY <2>1, RoundRobinCovers
      <3>2. Len(RoundRobinOrder(n, current + 1)) = n
        BY <2>1, <3>1, OrderFacts
      <3>3. RoundRobinOrder(n, current + 1)[1] = ((current + 1 + 1 - 1) % n) + 1
        BY <2>1 DEF RoundRobinOrder
      <3>4. current + 1 + 1 - 1 = current + 1
        BY <2>1
      <3>5. order'[r] = RoundRobinOrder(n, current + 1)
        BY <1>0, <2>1 DEF BalancerType
      <3>6. RoundRobinOrder(n, current + 1) # <<>>
        BY <2>1, <3>2
      <3> QED
        BY <3>3, <3>4, <3>5, <3>6
    <2>3. \A s \in Requests : s # r => order'[s] = order[s]
      BY <1>0, <2>1 DEF BalancerType
    <2>4. Started' = Started \cup {r} /\ r \notin Started /\ Started' \subseteq Requests
      BY <1>0, <2>2, <2>3 DEF Started
    <2>5. /\ IsFiniteSet(Started) /\ Cardinality(Started') = Cardinality(Started) + 1
          /\ Cardinality(Started') <= Cardinality(Requests)
      <3>1. IsFiniteSet(Started)
        BY FS_Subset DEF Started
      <3>2. Cardinality(Started') <= Cardinality(Requests)
        BY <2>4, FS_Subset
      <3> QED
        BY <2>4, <3>1, <3>2, FS_AddElement
    <2>6. \A s \in Started : \E k \in 1 .. current : order[s][1] = (k % n) + 1
      BY <1>2 DEF SpreadInv, TicketsFit
    <2> HIDE DEF n
    <2>7. \A s \in Started' : \E k \in 1 .. current' : order'[s][1] = (k % n) + 1
      <3>1. current' \in 1 .. current' /\ \A k \in 1 .. current : k \in 1 .. current'
        BY <2>1
      <3> QED
        BY <2>1, <2>2, <2>3, <2>4, <2>6, <3>1
    <2>8. TicketsFit'
      <3>1. \A s \in Requests : pc'[s] # "idle" => snapshot'[s] = FirstPool
        BY <1>0, <1>2 DEF SpreadInv, TicketsFit
      <3>2. current' = Cardinality(Started')
        BY <2>1, <2>5
      <3> QED
        BY <2>7, <3>1, <3>2 DEF TicketsFit, n
    <2>9. ASSUME Cardinality(Requests) <= n, NEW s \in Started PROVE order'[s][1] # order'[r][1]
      <3>1. PICK k \in 1 .. current : order[s][1] = (k % n) + 1
        BY <2>6, <2>9
      <3>2. Cardinality(Requests) \in Nat
        BY FS_CardinalityType
      <3>3. current + 1 <= n
        BY <2>1, <2>5, <2>9, <3>2
      <3>4. k \in 1 .. n /\ current + 1 \in 1 .. n /\ k < current + 1
        BY <2>1, <3>3
      <3>5. k % n # (current + 1) % n /\ k % n \in Nat /\ (current + 1) % n \in Nat
        BY <2>1, <3>4, TicketsApart
      <3>6. (k % n) + 1 # ((current + 1) % n) + 1
        BY <3>5
      <3>7. order'[s] = order[s]
        BY <2>3, <2>4, <2>9 DEF Started
      <3> QED
        BY <2>2, <3>1, <3>6, <3>7
    <2>10. RoundRobinSpreads'
      <3> SUFFICES ASSUME Cardinality(Requests) <= n,
                          NEW s \in Requests, NEW u \in Requests, s # u,
                          order'[s] # <<>>, order'[u] # <<>>
                   PROVE  order'[s][1] # order'[u][1]
        BY DEF RoundRobinSpreads, n
      <3>1. s \in Started' /\ u \in Started'
        BY DEF Started
      <3>2. CASE s # r /\ u # r
        BY <1>2, <2>3, <3>2 DEF SpreadInv, RoundRobinSpreads, n
      <3>3. CASE s = r \/ u = r
        BY <2>4, <2>9, <3>1, <3>3
      <3> QED
        BY <3>2, <3>3
    <2> QED
      BY <2>8, <2>10 DEF SpreadInv
  <1> QED
    BY <1>1, <1>2

(* Every other step leaves the tickets and the orders alone, and captures   *)
(* the pool in place or replaces it.                                        *)
LEMMA OthersSpread ==
  ASSUME FirstPool # SecondPool, BalancerInv, SpreadInv, strategy' = strategy, order' = order,
         \A r \in Requests : pc'[r] # "idle" =>
           \/ snapshot'[r] = pool
           \/ pc[r] # "idle" /\ snapshot'[r] = snapshot[r],
         UNCHANGED <<pool, current>> \/ pool' = SecondPool
  PROVE  SpreadInv'
  <1>1. Started' = Started
    BY DEF Started
  <1>2. CASE strategy = "RoundRobin" /\ pool' = FirstPool
    BY <1>1, <1>2 DEF SpreadInv, TicketsFit, RoundRobinSpreads
  <1>3. CASE ~(strategy = "RoundRobin" /\ pool' = FirstPool)
    BY <1>3 DEF SpreadInv, TicketsFit, RoundRobinSpreads
  <1> QED
    BY <1>2, <1>3

LEMMA SpreadNextInv ==
  ASSUME IsFiniteSet(Requests), FirstPool # SecondPool, BalancerInv, SpreadInv, [Next]_vars
  PROVE  SpreadInv'
  <1>0. BalancerType /\ Requests \subseteq Threads /\ Prober \notin Requests /\ Admin \notin Requests
    BY ThreadsAssumption DEF BalancerInv, CallsFit
  <1> USE DEF Goto, settings, reqLocals, counters, balVars
  <1>1. CASE \E r \in Requests : BuildOrder(r)
    BY <1>1, BuildSpreads
  <1>2. CASE \E r \in Requests : Capture(r)
    <2>1. PICK r \in Requests : Capture(r)
      BY <1>2
    <2>2. /\ UNCHANGED <<strategy, order, pool, current>> /\ snapshot'[r] = pool
          /\ \A s \in Requests : s # r => pc'[s] = pc[s] /\ snapshot'[s] = snapshot[s]
      BY <1>0, <2>1 DEF Capture, BalancerType
    <2> QED
      BY <2>2, OthersSpread
  <1>3. ASSUME NEW r \in Requests,
               \/ LoadUnhealthy(r) \/ LoadRecoveredAt(r) \/ RejectURL(r)
               \/ \E out \in {"response", "cancelled", "error", "5xx"} : Exchange(r, out)
               \/ Advance(r) \/ Return(r)
        PROVE  SpreadInv'
    <2>1. /\ UNCHANGED <<strategy, order, snapshot, pool, current>>
          /\ pc[r] # "idle" /\ \A s \in Requests : s # r => pc'[s] = pc[s]
      BY <1>0, <1>3
         DEF LoadUnhealthy, LoadRecoveredAt, RejectURL, Exchange, Advance, Return, BalancerType
    <2> QED
      BY <2>1, OthersSpread
  <1>4. CASE ProbeRound \/ BeginReset
    <2>1. UNCHANGED <<strategy, order, pool, current>>
      BY <1>4 DEF ProbeRound, BeginReset
    <2>2. \A s \in Requests : pc'[s] = pc[s] /\ snapshot'[s] = snapshot[s]
      BY <1>0, <1>4 DEF ProbeRound, BeginReset, BalancerType
    <2> QED
      BY <2>1, <2>2, OthersSpread
  <1>5. CASE \/ ProbeEnd \/ ProberExits \/ BeginClose \/ EndClose
             \/ ResetNext \/ \E good \in BOOLEAN : Probe(good)
    <2>1. UNCHANGED <<strategy, order, snapshot, pool, current>>
      BY <1>5 DEF ProbeEnd, ProberExits, BeginClose, EndClose, ResetNext, Probe
    <2>2. \A s \in Requests : pc'[s] = pc[s]
      BY <1>0, <1>5 DEF ProbeEnd, ProberExits, BeginClose, EndClose, ResetNext, Probe, BalancerType
    <2> QED
      BY <2>1, <2>2, OthersSpread
  <1>6. CASE SetBackendPool \/ \E e \in Endpoints, w \in Weights : SetWeight(e, w)
    <2>1. UNCHANGED <<strategy, order, snapshot, pc>> /\ (UNCHANGED <<pool, current>> \/ pool' = SecondPool)
      BY <1>6 DEF SetBackendPool, SetWeight
    <2> QED
      BY <2>1, OthersSpread
  <1>7. CASE UNCHANGED balVars
    <2>1. UNCHANGED <<strategy, order, snapshot, pc, pool, current>>
      BY <1>7
    <2> QED
      BY <2>1, OthersSpread
  <1> QED
    BY <1>1, <1>2, <1>3, <1>4, <1>5, <1>6, <1>7
       DEF Next, RequestStep, ProberStep, AdminStep, vars

(* Round robin: as many calls as there are backends start at different      *)
(* ones, in any interleaving, until the pool is replaced by another.        *)
THEOREM RoundRobinKeepsSpreading ==
  ASSUME IsFiniteSet(Requests), FirstPool # SecondPool
  PROVE  Spec => []RoundRobinSpreads
  <1>1. Init => BalancerInv /\ SpreadInv
    BY BalancerStarts, SpreadStarts
  <1>2. BalancerInv /\ SpreadInv /\ [Next]_vars => (BalancerInv /\ SpreadInv)'
    BY BalancerNextInv, SpreadNextInv
  <1>3. BalancerInv /\ SpreadInv => RoundRobinSpreads
    BY DEF SpreadInv
  <1> QED
    BY <1>1, <1>2, <1>3, PTL DEF Spec
=============================================================================
