-------------------------- MODULE Resilience_proofs --------------------------
(***************************************************************************)
(* Proofs about the re-authentication barrier for any number of requests   *)
(* and any retry limit, about the hedged exchange for every request and    *)
(* every order of answers, timer and cancellation, and about event streams *)
(* as an implementation of EventFeed for any streams, logs and broken      *)
(* connections.                                                            *)
(***************************************************************************)
EXTENDS ReAuth, Hedging, Streams, FiniteSetTheorems, SequenceTheorems, TLAPS

(* The re-authentication barrier. *)

(* What ties the barrier's fields together between critical sections: a     *)
(* refresh is in flight exactly while some request is in refreshFn, its     *)
(* channel is the only open one, and no request read a generation from the  *)
(* future.                                                                  *)
Barrier ==
  /\ inFlight => \E r \in Requests : pc[r] = "refresh"
  /\ inFlight => waitChan \in 1 .. Len(chans) /\ chans[waitChan] = "open"
  /\ \A c \in 1 .. Len(chans) : chans[c] = "open" => inFlight /\ c = waitChan
  /\ \A r \in Requests : startGen[r] <= generation
  /\ \A r \in Requests :
       pc[r] = "wait" /\ chans[waitOn[r]] # "open" => generation > startGen[r]
  /\ \A r \in Requests :
       pc[r] \in {"execute", "wait", "refresh", "replay"} => attempt[r] < MaxRetries

(* A call has a result only once it is over. *)
Finishing == \A r \in Requests : pc[r] # "done" => result[r] = "none"

IInv ==
  /\ TypeOK
  /\ Barrier
  /\ SingleRefresh
  /\ NoLostWakeup
  /\ NoDoubleClose
  /\ ReplayAfterRefresh

(* The initial state satisfies the inductive invariant. *)
LEMMA InitIInv == Init => IInv
  <1> SUFFICES ASSUME Init PROVE IInv
    OBVIOUS
  <1> USE DEF Init
  <1>1. TypeOK
    <2>1. 0 \in 0 .. MaxRetries
      BY RetriesAssumption
    <2>2. chans \in Seq(Outcomes \cup {"open", "panic"})
      OBVIOUS
    <2> QED
      BY <2>1, <2>2 DEF TypeOK, Outcomes
  <1>2. Barrier
    BY DEF Barrier
  <1>3. SingleRefresh /\ NoLostWakeup /\ NoDoubleClose
    BY DEF SingleRefresh, NoLostWakeup, NoDoubleClose
  <1>4. ReplayAfterRefresh
    BY DEF ReplayAfterRefresh
  <1> QED
    BY <1>1, <1>2, <1>3, <1>4 DEF IInv

(* Append leaves the channels already made as they are. *)
LEMMA AppendChan ==
  ASSUME NEW S, NEW q \in Seq(S), NEW e \in S
  PROVE  /\ Append(q, e) \in Seq(S)
         /\ Len(Append(q, e)) = Len(q) + 1
         /\ Append(q, e)[Len(q) + 1] = e
         /\ \A c \in 1 .. Len(q) : Append(q, e)[c] = q[c]
  OBVIOUS

(* Closing one channel leaves the others as they are. *)
LEMMA CloseChan ==
  ASSUME NEW S, NEW q \in Seq(S), NEW i \in 1 .. Len(q), NEW e \in S
  PROVE  /\ [q EXCEPT ![i] = e] \in Seq(S)
         /\ Len([q EXCEPT ![i] = e]) = Len(q)
         /\ [q EXCEPT ![i] = e][i] = e
         /\ \A c \in 1 .. Len(q) : c # i => [q EXCEPT ![i] = e][c] = q[c]
  OBVIOUS

(* Every step of the middleware preserves the inductive invariant. *)
LEMMA NextIInv == IInv /\ [Next]_vars => IInv'
  <1> SUFFICES ASSUME IInv, [Next]_vars PROVE IInv'
    OBVIOUS
  <1> USE DEF IInv
  <1> DEFINE Chan == Outcomes \cup {"open", "panic"}
  <1>1. ASSUME NEW r \in Requests, Start(r) PROVE IInv'
    <2>1. TypeOK'
      BY <1>1 DEF Start, barrierVars, TypeOK, Barrier, Outcomes
    <2>2. Barrier'
      BY <1>1 DEF Start, barrierVars, TypeOK, Barrier, NoLostWakeup
    <2>3. (SingleRefresh /\ NoLostWakeup /\ NoDoubleClose)'
      <3>1. SingleRefresh'
        BY <1>1 DEF Start, barrierVars, TypeOK, SingleRefresh
      <3>2. NoLostWakeup'
        BY <1>1 DEF Start, barrierVars, TypeOK, Barrier, NoLostWakeup
      <3>3. NoDoubleClose'
        BY <1>1 DEF Start, barrierVars, NoDoubleClose
      <3> QED
        BY <3>1, <3>2, <3>3
    <2>4. ReplayAfterRefresh'
      BY <1>1 DEF Start, barrierVars, TypeOK, Barrier, ReplayAfterRefresh
    <2> QED
      BY <2>1, <2>2, <2>3, <2>4
  <1>2. ASSUME NEW r \in Requests, NEW triggered \in BOOLEAN,
               NEW answered \in BOOLEAN, Deliver(r, triggered, answered)
        PROVE  IInv'
    <2>1. TypeOK'
      BY <1>2 DEF Deliver, NoBody, barrierVars, TypeOK, Barrier, Outcomes
    <2>2. Barrier'
      BY <1>2 DEF Deliver, NoBody, barrierVars, TypeOK, Barrier, NoLostWakeup
    <2>3. (SingleRefresh /\ NoLostWakeup /\ NoDoubleClose)'
      <3>1. SingleRefresh'
        BY <1>2 DEF Deliver, NoBody, barrierVars, TypeOK, SingleRefresh
      <3>2. NoLostWakeup'
        BY <1>2 DEF Deliver, NoBody, barrierVars, TypeOK, Barrier, NoLostWakeup
      <3>3. NoDoubleClose'
        BY <1>2 DEF Deliver, NoBody, barrierVars, NoDoubleClose
      <3> QED
        BY <3>1, <3>2, <3>3
    <2>4. ReplayAfterRefresh'
      BY <1>2 DEF Deliver, NoBody, barrierVars, TypeOK, Barrier, ReplayAfterRefresh
    <2> QED
      BY <2>1, <2>2, <2>3, <2>4
  <1>3. ASSUME NEW r \in Requests, NEW answered \in BOOLEAN, Expire(r, answered) PROVE IInv'
    <2>1. TypeOK'
      BY <1>3 DEF Expire, MayRetry, CloseBody, NoBody, barrierVars, TypeOK, Barrier, Outcomes
    <2>2. Barrier'
      BY <1>3 DEF Expire, MayRetry, CloseBody, NoBody, barrierVars, TypeOK, Barrier, NoLostWakeup
    <2>3. (SingleRefresh /\ NoLostWakeup /\ NoDoubleClose)'
      <3>1. SingleRefresh'
        BY <1>3 DEF Expire, MayRetry, CloseBody, NoBody, barrierVars, TypeOK, SingleRefresh
      <3>2. NoLostWakeup'
        BY <1>3 DEF Expire, MayRetry, CloseBody, NoBody, barrierVars, TypeOK, Barrier, NoLostWakeup
      <3>3. NoDoubleClose'
        BY <1>3 DEF Expire, MayRetry, CloseBody, NoBody, barrierVars, NoDoubleClose
      <3> QED
        BY <3>1, <3>2, <3>3
    <2>4. ReplayAfterRefresh'
      BY <1>3 DEF Expire, MayRetry, CloseBody, NoBody, barrierVars, TypeOK, Barrier, ReplayAfterRefresh
    <2> QED
      BY <2>1, <2>2, <2>3, <2>4
  <1>4. ASSUME NEW r \in Requests, Replay(r) PROVE IInv'
    <2>1. TypeOK'
      BY <1>4, RetriesAssumption DEF Replay, barrierVars, TypeOK, Barrier, Outcomes
    <2>2. Barrier'
      BY <1>4 DEF Replay, barrierVars, TypeOK, Barrier, NoLostWakeup
    <2>3. (SingleRefresh /\ NoLostWakeup /\ NoDoubleClose)'
      <3>1. SingleRefresh'
        BY <1>4 DEF Replay, barrierVars, TypeOK, SingleRefresh
      <3>2. NoLostWakeup'
        BY <1>4 DEF Replay, barrierVars, TypeOK, Barrier, NoLostWakeup
      <3>3. NoDoubleClose'
        BY <1>4 DEF Replay, barrierVars, NoDoubleClose
      <3> QED
        BY <3>1, <3>2, <3>3
    <2>4. ReplayAfterRefresh'
      BY <1>4 DEF Replay, barrierVars, TypeOK, Barrier, ReplayAfterRefresh
    <2> QED
      BY <2>1, <2>2, <2>3, <2>4
  <1>5. ASSUME NEW r \in Requests, ExecuteStale(r) PROVE IInv'
    <2>1. TypeOK'
      BY <1>5 DEF ExecuteStale, Resume, barrierVars, TypeOK, Barrier, Outcomes
    <2>2. Barrier'
      BY <1>5 DEF ExecuteStale, Resume, barrierVars, TypeOK, Barrier, NoLostWakeup
    <2>3. (SingleRefresh /\ NoLostWakeup /\ NoDoubleClose)'
      <3>1. SingleRefresh'
        BY <1>5 DEF ExecuteStale, Resume, barrierVars, TypeOK, SingleRefresh
      <3>2. NoLostWakeup'
        BY <1>5 DEF ExecuteStale, Resume, barrierVars, TypeOK, Barrier, NoLostWakeup
      <3>3. NoDoubleClose'
        BY <1>5 DEF ExecuteStale, Resume, barrierVars, NoDoubleClose
      <3> QED
        BY <3>1, <3>2, <3>3
    <2>4. ReplayAfterRefresh'
      BY <1>5 DEF ExecuteStale, Resume, barrierVars, TypeOK, Barrier, ReplayAfterRefresh
    <2> QED
      BY <2>1, <2>2, <2>3, <2>4
  <1>6. ASSUME NEW r \in Requests, ExecuteWait(r) PROVE IInv'
    <2>1. TypeOK'
      BY <1>6 DEF ExecuteWait, barrierVars, TypeOK, Barrier, Outcomes
    <2>2. Barrier'
      BY <1>6 DEF ExecuteWait, barrierVars, TypeOK, Barrier, NoLostWakeup
    <2>3. (SingleRefresh /\ NoLostWakeup /\ NoDoubleClose)'
      <3>1. SingleRefresh'
        BY <1>6 DEF ExecuteWait, barrierVars, TypeOK, SingleRefresh
      <3>2. NoLostWakeup'
        BY <1>6 DEF ExecuteWait, barrierVars, TypeOK, Barrier, NoLostWakeup
      <3>3. NoDoubleClose'
        BY <1>6 DEF ExecuteWait, barrierVars, NoDoubleClose
      <3> QED
        BY <3>1, <3>2, <3>3
    <2>4. ReplayAfterRefresh'
      BY <1>6 DEF ExecuteWait, barrierVars, TypeOK, Barrier, ReplayAfterRefresh
    <2> QED
      BY <2>1, <2>2, <2>3, <2>4
  <1>7. ASSUME NEW r \in Requests, ExecuteLead(r) PROVE IInv'
    <2>0. /\ chans' \in Seq(Chan)
          /\ Len(chans') = Len(chans) + 1
          /\ chans'[Len(chans) + 1] = "open"
          /\ \A c \in 1 .. Len(chans) : chans'[c] = chans[c]
          /\ waitChan' = Len(chans) + 1
      BY <1>7, AppendChan DEF ExecuteLead, MakeChan, TypeOK
    <2>1. TypeOK'
      BY <1>7, <2>0 DEF ExecuteLead, Leads, TypeOK, Barrier, Outcomes
    <2>5. /\ pc' = [pc EXCEPT ![r] = "refresh"] /\ pc[r] = "execute"
          /\ inFlight' = TRUE /\ inFlight = FALSE
          /\ startGen' = startGen /\ waitOn' = waitOn
          /\ generation' = generation /\ attempt' = attempt
      BY <1>7 DEF ExecuteLead, Leads, TypeOK
    <2>6. Len(chans) \in Nat
      BY DEF TypeOK
    <2>7. \A c \in 1 .. Len(chans') : chans'[c] = "open" => c = waitChan'
      BY <2>0, <2>5, <2>6 DEF Barrier
    <2>d. waitChan' \in 1 .. Len(chans') /\ chans'[waitChan'] = "open"
      BY <2>0, <2>6
    <2>e. pc'[r] = "refresh" /\ \A s \in Requests : s # r => pc'[s] = pc[s]
      BY <2>5 DEF TypeOK
    <2>2. Barrier'
      <3>1. \A s \in Requests :
              pc'[s] = "wait" /\ chans'[waitOn'[s]] # "open"
                => generation' > startGen'[s]
        BY <2>0, <2>5 DEF TypeOK, Barrier, NoLostWakeup
      <3>2. /\ \A s \in Requests : startGen'[s] <= generation'
            /\ \A s \in Requests :
                 pc'[s] \in {"execute", "wait", "refresh", "replay"}
                   => attempt'[s] < MaxRetries
        BY <2>5 DEF TypeOK, Barrier
      <3> QED
        BY <2>5, <2>7, <2>d, <2>e, <3>1, <3>2 DEF Barrier
    <2>3. (SingleRefresh /\ NoLostWakeup /\ NoDoubleClose)'
      <3>1. SingleRefresh'
        BY <2>5, <2>e DEF SingleRefresh
      <3>2. \A s \in Requests :
              pc'[s] = "wait" => /\ waitOn'[s] \in 1 .. Len(chans')
                                 /\ chans'[waitOn'[s]] = chans[waitOn[s]]
                                 /\ chans[waitOn[s]] # "open"
        BY <2>0, <2>5, <2>6, <2>e DEF NoLostWakeup, Barrier
      <3>3. NoLostWakeup'
        BY <3>2 DEF NoLostWakeup
      <3>4. NoDoubleClose'
        BY <2>0, <2>6 DEF NoDoubleClose
      <3> QED
        BY <3>1, <3>3, <3>4
    <2>4. ReplayAfterRefresh'
      BY <1>7, <2>0 DEF ExecuteLead, Leads, TypeOK, Barrier, ReplayAfterRefresh
    <2> QED
      BY <2>1, <2>2, <2>3, <2>4
  <1>8. ASSUME NEW r \in Requests, NEW err \in Outcomes, RefreshReturns(r, err) PROVE IInv'
    <2>0. /\ inFlight
          /\ waitChan \in 1 .. Len(chans)
          /\ chans' \in Seq(Chan)
          /\ Len(chans') = Len(chans)
          /\ chans'[waitChan] = err
          /\ \A c \in 1 .. Len(chans) : c # waitChan => chans'[c] = chans[c]
      BY <1>8, CloseChan
         DEF RefreshReturns, Closed, TypeOK, Barrier, SingleRefresh
    <2>1. TypeOK'
      <3>1. pc' \in [Requests -> {"idle", "do", "execute", "wait", "refresh",
                                "replay", "done"}]
        <4>1. \/ pc' = [pc EXCEPT ![r] = "replay"]
              \/ pc' = [pc EXCEPT ![r] = "done"]
          BY <1>8 DEF RefreshReturns, Resume
        <4> QED
          BY <4>1 DEF TypeOK
      <3>2. result' \in [Requests -> {"none", "returned", "failed"}]
        BY <1>8 DEF RefreshReturns, Resume, TypeOK
      <3> QED
        <4>1. generation' \in Nat
          BY <1>8 DEF RefreshReturns, NextGeneration, TypeOK
        <4>2. lastErr' \in Outcomes
          BY <1>8 DEF RefreshReturns, LastErr
        <4>3. inFlight' \in BOOLEAN
          BY <1>8 DEF RefreshReturns
        <4> QED
          BY <1>8, <2>0, <3>1, <3>2, <4>1, <4>2, <4>3 DEF RefreshReturns, TypeOK
    <2>5. generation' = generation + 1 /\ UNCHANGED <<startGen, attempt, body, waitOn, waitChan>>
      BY <1>8 DEF RefreshReturns, NextGeneration
    <2>6. \A s \in Requests : s # r => pc'[s] = pc[s] /\ result'[s] = result[s]
      BY <1>8 DEF RefreshReturns, Resume, TypeOK
    <2>7. pc'[r] \in {"replay", "done"} /\ pc[r] = "refresh"
      BY <1>8 DEF RefreshReturns, Resume, TypeOK
    <2>2. Barrier'
      <3>1. inFlight' = FALSE
        BY <1>8 DEF RefreshReturns
      <3>2. \A c \in 1 .. Len(chans') : chans'[c] # "open"
        BY <2>0 DEF Barrier, Outcomes
      <3>3. \A s \in Requests : startGen'[s] < generation'
        BY <2>5 DEF TypeOK, Barrier
      <3>4. \A s \in Requests :
              pc'[s] \in {"execute", "wait", "refresh", "replay"} => attempt'[s] < MaxRetries
        BY <2>5, <2>6, <2>7 DEF Barrier
      <3> QED
        BY <2>5, <3>1, <3>2, <3>3, <3>4 DEF TypeOK, Barrier
    <2>3. (SingleRefresh /\ NoLostWakeup /\ NoDoubleClose)'
      <3>1. \A s \in Requests : pc'[s] # "refresh"
        BY <1>8 DEF RefreshReturns, Resume, TypeOK, SingleRefresh
      <3>2. \A c \in 1 .. Len(chans') : chans'[c] \notin {"open", "panic"}
        BY <1>8, <2>0 DEF TypeOK, Barrier, NoDoubleClose, Outcomes
      <3>3. \A s \in Requests : pc'[s] = "wait" => pc[s] = "wait"
        BY <1>8 DEF RefreshReturns, Resume, TypeOK
      <3> QED
        BY <1>8, <2>0, <3>1, <3>2, <3>3
           DEF RefreshReturns, SingleRefresh, NoLostWakeup, NoDoubleClose
    <2>4. ReplayAfterRefresh'
      <3>1. ReplayAfterRefresh'
        BY <2>5 DEF TypeOK, Barrier, ReplayAfterRefresh
      <3> QED
        BY <3>1
    <2> QED
      BY <2>1, <2>2, <2>3, <2>4
  <1>9. ASSUME NEW r \in Requests, WaitWoken(r) PROVE IInv'
    <2>1. TypeOK'
      BY <1>9 DEF WaitWoken, Woken, Resume, barrierVars, TypeOK, Barrier, Outcomes
    <2>2. Barrier'
      BY <1>9 DEF WaitWoken, Woken, Resume, barrierVars, TypeOK, Barrier, NoLostWakeup
    <2>3. (SingleRefresh /\ NoLostWakeup /\ NoDoubleClose)'
      <3>1. SingleRefresh'
        BY <1>9 DEF WaitWoken, Woken, Resume, barrierVars, TypeOK, SingleRefresh
      <3>2. NoLostWakeup'
        BY <1>9 DEF WaitWoken, Woken, Resume, barrierVars, TypeOK, Barrier, NoLostWakeup
      <3>3. NoDoubleClose'
        BY <1>9 DEF WaitWoken, Woken, Resume, barrierVars, NoDoubleClose
      <3> QED
        BY <3>1, <3>2, <3>3
    <2>4. ReplayAfterRefresh'
      BY <1>9 DEF WaitWoken, Woken, Resume, barrierVars, TypeOK, Barrier, ReplayAfterRefresh
    <2> QED
      BY <2>1, <2>2, <2>3, <2>4
  <1>10. ASSUME NEW r \in Requests, WaitCancelled(r) PROVE IInv'
    <2>1. TypeOK'
      BY <1>10 DEF WaitCancelled, Resume, barrierVars, TypeOK, Barrier, Outcomes
    <2>2. Barrier'
      BY <1>10 DEF WaitCancelled, Resume, barrierVars, TypeOK, Barrier, NoLostWakeup
    <2>3. (SingleRefresh /\ NoLostWakeup /\ NoDoubleClose)'
      <3>1. SingleRefresh'
        BY <1>10 DEF WaitCancelled, Resume, barrierVars, TypeOK, SingleRefresh
      <3>2. NoLostWakeup'
        BY <1>10 DEF WaitCancelled, Resume, barrierVars, TypeOK, Barrier, NoLostWakeup
      <3>3. NoDoubleClose'
        BY <1>10 DEF WaitCancelled, Resume, barrierVars, NoDoubleClose
      <3> QED
        BY <3>1, <3>2, <3>3
    <2>4. ReplayAfterRefresh'
      BY <1>10 DEF WaitCancelled, Resume, barrierVars, TypeOK, Barrier, ReplayAfterRefresh
    <2> QED
      BY <2>1, <2>2, <2>3, <2>4
  <1>11. ASSUME NEW r \in Requests, Cancel(r) PROVE IInv'
    <2>1. TypeOK'
      BY <1>11 DEF Cancel, barrierVars, TypeOK, Barrier, Outcomes
    <2>2. Barrier'
      BY <1>11 DEF Cancel, barrierVars, TypeOK, Barrier, NoLostWakeup
    <2>3. (SingleRefresh /\ NoLostWakeup /\ NoDoubleClose)'
      <3>1. SingleRefresh'
        BY <1>11 DEF Cancel, barrierVars, TypeOK, SingleRefresh
      <3>2. NoLostWakeup'
        BY <1>11 DEF Cancel, barrierVars, TypeOK, Barrier, NoLostWakeup
      <3>3. NoDoubleClose'
        BY <1>11 DEF Cancel, barrierVars, NoDoubleClose
      <3> QED
        BY <3>1, <3>2, <3>3
    <2>4. ReplayAfterRefresh'
      BY <1>11 DEF Cancel, barrierVars, TypeOK, Barrier, ReplayAfterRefresh
    <2> QED
      BY <2>1, <2>2, <2>3, <2>4
  <1>12. ASSUME UNCHANGED vars PROVE IInv'
    BY <1>12 DEF vars, TypeOK, Barrier, SingleRefresh, NoLostWakeup,
                 NoDoubleClose, ReplayAfterRefresh
  <1> QED
    BY <1>1, <1>2, <1>3, <1>4, <1>5, <1>6, <1>7, <1>8, <1>9, <1>10, <1>11,
       <1>12
       DEF Next, Step, Terminated

(* Type correctness of the middleware, for every set of requests. *)
THEOREM TypeCorrect == Spec => []TypeOK
  <1>1. IInv => TypeOK
    BY DEF IInv
  <1> QED
    BY InitIInv, NextIInv, <1>1, PTL DEF Spec

(* Refresh runs in a singleflight barrier: at most one request is ever in   *)
(* refreshFn.                                                               *)
THEOREM RefreshIsSingle == Spec => []SingleRefresh
  <1>1. IInv => SingleRefresh
    BY DEF IInv
  <1> QED
    BY InitIInv, NextIInv, <1>1, PTL DEF Spec

(* A request blocked in execute always has a closer for its channel, and    *)
(* that channel is closed only once.                                        *)
THEOREM WakeupIsKept == Spec => [](NoLostWakeup /\ NoDoubleClose)
  <1>1. IInv => NoLostWakeup /\ NoDoubleClose
    BY DEF IInv
  <1> QED
    BY InitIInv, NextIInv, <1>1, PTL DEF Spec

(* A request is replayed only after a refresh that finished later than the  *)
(* generation it read before its failed attempt.                            *)
THEOREM ReplayIsFresh == Spec => []ReplayAfterRefresh
  <1>1. IInv => ReplayAfterRefresh
    BY DEF IInv
  <1> QED
    BY InitIInv, NextIInv, <1>1, PTL DEF Spec

(* One channel is closed per generation, with the error that was published. *)
Ledger ==
  /\ Len(chans) = generation + (IF inFlight THEN 1 ELSE 0)
  /\ inFlight => waitChan = generation + 1
  /\ generation > 0 => chans[generation] = lastErr

(* The error a request is handed by execute is that of a refresh it may     *)
(* share.                                                                   *)
LEMMA ErrorIsShared ==
  ASSUME IInv, Ledger, NEW r \in Requests, generation > startGen[r], lastErr = "fail"
  PROVE  \E c \in startGen[r] + 1 .. Len(chans) : chans[c] = "fail"
  <1>1. generation \in Nat /\ startGen[r] \in Nat /\ Len(chans) \in Nat
    BY DEF IInv, TypeOK
  <1>2. generation \in startGen[r] + 1 .. Len(chans) /\ chans[generation] = "fail"
    BY <1>1 DEF Ledger
  <1> QED
    BY <1>2

(* A call keeps its result to the end. *)
LEMMA FinishingStep ==
  ASSUME IInv, Finishing, [Next]_vars
  PROVE  Finishing'
  <1>1. pc \in [Requests -> {"idle", "do", "execute", "wait", "refresh", "replay", "done"}]
        /\ result \in [Requests -> {"none", "returned", "failed"}]
    BY DEF IInv, TypeOK
  <1>2. ASSUME NEW r \in Requests, \A s \in Requests : s # r => pc'[s] = pc[s] /\ result'[s] = result[s],
               pc'[r] = "done" \/ (pc[r] # "done" /\ result'[r] = result[r])
        PROVE  Finishing'
    BY <1>2 DEF Finishing
  <1>3. ASSUME NEW r \in Requests, Start(r) \/ Replay(r) \/ ExecuteWait(r) \/ ExecuteLead(r)
        PROVE  Finishing'
    BY <1>1, <1>2, <1>3 DEF Start, Replay, ExecuteWait, ExecuteLead
  <1>4. ASSUME NEW r \in Requests, NEW triggered \in BOOLEAN, NEW answered \in BOOLEAN, Deliver(r, triggered, answered)
        PROVE  Finishing'
    <2>1. pc' = [pc EXCEPT ![r] = "done"] /\ result' = [result EXCEPT ![r] = "returned"]
      BY <1>4 DEF Deliver
    <2>2. pc'[r] = "done" /\ \A s \in Requests : s # r => pc'[s] = pc[s] /\ result'[s] = result[s]
      BY <1>1, <2>1
    <2> QED
      BY <2>2 DEF Finishing
  <1>5. ASSUME NEW r \in Requests, NEW answered \in BOOLEAN, Expire(r, answered) PROVE Finishing'
    BY <1>1, <1>2, <1>5 DEF Expire
  <1>6. ASSUME NEW r \in Requests, NEW err, Resume(r, err), pc[r] # "done" PROVE Finishing'
    <2>1. \/ pc' = [pc EXCEPT ![r] = "replay"] /\ UNCHANGED result
          \/ pc' = [pc EXCEPT ![r] = "done"] /\ result' = [result EXCEPT ![r] = "failed"]
      BY <1>6 DEF Resume
    <2>2. /\ \A s \in Requests : s # r => pc'[s] = pc[s] /\ result'[s] = result[s]
          /\ pc'[r] = "done" \/ result'[r] = result[r]
      BY <1>1, <2>1
    <2> QED
      BY <1>6, <2>2 DEF Finishing
  <1>7. ASSUME NEW r \in Requests, ExecuteStale(r) \/ WaitWoken(r) \/ WaitCancelled(r) PROVE Finishing'
    BY <1>6, <1>7 DEF ExecuteStale, WaitWoken, WaitCancelled
  <1>8. ASSUME NEW r \in Requests, NEW err \in Outcomes, RefreshReturns(r, err) PROVE Finishing'
    BY <1>6, <1>8 DEF RefreshReturns
  <1>9. ASSUME NEW r \in Requests, Cancel(r) PROVE Finishing'
    BY <1>9 DEF Cancel, Finishing
  <1>10. CASE Terminated \/ UNCHANGED vars
    BY <1>10 DEF Terminated, vars, Finishing
  <1> QED
    BY <1>3, <1>4, <1>5, <1>7, <1>8, <1>9, <1>10 DEF Next, Step

(* No step confuses the ledger or hands out an error from before.           *)
LEMMA LedgerStep ==
  ASSUME IInv, Finishing, Ledger, FailuresAreCurrent, [Next]_vars
  PROVE  Ledger' /\ FailuresAreCurrent'
  <1>1. /\ generation \in Nat /\ chans \in Seq(Outcomes \cup {"open", "panic"}) /\ Len(chans) \in Nat
        /\ startGen \in [Requests -> Nat] /\ result \in [Requests -> {"none", "returned", "failed"}]
        /\ \A r \in Requests : startGen[r] <= generation
    BY DEF IInv, TypeOK, Barrier
  <1>2. CASE UNCHANGED <<startGen, result, inFlight, waitChan, lastErr, generation, chans>> /\ cancelled \subseteq cancelled'
    BY <1>2 DEF Ledger, FailuresAreCurrent
  <1>3. ASSUME NEW r \in Requests, UNCHANGED <<startGen, cancelled, inFlight, waitChan, lastErr, generation, chans>>,
               \A s \in Requests : s # r => result'[s] = result[s],
               \/ result'[r] = result[r] \/ result'[r] = "returned" \/ r \in cancelled
               \/ generation > startGen[r] /\ lastErr = "fail"
        PROVE  Ledger' /\ FailuresAreCurrent'
    <2>1. ASSUME NEW s \in Requests, result'[s] = "failed", s \notin cancelled'
          PROVE  \E c \in startGen'[s] + 1 .. Len(chans') : chans'[c] = "fail"
      <3>1. CASE result[s] = "failed"
        BY <1>3, <2>1, <3>1 DEF FailuresAreCurrent
      <3>2. CASE result[s] # "failed"
        BY <1>3, <2>1, <3>2, ErrorIsShared
      <3> QED
        BY <3>1, <3>2
    <2> QED
      BY <1>3, <2>1 DEF Ledger, FailuresAreCurrent
  <1>4. ASSUME NEW r \in Requests, Start(r) \/ Replay(r) PROVE Ledger' /\ FailuresAreCurrent'
    <2>1. /\ UNCHANGED <<result, cancelled, inFlight, waitChan, lastErr, generation, chans>>
          /\ pc[r] \in {"idle", "replay"}
          /\ startGen' = [startGen EXCEPT ![r] = generation]
      BY <1>4 DEF Start, Replay, barrierVars
    <2>2. result[r] # "failed"
      BY <2>1 DEF Finishing
    <2> QED
      BY <1>1, <2>1, <2>2 DEF Ledger, FailuresAreCurrent
  <1>5. ASSUME NEW r \in Requests, NEW triggered \in BOOLEAN, NEW answered \in BOOLEAN, Deliver(r, triggered, answered)
        PROVE  Ledger' /\ FailuresAreCurrent'
    <2>1. /\ UNCHANGED <<startGen, cancelled, inFlight, waitChan, lastErr, generation, chans>>
          /\ \A s \in Requests : s # r => result'[s] = result[s]
          /\ result'[r] = "returned"
      BY <1>1, <1>5 DEF Deliver, barrierVars
    <2> QED
      BY <1>3, <2>1
  <1>6. ASSUME NEW r \in Requests, NEW answered \in BOOLEAN, Expire(r, answered) PROVE Ledger' /\ FailuresAreCurrent'
    BY <1>2, <1>6 DEF Expire, barrierVars
  <1>7. ASSUME NEW r \in Requests, ExecuteWait(r) \/ Cancel(r) PROVE Ledger' /\ FailuresAreCurrent'
    BY <1>2, <1>7 DEF ExecuteWait, Cancel, barrierVars
  <1>8. ASSUME NEW r \in Requests, ExecuteStale(r) \/ WaitWoken(r) PROVE Ledger' /\ FailuresAreCurrent'
    <2>1. /\ UNCHANGED <<startGen, cancelled, inFlight, waitChan, lastErr, generation, chans>>
          /\ generation > startGen[r]
      BY <1>8 DEF ExecuteStale, WaitWoken, Woken, barrierVars, IInv, Barrier
    <2>2. Resume(r, lastErr) /\ lastErr \in Outcomes
      BY <1>8 DEF ExecuteStale, WaitWoken, IInv, TypeOK
    <2>3. /\ \A s \in Requests : s # r => result'[s] = result[s]
          /\ result'[r] = result[r] \/ lastErr = "fail"
      BY <1>1, <2>2 DEF Resume, Outcomes
    <2> QED
      BY <1>3, <2>1, <2>3
  <1>9. ASSUME NEW r \in Requests, WaitCancelled(r) PROVE Ledger' /\ FailuresAreCurrent'
    <2>1. /\ UNCHANGED <<startGen, cancelled, inFlight, waitChan, lastErr, generation, chans>>
          /\ r \in cancelled /\ \A s \in Requests : s # r => result'[s] = result[s]
      BY <1>1, <1>9 DEF WaitCancelled, Resume, barrierVars
    <2> QED
      BY <1>3, <2>1
  <1>10. ASSUME NEW r \in Requests, ExecuteLead(r) PROVE Ledger' /\ FailuresAreCurrent'
    <2>1. /\ ~inFlight /\ inFlight' /\ chans' = Append(chans, "open") /\ waitChan' = Len(Append(chans, "open"))
          /\ UNCHANGED <<startGen, result, cancelled, lastErr, generation>>
      BY <1>10 DEF ExecuteLead, Leads, MakeChan
    <2>2. /\ Len(chans') = Len(chans) + 1 /\ waitChan' = Len(chans) + 1
          /\ \A c \in 1 .. Len(chans) : chans'[c] = chans[c]
      BY <1>1, <2>1, AppendChan
    <2>3. Ledger'
      BY <1>1, <2>1, <2>2 DEF Ledger
    <2>4. FailuresAreCurrent'
      BY <1>1, <2>1, <2>2 DEF FailuresAreCurrent
    <2> QED
      BY <2>3, <2>4
  <1>11. ASSUME NEW r \in Requests, NEW err \in Outcomes, RefreshReturns(r, err) PROVE Ledger' /\ FailuresAreCurrent'
    <2>1. /\ UNCHANGED <<startGen, cancelled, waitChan>>
          /\ generation' = generation + 1 /\ inFlight' = FALSE /\ lastErr' = err /\ chans' = Closed(err)
          /\ \A s \in Requests : s # r => result'[s] = result[s]
          /\ result'[r] = "failed" => result[r] = "failed" \/ err = "fail"
      BY <1>1, <1>11 DEF RefreshReturns, NextGeneration, LastErr, Resume, Outcomes
    <2>2. inFlight /\ waitChan = generation + 1 /\ Len(chans) = generation + 1 /\ chans[waitChan] = "open"
      BY <1>11 DEF RefreshReturns, IInv, SingleRefresh, Ledger, Barrier
    <2>3. /\ Len(chans') = Len(chans) /\ chans'[generation + 1] = err
          /\ \A c \in 1 .. Len(chans) : c # generation + 1 => chans'[c] = chans[c]
      BY <1>1, <2>1, <2>2, CloseChan DEF Closed
    <2>4. Ledger'
      BY <1>1, <2>1, <2>2, <2>3 DEF Ledger
    <2>5. ASSUME NEW s \in Requests, result'[s] = "failed", s \notin cancelled'
          PROVE  \E c \in startGen'[s] + 1 .. Len(chans') : chans'[c] = "fail"
      <3>1. CASE result[s] = "failed"
        <4>1. PICK c \in startGen[s] + 1 .. Len(chans) : chans[c] = "fail"
          BY <2>1, <2>5, <3>1 DEF FailuresAreCurrent
        <4>2. c # generation + 1 /\ c \in 1 .. Len(chans)
          BY <1>1, <2>2, <4>1
        <4> QED
          BY <2>1, <2>3, <4>1, <4>2
      <3>2. CASE result[s] # "failed"
        <4>1. s = r /\ err = "fail"
          BY <2>1, <2>5, <3>2
        <4>2. generation + 1 \in startGen[s] + 1 .. Len(chans)
          BY <1>1, <2>2
        <4> QED
          BY <2>1, <2>3, <4>1, <4>2
      <3> QED
        BY <3>1, <3>2
    <2> QED
      BY <2>4, <2>5 DEF FailuresAreCurrent
  <1>12. CASE Terminated \/ UNCHANGED vars
    BY <1>2, <1>12 DEF Terminated, vars
  <1> QED
    BY <1>4, <1>5, <1>6, <1>7, <1>8, <1>9, <1>10, <1>11, <1>12 DEF Next, Step

(* A request fails, its own context alive, only on a refresh that failed    *)
(* after its last attempt had begun.                                        *)
THEOREM FailureIsCurrent == Spec => []FailuresAreCurrent
  <1>1. Init => Finishing /\ Ledger /\ FailuresAreCurrent
    BY DEF Init, Finishing, Ledger, FailuresAreCurrent
  <1>2. IInv /\ Finishing /\ Ledger /\ FailuresAreCurrent /\ [Next]_vars
          => Finishing' /\ Ledger' /\ FailuresAreCurrent'
    BY FinishingStep, LedgerStep
  <1> QED
    BY InitIInv, NextIInv, <1>1, <1>2, PTL DEF Spec

-----------------------------------------------------------------------------
(* The hedged exchange. *)

Results == Attempts \X BOOLEAN

HedgeType ==
  /\ repeatable \in BOOLEAN /\ method \in {"reading", "allowed", "mutating", "undelayed"} /\ wraps \in BOOLEAN
  /\ hedgePc \in {"start", "plain", "select", "done"}
  /\ tried \in [Attempts -> {"none", "running", "finished"}]
  /\ resultsCh \in Seq(Results)
  /\ bodyOf \in [Attempts -> {"none", "open", "closed"}]
  /\ ctxDone \in SUBSET Attempts
  /\ callerDone \in BOOLEAN /\ req2Started \in BOOLEAN /\ cleaned \in BOOLEAN
  /\ activeCount \in Nat /\ drain \in Nat
  /\ picked \in {0, 1, 2}
  /\ failed \in SUBSET Attempts

(* The attempts still running, counted. *)
One(i) == IF tried[i] = "running" THEN 1 ELSE 0
InFlight == One(1) + One(2)

(* Before the race, and all along when there is none. *)
NoRace ==
  /\ resultsCh = <<>> /\ drain = 0 /\ tried[2] = "none"
  /\ hedgePc = "start" => tried[1] = "none"
  /\ hedgePc = "done" => tried[1] = "finished"
  /\ hedgePc # "done" => failed = {} /\ ctxDone = {} /\ ~callerDone

(* An attempt that has ended failed, or its response is in the channel. *)
Answered(i, ch) == \E k \in 1 .. Len(ch) : ch[k] = <<i, TRUE>>
Accounted(i) == tried[i] = "finished" => i \in failed \/ Answered(i, resultsCh)

(* While the caller waits for the race. *)
Racing ==
  /\ MayHedge
  /\ activeCount = Len(resultsCh) + InFlight /\ drain = 0
  /\ ~cleaned /\ (~callerDone => ctxDone = {})
  /\ tried[1] # "none" /\ (req2Started <=> tried[2] # "none")
  /\ activeCount = 0 => req2Started
  /\ \A i \in Attempts : Accounted(i)

(* When the call has returned. *)
Decided ==
  /\ MayHedge => drain = Len(resultsCh) + InFlight
  /\ MayHedge /\ picked # 0 /\ ~callerDone => (bodyOf[picked] = "open" => ctxDone = Attempts \ {TakenForWinner(picked)})
  /\ picked # 0 => tried[picked] = "finished"
  /\ returned = "error" =>
       /\ failed = (IF MayHedge THEN Attempts ELSE {1})
       /\ tried[1] # "running" /\ tried[2] # "running"

(* A result comes from an attempt that has ended. *)
From(ch, ended) == \A k \in 1 .. Len(ch) : ch[k][1] \in ended
Over == {i \in Attempts : tried[i] = "finished"}
Ended == From(resultsCh, Over)

RaceInv ==
  /\ HedgeType /\ Ended
  /\ hedgePc \in {"start", "plain"} \/ ~MayHedge => NoRace
  /\ hedgePc = "plain" => ~MayHedge
  /\ hedgePc = "start" => activeCount = 0 /\ ~req2Started /\ ~cleaned
  /\ hedgePc = "select" => Racing
  /\ hedgePc = "done" => Decided
  /\ hedgePc # "done" => picked = 0 /\ returned = "none"

-----------------------------------------------------------------------------
(* The channel gets one more result. *)
LEMMA Sent ==
  ASSUME NEW ch \in Seq(Results), NEW i \in Attempts, NEW ok \in BOOLEAN
  PROVE  /\ Append(ch, <<i, ok>>) \in Seq(Results)
         /\ Len(Append(ch, <<i, ok>>)) = Len(ch) + 1 /\ Len(ch) \in Nat
         /\ \A ended : From(ch, ended) /\ i \in ended => From(Append(ch, <<i, ok>>), ended)
         /\ ok => Answered(i, Append(ch, <<i, ok>>))
         /\ \A j \in Attempts : Answered(j, ch) => Answered(j, Append(ch, <<i, ok>>))
  <1> DEFINE more == Append(ch, <<i, ok>>)
  <1>1. <<i, ok>> \in Results /\ Len(ch) \in Nat
    BY DEF Results
  <1>2. /\ more \in Seq(Results) /\ Len(more) = Len(ch) + 1
        /\ \A k \in 1 .. Len(ch) : k \in 1 .. Len(more) /\ more[k] = ch[k]
        /\ Len(ch) + 1 \in 1 .. Len(more) /\ more[Len(ch) + 1] = <<i, ok>>
    BY <1>1
  <1>3. \A k \in 1 .. Len(more) : k \in 1 .. Len(ch) \/ k = Len(ch) + 1
    BY <1>1, <1>2
  <1> HIDE DEF more
  <1>4. \A ended : From(ch, ended) /\ i \in ended => From(more, ended)
    BY <1>2, <1>3 DEF From
  <1>5. ok => Answered(i, more)
    BY <1>2 DEF Answered
  <1>6. \A j \in Attempts : Answered(j, ch) => Answered(j, more)
    BY <1>2 DEF Answered
  <1> QED
    BY <1>1, <1>2, <1>4, <1>5, <1>6 DEF more

(* The oldest result is taken off the channel. *)
LEMMA OneTaken ==
  ASSUME NEW ch \in Seq(Results), ch # <<>>
  PROVE  /\ Tail(ch) \in Seq(Results) /\ Len(Tail(ch)) = Len(ch) - 1 /\ Len(ch) \in Nat \ {0}
         /\ Head(ch) \in Results /\ Head(ch)[1] \in Attempts
         /\ \A ended : From(ch, ended) => Head(ch)[1] \in ended /\ From(Tail(ch), ended)
         /\ ~Head(ch)[2] => \A j \in Attempts : Answered(j, ch) => Answered(j, Tail(ch))
  <1>1. /\ Tail(ch) \in Seq(Results) /\ Len(Tail(ch)) = Len(ch) - 1 /\ Len(ch) \in Nat \ {0}
        /\ Head(ch) \in Results /\ Head(ch) = ch[1] /\ 1 \in 1 .. Len(ch)
    OBVIOUS
  <1>2. ASSUME NEW k \in 1 .. Len(Tail(ch)) PROVE k + 1 \in 1 .. Len(ch) /\ Tail(ch)[k] = ch[k + 1]
    BY <1>1
  <1>6. ASSUME NEW k \in 1 .. Len(ch), k # 1
        PROVE  k - 1 \in 1 .. Len(Tail(ch)) /\ Tail(ch)[k - 1] = ch[k]
    <2>1. k - 1 \in 1 .. Len(Tail(ch)) /\ (k - 1) + 1 = k
      BY <1>1, <1>6
    <2> QED
      BY <1>2, <2>1
  <1>3. Head(ch)[1] \in Attempts
    BY <1>1 DEF Results
  <1>4. ASSUME NEW ended, From(ch, ended) PROVE Head(ch)[1] \in ended /\ From(Tail(ch), ended)
    BY <1>1, <1>2, <1>4 DEF From
  <1>5. ASSUME ~Head(ch)[2], NEW j \in Attempts, Answered(j, ch) PROVE Answered(j, Tail(ch))
    <2>1. PICK k \in 1 .. Len(ch) : ch[k] = <<j, TRUE>>
      BY <1>5 DEF Answered
    <2>2. ASSUME k = 1 PROVE FALSE
      <3>1. Head(ch) = <<j, TRUE>>
        BY <1>1, <2>1, <2>2
      <3>2. <<j, TRUE>>[2] = TRUE
        OBVIOUS
      <3> QED
        BY <1>5, <3>1, <3>2, Zenon
    <2> QED
      BY <1>6, <2>1, <2>2 DEF Answered
  <1> QED
    BY <1>1, <1>3, <1>4, <1>5

(* What has ended stays ended: the results in the channel stay accounted for. *)
LEMMA StillFrom ==
  ASSUME NEW ch, NEW a, NEW b, a \subseteq b, From(ch, a)
  PROVE  From(ch, b)
  BY DEF From

(* Whether a request is hedged stays as it is. *)
LEMMA HedgeableStays ==
  ASSUME UNCHANGED hedgeInputs
  PROVE  MayHedge' <=> MayHedge
  BY Zenon DEF hedgeInputs, MayHedge

(* Which attempt is taken for the winner stays as it is. *)
LEMMA WinnerStays ==
  ASSUME UNCHANGED hedgeInputs, picked' = picked
  PROVE  TakenForWinner(picked)' = TakenForWinner(picked)
  BY DEF TakenForWinner, hedgeInputs

(* There are two attempts. *)
LEMMA TwoAttempts == 1 \in Attempts /\ 2 \in Attempts /\ \A i \in Attempts : i = 1 \/ i = 2
  BY DEF Attempts

(* The second attempt is launched when the channel holds ch. *)
Second(ch) ==
  \/ tried' = [tried EXCEPT ![2] = "running"] /\ resultsCh' = ch /\ failed' = failed
  \/ /\ tried' = [tried EXCEPT ![2] = "finished"]
     /\ resultsCh' = Append(ch, <<2, FALSE>>) /\ failed' = failed \cup {2}

SecondRuns(ch) ==
  /\ tried' \in [Attempts -> {"none", "running", "finished"}]
  /\ tried'[1] = tried[1] /\ tried'[2] # "none"
  /\ resultsCh' \in Seq(Results) /\ failed' \in SUBSET Attempts
  /\ Len(resultsCh') + InFlight' = Len(ch) + InFlight + 1
  /\ Ended'
  /\ \A j \in Attempts : Accounted(j)'

(* Launching it keeps the accounts of the race, whether its body could be    *)
(* cloned (launchHedgeAttempt) or not.                                       *)
LEMMA SecondLaunched ==
  ASSUME HedgeType, NEW ch \in Seq(Results), tried[1] # "none", tried[2] = "none", From(ch, Over),
         \A j \in Attempts : tried[j] = "finished" => j \in failed \/ Answered(j, ch), Second(ch)
  PROVE  SecondRuns(ch)
  <1>1. tried \in [Attempts -> {"none", "running", "finished"}] /\ failed \in SUBSET Attempts
    BY DEF HedgeType
  <1>2. CASE tried' = [tried EXCEPT ![2] = "running"] /\ resultsCh' = ch /\ failed' = failed
    <2>1. /\ tried' \in [Attempts -> {"none", "running", "finished"}]
          /\ tried'[1] = tried[1] /\ tried'[2] = "running"
      BY <1>1, <1>2, TwoAttempts
    <2>2. Over' = Over
      BY <2>1, TwoAttempts DEF Over
    <2>3. Ended'
      BY <1>2, <2>2 DEF Ended
    <2>4. \A j \in Attempts : Accounted(j)'
      BY <1>2, <2>1, TwoAttempts DEF Accounted
    <2>5. InFlight' = InFlight + 1
      BY <2>1 DEF InFlight, One
    <2>6. Len(ch) \in Nat /\ InFlight \in Nat
      BY DEF InFlight, One
    <2> QED
      BY <1>1, <1>2, <2>1, <2>3, <2>4, <2>5, <2>6 DEF SecondRuns
  <1>3. CASE /\ tried' = [tried EXCEPT ![2] = "finished"]
             /\ resultsCh' = Append(ch, <<2, FALSE>>) /\ failed' = failed \cup {2}
    <2>1. /\ tried' \in [Attempts -> {"none", "running", "finished"}]
          /\ tried'[1] = tried[1] /\ tried'[2] = "finished"
      BY <1>1, <1>3, TwoAttempts
    <2>2. Over \subseteq Over' /\ 2 \in Over'
      BY <2>1, TwoAttempts DEF Over
    <2>3. From(ch, Over')
      BY <2>2, StillFrom
    <2>4. /\ resultsCh' \in Seq(Results) /\ Len(resultsCh') = Len(ch) + 1 /\ Len(ch) \in Nat
          /\ From(resultsCh', Over')
          /\ \A j \in Attempts : Answered(j, ch) => Answered(j, resultsCh')
      BY <1>3, <2>2, <2>3, Sent, TwoAttempts
    <2>5. Ended'
      BY <2>4 DEF Ended
    <2>6. \A j \in Attempts : Accounted(j)'
      BY <1>3, <2>1, <2>4, TwoAttempts DEF Accounted
    <2>7. InFlight' = InFlight /\ InFlight \in Nat
      BY <2>1 DEF InFlight, One
    <2> QED
      BY <1>1, <1>3, <2>1, <2>4, <2>5, <2>6, <2>7, TwoAttempts DEF SecondRuns
  <1> QED
    BY <1>2, <1>3 DEF Second

(* No event of the race reaches an exchange without one. *)
LEMMA RaceOnly ==
  ASSUME RaceInv, UNCHANGED hedgeInputs, hedgePc \notin {"start", "plain"}, hedgePc' = hedgePc \/ hedgePc' = "done",
         MayHedge
  PROVE  (hedgePc \in {"start", "plain"} \/ ~MayHedge => NoRace)'
  BY HedgeableStays

(* PlainDo preserves the invariant. *)
LEMMA PlainDoInv ==
  ASSUME RaceInv, PlainDo
  PROVE  RaceInv'
  <1>a. /\ UNCHANGED <<hedgeInputs, resultsCh, bodyOf, ctxDone, callerDone, req2Started,
                       activeCount, cleaned, drain, returned, picked, failed>>
        /\ hedgePc = "start" /\ hedgePc' = "plain" /\ ~MayHedge
        /\ tried' = [tried EXCEPT ![1] = "running"]
    BY DEF PlainDo
  <1>b. tried \in [Attempts -> {"none", "running", "finished"}]
    BY DEF RaceInv, HedgeType
  <1>c. tried' \in [Attempts -> {"none", "running", "finished"}] /\ tried'[2] = tried[2]
    BY <1>a, <1>b, TwoAttempts
  <1>1. /\ UNCHANGED <<hedgeInputs, resultsCh, bodyOf, ctxDone, callerDone, req2Started,
                       activeCount, cleaned, drain, returned, picked, failed>>
        /\ hedgePc = "start" /\ hedgePc' = "plain" /\ ~MayHedge /\ ~MayHedge'
        /\ tried' \in [Attempts -> {"none", "running", "finished"}] /\ tried'[2] = tried[2]
    BY <1>a, <1>c, HedgeableStays
  <1>2. HedgeType'
    BY <1>1 DEF RaceInv, HedgeType, hedgeInputs
  <1>3. Ended'
    BY <1>1 DEF RaceInv, NoRace, Ended, From
  <1> QED
    BY <1>1, <1>2, <1>3 DEF RaceInv, NoRace

(* PlainReturns preserves the invariant. *)
LEMMA PlainReturnsInv ==
  ASSUME RaceInv, NEW ok \in BOOLEAN, PlainReturns(ok)
  PROVE  RaceInv'
  <1>1. /\ UNCHANGED <<hedgeInputs, resultsCh, ctxDone, callerDone, req2Started,
                       activeCount, cleaned, drain>>
        /\ hedgePc = "plain" /\ hedgePc' = "done"
        /\ tried' = [tried EXCEPT ![1] = "finished"]
        /\ bodyOf' \in [Attempts -> {"none", "open", "closed"}]
    BY TwoAttempts DEF PlainReturns, RaceInv, HedgeType
  <1>2. /\ failed' = IF ok THEN failed ELSE failed \cup {1}
        /\ returned' = IF ok THEN "response" ELSE "error"
        /\ picked' = IF ok THEN 1 ELSE 0
    BY DEF PlainReturns
  <1>3. ~MayHedge /\ ~MayHedge' /\ failed = {} /\ tried[2] = "none"
    BY <1>1, HedgeableStays DEF hedgeInputs, RaceInv, NoRace
  <1>4. tried' \in [Attempts -> {"none", "running", "finished"}] /\ tried'[1] = "finished" /\ tried'[2] = "none"
    <2>1. tried \in [Attempts -> {"none", "running", "finished"}]
      BY DEF RaceInv, HedgeType
    <2> QED
      BY <1>1, <1>3, <2>1, TwoAttempts
  <1>5. picked' \in {0, 1} /\ failed' \in SUBSET Attempts /\ (returned' = "error" => failed' = {1})
    BY <1>2, <1>3, TwoAttempts
  <1>6. HedgeType'
    BY <1>1, <1>4, <1>5 DEF RaceInv, HedgeType, hedgeInputs
  <1>7. NoRace'
    BY <1>1, <1>3, <1>4 DEF RaceInv, NoRace
  <1>8. Decided'
    BY <1>3, <1>4, <1>5 DEF Decided
  <1>9. Ended'
    BY <1>7 DEF NoRace, Ended, From
  <1> QED
    BY <1>1, <1>3, <1>6, <1>7, <1>8, <1>9 DEF RaceInv

(* LaunchFirst preserves the invariant. *)
LEMMA LaunchFirstInv ==
  ASSUME RaceInv, LaunchFirst
  PROVE  RaceInv'
  <1>1. /\ UNCHANGED <<hedgeInputs, bodyOf, ctxDone, callerDone, req2Started,
                       cleaned, drain, returned, picked>>
        /\ hedgePc = "start" /\ hedgePc' = "select" /\ MayHedge /\ activeCount' = 1
    BY DEF LaunchFirst
  <1>2. MayHedge' /\ resultsCh = <<>> /\ failed = {} /\ tried[1] = "none" /\ tried[2] = "none" /\ drain = 0
    BY <1>1, HedgeableStays DEF hedgeInputs, RaceInv, NoRace
  <1>3. \/ /\ tried' = [tried EXCEPT ![1] = "running"] /\ UNCHANGED <<resultsCh, failed>>
        \/ /\ tried' = [tried EXCEPT ![1] = "finished"]
           /\ resultsCh' = Append(resultsCh, <<1, FALSE>>) /\ failed' = failed \cup {1}
    BY DEF LaunchFirst, LaunchEffect
  <1>4. /\ tried' \in [Attempts -> {"none", "running", "finished"}] /\ tried'[2] = "none"
        /\ \/ tried'[1] = "running" /\ resultsCh' = resultsCh /\ failed' = failed
           \/ tried'[1] = "finished" /\ resultsCh' = Append(resultsCh, <<1, FALSE>>) /\ failed' = {1}
    <2>1. tried \in [Attempts -> {"none", "running", "finished"}]
      BY DEF RaceInv, HedgeType
    <2>2. CASE tried' = [tried EXCEPT ![1] = "running"] /\ UNCHANGED <<resultsCh, failed>>
      BY <1>2, <2>1, <2>2, TwoAttempts
    <2>3. CASE /\ tried' = [tried EXCEPT ![1] = "finished"]
               /\ resultsCh' = Append(resultsCh, <<1, FALSE>>) /\ failed' = failed \cup {1}
      BY <1>2, <2>1, <2>3, TwoAttempts
    <2> QED
      BY <1>3, <2>2, <2>3
  <1>5. /\ resultsCh' \in Seq(Results) /\ failed' \in SUBSET Attempts
        /\ Len(resultsCh') = (IF tried'[1] = "running" THEN 0 ELSE 1)
        /\ From(resultsCh', Over')
    <2>1. resultsCh \in Seq(Results) /\ Len(resultsCh) = 0 /\ From(resultsCh, Over')
      BY <1>2, TwoAttempts DEF RaceInv, HedgeType, From
    <2>2. CASE tried'[1] = "running"
      BY <1>2, <1>4, <2>1, <2>2
    <2>3. CASE /\ tried'[1] = "finished" /\ resultsCh' = Append(resultsCh, <<1, FALSE>>)
               /\ failed' = {1}
      <3>1. 1 \in Over'
        BY <2>3, TwoAttempts DEF Over
      <3>2. /\ resultsCh' \in Seq(Results) /\ Len(resultsCh') = Len(resultsCh) + 1
            /\ \A ended : From(resultsCh, ended) /\ 1 \in ended => From(resultsCh', ended)
        BY <2>1, <2>3, Sent, TwoAttempts
      <3>3. From(resultsCh', Over')
        BY <2>1, <3>1, <3>2
      <3> QED
        BY <2>1, <2>3, <3>2, <3>3, TwoAttempts
    <2> QED
      BY <1>4, <2>2, <2>3
  <1>6. HedgeType'
    BY <1>1, <1>4, <1>5 DEF RaceInv, HedgeType, hedgeInputs
  <1>7. Racing'
    <2>1. activeCount' = Len(resultsCh') + InFlight'
      BY <1>1, <1>4, <1>5 DEF InFlight, One
    <2>2. \A i \in Attempts : Accounted(i)'
      BY <1>4, TwoAttempts DEF Accounted
    <2> QED
      BY <1>1, <1>2, <1>4, <2>1, <2>2 DEF RaceInv, NoRace, Racing
  <1>8. Ended'
    BY <1>5 DEF Ended
  <1> QED
    BY <1>1, <1>2, <1>6, <1>7, <1>8 DEF RaceInv

(* AttemptReturns preserves the invariant. *)
LEMMA AttemptReturnsInv ==
  ASSUME RaceInv, NEW i \in Attempts, NEW ok \in BOOLEAN, AttemptReturns(i, ok)
  PROVE  RaceInv'
  <1>1. /\ UNCHANGED <<hedgeInputs, hedgePc, ctxDone, callerDone, req2Started, activeCount,
                       cleaned, drain, returned, picked>>
        /\ hedgePc # "plain" /\ tried[i] = "running"
        /\ tried' = [tried EXCEPT ![i] = "finished"] /\ resultsCh' = Append(resultsCh, <<i, ok>>)
        /\ failed' = IF ok THEN failed ELSE failed \cup {i}
        /\ bodyOf' = IF ok THEN [bodyOf EXCEPT ![i] = "open"] ELSE bodyOf
    BY DEF AttemptReturns
  <1>2. MayHedge /\ hedgePc \in {"select", "done"}
    <2>1. hedgePc \in {"start", "select", "done"}
      BY <1>1 DEF RaceInv, HedgeType
    <2>2. hedgePc # "start"
      BY <1>1, TwoAttempts DEF RaceInv, NoRace
    <2>3. CASE hedgePc = "select"
      BY <2>3 DEF RaceInv, Racing
    <2>4. CASE hedgePc = "done" /\ ~MayHedge
      <3>1. tried[1] = "finished" /\ tried[2] = "none"
        BY <2>4 DEF RaceInv, NoRace
      <3> QED
        BY <1>1, <3>1, TwoAttempts
    <2> QED
      BY <2>1, <2>2, <2>3, <2>4
  <1>3. /\ tried' \in [Attempts -> {"none", "running", "finished"}] /\ tried'[i] = "finished"
        /\ \A j \in Attempts \ {i} : tried'[j] = tried[j] /\ bodyOf'[j] = bodyOf[j]
        /\ bodyOf' \in [Attempts -> {"none", "open", "closed"}]
        /\ failed' \in SUBSET Attempts /\ failed \subseteq failed' /\ (~ok => i \in failed')
    BY <1>1, TwoAttempts DEF RaceInv, HedgeType
  <1>4. /\ resultsCh \in Seq(Results) /\ resultsCh' \in Seq(Results)
        /\ Len(resultsCh') = Len(resultsCh) + 1 /\ Len(resultsCh) \in Nat
        /\ ok => Answered(i, resultsCh')
        /\ \A j \in Attempts : Answered(j, resultsCh) => Answered(j, resultsCh')
    <2>1. resultsCh \in Seq(Results)
      BY DEF RaceInv, HedgeType
    <2> QED
      BY <1>1, <2>1, Sent
  <1>5. HedgeType'
    BY <1>1, <1>3, <1>4 DEF RaceInv, HedgeType, hedgeInputs
  <1>6. Len(resultsCh') + InFlight' = Len(resultsCh) + InFlight
    <2>1. InFlight' = InFlight - 1 /\ InFlight \in Nat
      BY <1>1, <1>3, TwoAttempts DEF InFlight, One
    <2> QED
      BY <1>4, <2>1
  <1>7. (hedgePc \in {"start", "plain"} \/ ~MayHedge => NoRace)'
    BY <1>1, <1>2, RaceOnly
  <1>8. ASSUME hedgePc = "select" PROVE Racing'
    <2>1. Racing
      BY <1>8 DEF RaceInv
    <2>2. ASSUME NEW j \in Attempts PROVE Accounted(j)'
      <3>1. CASE j = i
        BY <1>3, <1>4, <3>1 DEF Accounted
      <3>2. CASE j # i
        BY <1>3, <1>4, <2>1, <3>2 DEF Accounted, Racing
      <3> QED
        BY <3>1, <3>2
    <2>3. tried'[1] # "none" /\ (tried'[2] # "none" <=> tried[2] # "none")
      BY <1>1, <1>3, <2>1, TwoAttempts DEF Racing
    <2> QED
      BY <1>1, <1>2, <1>6, <2>1, <2>2, <2>3, HedgeableStays DEF Racing, hedgeInputs
  <1>9. ASSUME hedgePc = "done" PROVE Decided'
    <2>1. Decided
      BY <1>9 DEF RaceInv
    <2>2. returned # "error" /\ picked # i
      BY <1>1, <2>1, TwoAttempts DEF Decided
    <2>3. picked \in {0} \cup Attempts
      BY TwoAttempts DEF RaceInv, HedgeType
    <2> QED
      BY <1>1, <1>2, <1>3, <1>6, <2>1, <2>2, <2>3, HedgeableStays, WinnerStays DEF Decided
  <1>10. Ended'
    <2>1. Over \subseteq Over' /\ i \in Over'
      BY <1>1, <1>3 DEF Over
    <2>2. From(resultsCh, Over')
      BY <2>1, StillFrom DEF RaceInv, Ended
    <2> QED
      BY <1>1, <1>4, <2>1, <2>2, Sent DEF Ended
  <1> QED
    BY <1>1, <1>2, <1>5, <1>7, <1>8, <1>9, <1>10 DEF RaceInv

(* SelectCancelled preserves the invariant. *)
LEMMA SelectCancelledInv ==
  ASSUME RaceInv, SelectCancelled
  PROVE  RaceInv'
  <1>1. /\ UNCHANGED <<hedgeInputs, tried, resultsCh, bodyOf, callerDone, req2Started, activeCount, picked, failed>>
        /\ hedgePc = "select" /\ hedgePc' = "done" /\ callerDone
        /\ drain' = activeCount /\ returned' = "cancelled" /\ cleaned' \in BOOLEAN
        /\ ctxDone' \in SUBSET Attempts
    BY TwoAttempts DEF SelectCancelled, Remainder, Cleanup, Cancels, RaceInv, HedgeType
  <1>2. HedgeType'
    BY <1>1 DEF RaceInv, HedgeType, hedgeInputs
  <1>3. Racing /\ MayHedge /\ MayHedge' /\ picked = 0
    BY <1>1, HedgeableStays DEF RaceInv, Racing, hedgeInputs
  <1>4. Decided'
    BY <1>1, <1>3 DEF Racing, Decided, InFlight, One
  <1>5. Ended'
    BY <1>1 DEF RaceInv, Ended, Over
  <1> QED
    BY <1>1, <1>2, <1>3, <1>4, <1>5 DEF RaceInv

(* SelectTimer preserves the invariant. *)
LEMMA SelectTimerInv ==
  ASSUME RaceInv, SelectTimer
  PROVE  RaceInv'
  <1>1. /\ UNCHANGED <<hedgeInputs, hedgePc, bodyOf, ctxDone, callerDone, cleaned, drain, returned, picked>>
        /\ hedgePc = "select" /\ req2Started' = TRUE
        /\ IF req2Started
             THEN UNCHANGED <<tried, resultsCh, failed, activeCount>>
             ELSE /\ activeCount' = activeCount + 1
                  /\ \/ /\ tried' = [tried EXCEPT ![2] = "running"] /\ UNCHANGED <<resultsCh, failed>>
                     \/ /\ tried' = [tried EXCEPT ![2] = "finished"]
                        /\ resultsCh' = Append(resultsCh, <<2, FALSE>>) /\ failed' = failed \cup {2}
    BY DEF SelectTimer, LaunchEffect, RaceInv, HedgeType
  <1>2. Racing /\ MayHedge /\ MayHedge'
    BY <1>1, HedgeableStays DEF RaceInv, Racing, hedgeInputs
  <1>3. CASE req2Started
    <2>1. HedgeType'
      BY <1>1, <1>3 DEF RaceInv, HedgeType, hedgeInputs
    <2>2. Racing'
      BY <1>1, <1>2, <1>3 DEF Racing, InFlight, One, Accounted
    <2>3. Ended'
      BY <1>1, <1>3 DEF RaceInv, Ended, Over
    <2> QED
      BY <1>1, <1>2, <2>1, <2>2, <2>3 DEF RaceInv
  <1>4. CASE ~req2Started
    <2>1. tried[2] = "none" /\ tried[1] # "none" /\ activeCount' = activeCount + 1
      BY <1>1, <1>2, <1>4, TwoAttempts DEF Racing
    <2>2. HedgeType /\ resultsCh \in Seq(Results) /\ From(resultsCh, Over)
      BY DEF RaceInv, HedgeType, Ended
    <2>3. \A j \in Attempts : tried[j] = "finished" => j \in failed \/ Answered(j, resultsCh)
      BY <1>2 DEF Racing, Accounted
    <2>4. Second(resultsCh)
      BY <1>1, <1>4 DEF Second
    <2>5. SecondRuns(resultsCh)
      BY <2>1, <2>2, <2>3, <2>4, SecondLaunched
    <2>6. HedgeType'
      BY <1>1, <2>1, <2>5 DEF RaceInv, HedgeType, hedgeInputs, SecondRuns
    <2>7. activeCount' = Len(resultsCh') + InFlight'
      BY <1>2, <2>1, <2>5 DEF Racing, SecondRuns
    <2>8. Racing'
      BY <1>1, <1>2, <2>1, <2>5, <2>7, TwoAttempts DEF Racing, SecondRuns, RaceInv, HedgeType
    <2> QED
      BY <1>1, <1>2, <2>5, <2>6, <2>8 DEF RaceInv, SecondRuns
  <1> QED
    BY <1>3, <1>4

(* SelectError preserves the invariant. *)
LEMMA SelectErrorInv ==
  ASSUME RaceInv, SelectError
  PROVE  RaceInv'
  <1> DEFINE left == Tail(resultsCh)
  <1>1. /\ UNCHANGED <<hedgeInputs, hedgePc, bodyOf, ctxDone, callerDone, cleaned, drain, returned, picked>>
        /\ hedgePc = "select" /\ resultsCh # <<>> /\ ~Head(resultsCh)[2] /\ activeCount > 0
        /\ IF Relaunch(activeCount - 1)
             THEN req2Started' = TRUE /\ activeCount' = activeCount /\ Second(left)
             ELSE /\ resultsCh' = left /\ activeCount' = activeCount - 1
                  /\ UNCHANGED <<tried, failed, req2Started>>
    <2>1. activeCount \in Nat /\ (activeCount - 1) + 1 = activeCount
      BY DEF RaceInv, HedgeType
    <2>2. CASE Relaunch(activeCount - 1)
      BY <2>1, <2>2 DEF SelectError, Received, Second
    <2>3. CASE ~Relaunch(activeCount - 1)
      BY <2>1, <2>3 DEF SelectError, Received
    <2> QED
      BY <2>2, <2>3
  <1>2. Racing /\ MayHedge /\ MayHedge'
    BY <1>1, HedgeableStays DEF RaceInv, Racing, hedgeInputs
  <1>3. HedgeType /\ resultsCh \in Seq(Results) /\ From(resultsCh, Over) /\ activeCount \in Nat
    BY DEF RaceInv, HedgeType, Ended
  <1>4. /\ left \in Seq(Results) /\ Len(left) = Len(resultsCh) - 1 /\ Len(resultsCh) \in Nat \ {0}
        /\ From(left, Over)
        /\ \A j \in Attempts : Answered(j, resultsCh) => Answered(j, left)
    BY <1>1, <1>3, OneTaken
  <1>5. \A j \in Attempts : tried[j] = "finished" => j \in failed \/ Answered(j, left)
    BY <1>2, <1>4 DEF Racing, Accounted
  <1> HIDE DEF left
  <1>6. InFlight \in Nat /\ activeCount = Len(resultsCh) + InFlight
    BY <1>2 DEF Racing, InFlight, One
  <1>7. CASE ~Relaunch(activeCount - 1)
    <2>1. UNCHANGED <<hedgeInputs, hedgePc, bodyOf, ctxDone, callerDone, cleaned, drain, returned,
                      picked, tried, failed, req2Started>> /\ resultsCh' = left /\ activeCount' = activeCount - 1
      BY <1>1, <1>7
    <2>2. HedgeType'
      BY <1>1, <1>3, <1>4, <2>1 DEF HedgeType, hedgeInputs
    <2>3. activeCount' = Len(resultsCh') + InFlight' /\ (activeCount' = 0 => req2Started')
      BY <1>4, <1>6, <1>7, <2>1 DEF InFlight, One, Relaunch
    <2>4. \A j \in Attempts : Accounted(j)'
      BY <1>5, <2>1 DEF Accounted
    <2>5. Racing'
      BY <1>2, <2>1, <2>3, <2>4 DEF Racing
    <2>6. Ended'
      BY <1>4, <2>1 DEF Ended, Over
    <2> QED
      BY <1>1, <1>2, <2>1, <2>2, <2>5, <2>6 DEF RaceInv
  <1>8. CASE Relaunch(activeCount - 1)
    <2>1. tried[2] = "none" /\ tried[1] # "none"
      BY <1>2, <1>8, TwoAttempts DEF Racing, Relaunch
    <2>2. req2Started' = TRUE /\ activeCount' = activeCount /\ Second(left)
      BY <1>1, <1>8
    <2>3. SecondRuns(left)
      BY <1>3, <1>4, <1>5, <2>1, <2>2, SecondLaunched
    <2>4. HedgeType'
      BY <1>1, <1>3, <2>2, <2>3 DEF HedgeType, hedgeInputs, SecondRuns
    <2>5. activeCount' = Len(resultsCh') + InFlight' /\ activeCount' # 0
      BY <1>1, <1>3, <1>4, <1>6, <2>2, <2>3 DEF SecondRuns
    <2>6. Racing'
      BY <1>1, <1>2, <2>1, <2>2, <2>3, <2>5 DEF Racing, SecondRuns
    <2> QED
      BY <1>1, <1>2, <2>3, <2>4, <2>6 DEF RaceInv, SecondRuns
  <1> QED
    BY <1>7, <1>8

(* SelectResponse preserves the invariant. *)
LEMMA SelectResponseInv ==
  ASSUME RaceInv, SelectResponse
  PROVE  RaceInv'
  <1> DEFINE res == Head(resultsCh)
  <1>1. /\ UNCHANGED <<hedgeInputs, tried, bodyOf, callerDone, req2Started, failed>>
        /\ hedgePc = "select" /\ hedgePc' = "done" /\ resultsCh # <<>> /\ activeCount > 0
        /\ resultsCh' = Tail(resultsCh) /\ activeCount' = activeCount - 1 /\ drain' = activeCount - 1
        /\ picked' = res[1] /\ returned' = "response" /\ cleaned' = TRUE
        /\ ctxDone' = IF cleaned THEN ctxDone ELSE ctxDone \cup Cancels(TakenForWinner(res[1]))
    BY DEF SelectResponse, Remainder, Cleanup
  <1>2. Racing /\ MayHedge /\ MayHedge'
    BY <1>1, HedgeableStays DEF RaceInv, Racing, hedgeInputs
  <1>3. resultsCh \in Seq(Results) /\ From(resultsCh, Over) /\ activeCount \in Nat
    BY DEF RaceInv, HedgeType, Ended
  <1>4. /\ resultsCh' \in Seq(Results) /\ Len(resultsCh') = Len(resultsCh) - 1 /\ Len(resultsCh) \in Nat \ {0}
        /\ res[1] \in Attempts /\ res[1] \in Over /\ From(resultsCh', Over)
    BY <1>1, <1>3, OneTaken
  <1> HIDE DEF res
  <1>5. Cancels(TakenForWinner(res[1])) = Attempts \ {TakenForWinner(res[1])}
    BY <1>4, TwoAttempts DEF Cancels, TakenForWinner, Attempts
  <1>6. HedgeType'
    <2>1. picked' \in {0, 1, 2}
      BY <1>1, <1>4, TwoAttempts
    <2>2. ctxDone' \in SUBSET Attempts
      BY <1>1, <1>5 DEF RaceInv, HedgeType
    <2>3. activeCount' \in Nat /\ drain' \in Nat
      BY <1>1, <1>3
    <2> QED
      BY <1>1, <1>4, <2>1, <2>2, <2>3 DEF RaceInv, HedgeType, hedgeInputs
  <1>7. Decided'
    <2>1. drain' = Len(resultsCh') + InFlight'
      BY <1>1, <1>2, <1>4 DEF Racing, InFlight, One
    <2>2. ~callerDone => ctxDone' = Attempts \ {TakenForWinner(picked)'}
      BY <1>1, <1>2, <1>5 DEF Racing, TakenForWinner, hedgeInputs
    <2>3. tried'[picked'] = "finished"
      BY <1>1, <1>4 DEF Over
    <2> QED
      BY <1>1, <1>2, <2>1, <2>2, <2>3 DEF Decided
  <1>8. Ended'
    BY <1>1, <1>4 DEF Ended, Over
  <1> QED
    BY <1>1, <1>2, <1>6, <1>7, <1>8 DEF RaceInv

(* ReturnError preserves the invariant: both attempts have failed. *)
LEMMA ReturnErrorInv ==
  ASSUME RaceInv, ReturnError
  PROVE  RaceInv'
  <1>1. /\ UNCHANGED <<hedgeInputs, tried, resultsCh, bodyOf, callerDone, req2Started, activeCount,
                       drain, picked, failed>>
        /\ hedgePc = "select" /\ hedgePc' = "done" /\ activeCount = 0 /\ returned' = "error"
        /\ cleaned' = TRUE /\ ctxDone' \in SUBSET Attempts
    BY TwoAttempts DEF ReturnError, Cleanup, Cancels, RaceInv, HedgeType
  <1>2. Racing /\ MayHedge /\ MayHedge' /\ picked = 0
    BY <1>1, HedgeableStays DEF RaceInv, Racing, hedgeInputs
  <1>3. resultsCh \in Seq(Results) /\ tried \in [Attempts -> {"none", "running", "finished"}]
        /\ failed \in SUBSET Attempts
    BY DEF RaceInv, HedgeType
  <1>4. Len(resultsCh) = 0 /\ InFlight = 0
    BY <1>1, <1>2, <1>3 DEF Racing, InFlight, One
  <1>5. \A j \in Attempts : tried[j] = "finished" /\ ~Answered(j, resultsCh)
    <2>1. tried[1] # "running" /\ tried[2] # "running"
      BY <1>4 DEF InFlight, One
    <2>2. tried[1] # "none" /\ tried[2] # "none"
      BY <1>1, <1>2 DEF Racing
    <2>3. \A j \in Attempts : ~Answered(j, resultsCh)
      BY <1>3, <1>4 DEF Answered
    <2> QED
      BY <1>3, <2>1, <2>2, <2>3, TwoAttempts
  <1>6. failed = Attempts
    BY <1>2, <1>3, <1>5 DEF Racing, Accounted
  <1>7. HedgeType'
    BY <1>1 DEF RaceInv, HedgeType, hedgeInputs
  <1>8. Decided'
    BY <1>1, <1>2, <1>4, <1>6 DEF Decided, Racing, InFlight, One
  <1>9. Ended'
    BY <1>1 DEF RaceInv, Ended, Over
  <1> QED
    BY <1>1, <1>2, <1>7, <1>8, <1>9 DEF RaceInv

(* DrainOne preserves the invariant. *)
LEMMA DrainOneInv ==
  ASSUME RaceInv, DrainOne
  PROVE  RaceInv'
  <1> DEFINE res == Head(resultsCh)
  <1>1. /\ UNCHANGED <<hedgeInputs, hedgePc, tried, ctxDone, callerDone, req2Started, activeCount,
                       cleaned, returned, picked, failed>>
        /\ drain > 0 /\ drain' = drain - 1 /\ resultsCh # <<>> /\ resultsCh' = Tail(resultsCh)
        /\ bodyOf' = IF res[2] THEN [bodyOf EXCEPT ![res[1]] = "closed"] ELSE bodyOf
    BY DEF DrainOne, CloseDrained
  <1>2. resultsCh \in Seq(Results) /\ From(resultsCh, Over) /\ drain \in Nat
    BY DEF RaceInv, HedgeType, Ended
  <1>3. hedgePc = "done" /\ MayHedge /\ MayHedge' /\ Decided
    <2>1. hedgePc # "select"
      BY <1>1 DEF RaceInv, Racing
    <2>2. hedgePc \notin {"start", "plain"} /\ MayHedge
      BY <1>1 DEF RaceInv, NoRace
    <2> QED
      BY <1>1, <2>1, <2>2, HedgeableStays DEF RaceInv, HedgeType, hedgeInputs
  <1>4. /\ resultsCh' \in Seq(Results) /\ Len(resultsCh') = Len(resultsCh) - 1 /\ Len(resultsCh) \in Nat \ {0}
        /\ res[1] \in Attempts /\ From(resultsCh', Over)
    BY <1>1, <1>2, OneTaken
  <1> HIDE DEF res
  <1>5. /\ bodyOf' \in [Attempts -> {"none", "open", "closed"}]
        /\ \A j \in Attempts : bodyOf'[j] = "open" => bodyOf[j] = "open"
    BY <1>1, <1>4 DEF RaceInv, HedgeType
  <1>6. HedgeType'
    BY <1>1, <1>2, <1>4, <1>5 DEF RaceInv, HedgeType, hedgeInputs
  <1>7. Decided'
    <2>1. drain' = Len(resultsCh') + InFlight'
      BY <1>1, <1>3, <1>4 DEF Decided, InFlight, One
    <2>2. picked \in {0} \cup Attempts
      BY TwoAttempts DEF RaceInv, HedgeType
    <2> QED
      BY <1>1, <1>3, <1>5, <2>1, <2>2, WinnerStays DEF Decided
  <1>8. Ended'
    BY <1>1, <1>4 DEF Ended, Over
  <1> QED
    BY <1>1, <1>3, <1>6, <1>7, <1>8 DEF RaceInv

(* CallerCloses preserves the invariant. *)
LEMMA CallerClosesInv ==
  ASSUME RaceInv, CallerCloses
  PROVE  RaceInv'
  <1>1. /\ UNCHANGED <<hedgeInputs, hedgePc, tried, resultsCh, callerDone, req2Started, activeCount,
                       cleaned, drain, returned, picked, failed>>
        /\ hedgePc = "done" /\ picked # 0
        /\ bodyOf' = [bodyOf EXCEPT ![picked] = "closed"]
        /\ ctxDone' = IF MayHedge THEN ctxDone \cup {TakenForWinner(picked)} ELSE ctxDone
    BY DEF CallerCloses
  <1>2. picked \in Attempts /\ TakenForWinner(picked) \in Attempts
    BY <1>1, TwoAttempts DEF RaceInv, HedgeType, TakenForWinner
  <1>3. bodyOf' \in [Attempts -> {"none", "open", "closed"}] /\ bodyOf'[picked] = "closed"
    BY <1>1, <1>2 DEF RaceInv, HedgeType
  <1>4. HedgeType'
    BY <1>1, <1>2, <1>3 DEF RaceInv, HedgeType, hedgeInputs
  <1>5. MayHedge' <=> MayHedge
    BY <1>1, HedgeableStays
  <1>6. Decided'
    BY <1>1, <1>3, <1>5 DEF RaceInv, Decided, InFlight, One
  <1>7. (hedgePc \in {"start", "plain"} \/ ~MayHedge => NoRace)'
    BY <1>1, <1>5 DEF RaceInv, NoRace
  <1>8. Ended'
    BY <1>1 DEF RaceInv, Ended, Over
  <1> QED
    BY <1>1, <1>4, <1>6, <1>7, <1>8 DEF RaceInv

(* CallerCancels preserves the invariant. *)
LEMMA CallerCancelsInv ==
  ASSUME RaceInv, CallerCancels
  PROVE  RaceInv'
  <1>1. /\ UNCHANGED <<hedgeInputs, hedgePc, tried, resultsCh, bodyOf, req2Started, activeCount,
                       cleaned, drain, returned, picked, failed>>
        /\ hedgePc = "select" /\ callerDone' = TRUE /\ ctxDone' = Attempts
    BY DEF CallerCancels
  <1>2. Racing /\ MayHedge /\ MayHedge'
    BY <1>1, HedgeableStays DEF RaceInv, Racing, hedgeInputs
  <1>3. HedgeType'
    BY <1>1 DEF RaceInv, HedgeType, hedgeInputs
  <1>4. Racing'
    BY <1>1, <1>2 DEF Racing, InFlight, One, Accounted
  <1>5. Ended'
    BY <1>1 DEF RaceInv, Ended, Over
  <1> QED
    BY <1>1, <1>2, <1>3, <1>4, <1>5 DEF RaceInv

(* Steps that leave the exchange as it is preserve the invariant. *)
LEMMA RaceSame ==
  ASSUME RaceInv,
         UNCHANGED <<hedgeInputs, hedgePc, tried, resultsCh, bodyOf, ctxDone, callerDone, req2Started,
                     activeCount, cleaned, drain, returned, picked, failed>>
  PROVE  RaceInv'
  <1>1. MayHedge' <=> MayHedge
    BY HedgeableStays
  <1>2. HedgeType'
    BY DEF RaceInv, HedgeType, hedgeInputs
  <1>3. Ended' /\ (NoRace => NoRace')
    BY DEF RaceInv, Ended, Over, NoRace
  <1>4. Racing => Racing'
    BY <1>1 DEF Racing, InFlight, One, Accounted
  <1>5. Decided => Decided'
    BY <1>1, WinnerStays DEF Decided, InFlight, One
  <1> QED
    BY <1>1, <1>2, <1>3, <1>4, <1>5 DEF RaceInv

(* Every exchange begins in the invariant. *)
LEMMA RaceInit == HedgeInit => RaceInv
  <1> SUFFICES ASSUME HedgeInit PROVE RaceInv
    OBVIOUS
  <1>1. HedgeType
    <2>1. repeatable \in BOOLEAN /\ method \in {"reading", "allowed", "mutating", "undelayed"}
      BY InputsAssumption DEF HedgeInit
    <2>2. resultsCh \in Seq(Results)
      BY DEF HedgeInit
    <2>3. tried \in [Attempts -> {"none", "running", "finished"}] /\ bodyOf \in [Attempts -> {"none", "open", "closed"}]
      BY DEF HedgeInit
    <2> QED
      BY <2>1, <2>2, <2>3 DEF HedgeInit, HedgeType
  <1>2. NoRace /\ Ended
    BY TwoAttempts DEF HedgeInit, NoRace, Ended, From
  <1> QED
    BY <1>1, <1>2 DEF HedgeInit, RaceInv

(* No step of the caller, of an attempt, of the drain goroutine or of the    *)
(* timer leaves the invariant.                                               *)
LEMMA RaceStep ==
  ASSUME RaceInv, [HedgeNext]_hedgeVars
  PROVE  RaceInv'
  <1>1. CASE PlainDo
    BY <1>1, PlainDoInv
  <1>2. CASE LaunchFirst
    BY <1>2, LaunchFirstInv
  <1>3. ASSUME NEW ok \in BOOLEAN, PlainReturns(ok) PROVE RaceInv'
    BY <1>3, PlainReturnsInv
  <1>4. CASE SelectCancelled
    BY <1>4, SelectCancelledInv
  <1>5. CASE SelectTimer
    BY <1>5, SelectTimerInv
  <1>6. CASE SelectResponse
    BY <1>6, SelectResponseInv
  <1>7. CASE SelectError
    BY <1>7, SelectErrorInv
  <1>8. CASE ReturnError
    BY <1>8, ReturnErrorInv
  <1>9. ASSUME NEW i \in Attempts, NEW ok \in BOOLEAN, AttemptReturns(i, ok) PROVE RaceInv'
    BY <1>9, AttemptReturnsInv
  <1>10. CASE DrainOne
    BY <1>10, DrainOneInv
  <1>11. CASE CallerCloses
    BY <1>11, CallerClosesInv
  <1>12. CASE TimerFires
    BY <1>12, RaceSame DEF TimerFires
  <1>13. CASE CallerCancels
    BY <1>13, CallerCancelsInv
  <1>14. CASE HedgeTerminated \/ UNCHANGED hedgeVars
    <2>1. UNCHANGED <<hedgeInputs, hedgePc, tried, resultsCh, bodyOf, ctxDone, callerDone, req2Started,
                      activeCount, cleaned, drain, returned, picked, failed>>
      BY <1>14 DEF HedgeTerminated, hedgeVars, hedgeInputs
    <2> QED
      BY <2>1, RaceSame
  <1> QED
    BY <1>1, <1>2, <1>3, <1>4, <1>5, <1>6, <1>7, <1>8, <1>9, <1>10, <1>11, <1>12, <1>13, <1>14
       DEF HedgeNext, Call, Attempt

(* The attempts in flight, counted as RaceSettles counts them. *)
LEMMA Counted ==
  ASSUME tried \in [Attempts -> {"none", "running", "finished"}]
  PROVE  Cardinality({i \in Attempts : tried[i] = "running"}) = InFlight
  <1> DEFINE R == {i \in Attempts : tried[i] = "running"}
  <1>1. CASE tried[1] = "running" /\ tried[2] = "running"
    <2>1. R = 1 .. 2
      BY <1>1 DEF Attempts
    <2>2. Cardinality(1 .. 2) = 2 - 1 + 1
      BY FS_Interval, 1 \in Int, 2 \in Int, ~(1 > 2)
    <2> QED
      BY <1>1, <2>1, <2>2 DEF InFlight, One
  <1>2. CASE tried[1] = "running" /\ tried[2] # "running"
    <2>1. R = {1}
      BY <1>2 DEF Attempts
    <2> QED
      BY <1>2, <2>1, FS_Singleton DEF InFlight, One
  <1>3. CASE tried[1] # "running" /\ tried[2] = "running"
    <2>1. R = {2}
      BY <1>3 DEF Attempts
    <2> QED
      BY <1>3, <2>1, FS_Singleton DEF InFlight, One
  <1>4. CASE tried[1] # "running" /\ tried[2] # "running"
    <2>1. R = {}
      BY <1>4 DEF Attempts
    <2> QED
      BY <1>4, <2>1, FS_EmptySet DEF InFlight, One
  <1> QED
    BY <1>1, <1>2, <1>3, <1>4

(* Every attempt answers once: no two results in the channel are of the     *)
(* same attempt, and none is of the attempt whose response was returned.    *)
Distinct(ch) == \A k, l \in 1 .. Len(ch) : ch[k][1] = ch[l][1] => k = l
Missing(i, ch) == \A k \in 1 .. Len(ch) : ch[k][1] # i

OnceEach ==
  /\ Distinct(resultsCh) /\ Missing(picked, resultsCh)
  /\ hedgePc # "done" => \A i \in Attempts : bodyOf[i] # "closed"

(* The contexts cleanup has cancelled, and that of the closed response. *)
ContextsEnd ==
  MayHedge /\ picked # 0 =>
    /\ Attempts \ {TakenForWinner(picked)} \subseteq ctxDone
    /\ bodyOf[picked] = "closed" => ctxDone = Attempts

(* The channel gets the result of an attempt that had none in it. *)
LEMMA SentOnce ==
  ASSUME NEW ch \in Seq(Results), NEW i \in Attempts, NEW ok \in BOOLEAN, NEW ended,
         From(ch, ended), i \notin ended, Distinct(ch)
  PROVE  /\ Distinct(Append(ch, <<i, ok>>))
         /\ \A j : j # i /\ Missing(j, ch) => Missing(j, Append(ch, <<i, ok>>))
  <1> DEFINE more == Append(ch, <<i, ok>>)
  <1>1. Len(ch) \in Nat /\ <<i, ok>> \in Results /\ <<i, ok>>[1] = i
    BY DEF Results
  <1>2. /\ Len(more) = Len(ch) + 1
        /\ \A k \in 1 .. Len(ch) : more[k] = ch[k]
        /\ more[Len(ch) + 1] = <<i, ok>>
    BY <1>1
  <1>3. \A k \in 1 .. Len(more) : k \in 1 .. Len(ch) \/ k = Len(ch) + 1
    BY <1>1, <1>2
  <1>4. \A k \in 1 .. Len(ch) : ch[k][1] # i
    BY DEF From
  <1> HIDE DEF more
  <1>5. Distinct(more)
    BY <1>1, <1>2, <1>3, <1>4 DEF Distinct
  <1>6. \A j : j # i /\ Missing(j, ch) => Missing(j, more)
    BY <1>1, <1>2, <1>3 DEF Missing
  <1> QED
    BY <1>5, <1>6 DEF more

(* The result taken off the channel was the only one of its attempt. *)
LEMMA TakenOnce ==
  ASSUME NEW ch \in Seq(Results), ch # <<>>, Distinct(ch)
  PROVE  /\ Distinct(Tail(ch)) /\ Missing(Head(ch)[1], Tail(ch))
         /\ \A j : Missing(j, ch) => Missing(j, Tail(ch)) /\ Head(ch)[1] # j
  <1>1. /\ Tail(ch) \in Seq(Results) /\ Len(Tail(ch)) = Len(ch) - 1 /\ Len(ch) \in Nat \ {0}
        /\ Head(ch) = ch[1] /\ 1 \in 1 .. Len(ch)
    OBVIOUS
  <1>2. ASSUME NEW k \in 1 .. Len(Tail(ch)) PROVE k + 1 \in 1 .. Len(ch) /\ k + 1 # 1 /\ Tail(ch)[k] = ch[k + 1]
    BY <1>1
  <1>3. Distinct(Tail(ch))
    <2>1. ASSUME NEW k \in 1 .. Len(Tail(ch)), NEW l \in 1 .. Len(Tail(ch)), Tail(ch)[k][1] = Tail(ch)[l][1]
          PROVE  k = l
      <3>1. k + 1 = l + 1
        BY <1>2, <2>1 DEF Distinct
      <3> QED
        BY <1>1, <3>1
    <2> QED
      BY <2>1 DEF Distinct
  <1>4. Missing(Head(ch)[1], Tail(ch))
    BY <1>1, <1>2 DEF Distinct, Missing
  <1>5. \A j : Missing(j, ch) => Missing(j, Tail(ch)) /\ Head(ch)[1] # j
    BY <1>1, <1>2 DEF Missing
  <1> QED
    BY <1>3, <1>4, <1>5

(* A result of an attempt that ran, or was just tried, is sent. *)
LEMMA OnceSent ==
  ASSUME RaceInv, OnceEach, NEW i \in Attempts, NEW ok \in BOOLEAN, tried[i] # "finished",
         resultsCh' = Append(resultsCh, <<i, ok>>), UNCHANGED <<hedgePc, picked>>,
         i # picked, \A j \in Attempts : bodyOf'[j] # "closed" \/ bodyOf'[j] = bodyOf[j]
  PROVE  OnceEach'
  <1>1. resultsCh \in Seq(Results) /\ From(resultsCh, Over) /\ i \notin Over
    BY DEF RaceInv, HedgeType, Ended, Over
  <1>2. /\ Distinct(resultsCh')
        /\ \A j : j # i /\ Missing(j, resultsCh) => Missing(j, resultsCh')
    BY <1>1, SentOnce DEF OnceEach
  <1> QED
    BY <1>2 DEF OnceEach

(* No step makes an attempt answer twice. *)
LEMMA OnceStep ==
  ASSUME RaceInv, OnceEach, [HedgeNext]_hedgeVars
  PROVE  OnceEach'
  <1>1. resultsCh \in Seq(Results) /\ From(resultsCh, Over) /\ Distinct(resultsCh) /\ Missing(picked, resultsCh)
    BY DEF RaceInv, HedgeType, Ended, OnceEach
  <1>2. hedgePc # "done" => picked = 0 /\ \A i \in Attempts : bodyOf[i] # "closed"
    BY DEF RaceInv, OnceEach
  <1>3. CASE UNCHANGED <<hedgePc, resultsCh, bodyOf, picked>>
    BY <1>3 DEF OnceEach
  <1>4. CASE resultsCh' = resultsCh /\ hedgePc' = "done" /\ picked' = picked
    BY <1>4 DEF OnceEach
  <1>5. CASE LaunchFirst
    <2>1. /\ UNCHANGED <<bodyOf, picked>> /\ hedgePc = "start" /\ hedgePc' = "select" /\ MayHedge
          /\ resultsCh' = resultsCh \/ resultsCh' = Append(resultsCh, <<1, FALSE>>)
      BY <1>5 DEF LaunchFirst, LaunchEffect
    <2>2. tried[1] # "finished" /\ picked = 0
      BY <2>1 DEF RaceInv, NoRace
    <2>3. 1 \notin Over
      BY <2>2 DEF Over
    <2>4. CASE resultsCh' = resultsCh
      BY <1>2, <2>1, <2>4 DEF OnceEach
    <2>5. CASE resultsCh' = Append(resultsCh, <<1, FALSE>>)
      <3>1. FALSE \in BOOLEAN /\ 1 # picked
        BY <2>2
      <3>2. Distinct(resultsCh') /\ Missing(picked, resultsCh')
        BY <1>1, <2>3, <2>5, <3>1, SentOnce, TwoAttempts
      <3> QED
        BY <1>2, <2>1, <3>2 DEF OnceEach
    <2> QED
      BY <2>1, <2>4, <2>5
  <1>6. ASSUME NEW ok \in BOOLEAN, PlainReturns(ok) PROVE OnceEach'
    <2>1. resultsCh' = resultsCh /\ hedgePc' = "done" /\ resultsCh = <<>>
      BY <1>6 DEF PlainReturns, RaceInv, NoRace
    <2> QED
      BY <1>1, <2>1 DEF OnceEach, Missing
  <1>7. CASE PlainDo
    BY <1>2, <1>7 DEF PlainDo, OnceEach
  <1>8. ASSUME NEW i \in Attempts, NEW ok \in BOOLEAN, AttemptReturns(i, ok) PROVE OnceEach'
    <2>1. /\ tried[i] = "running" /\ UNCHANGED <<hedgePc, picked>>
          /\ resultsCh' = Append(resultsCh, <<i, ok>>)
          /\ bodyOf' = IF ok THEN [bodyOf EXCEPT ![i] = "open"] ELSE bodyOf
      BY <1>8 DEF AttemptReturns
    <2>2. i # picked
      <3>1. CASE hedgePc = "done"
        <4>1. picked # 0 => tried[picked] = "finished"
          BY <3>1 DEF RaceInv, Decided
        <4> QED
          BY <2>1, <4>1, TwoAttempts
      <3>2. CASE hedgePc # "done"
        BY <1>2, <3>2, TwoAttempts
      <3> QED
        BY <3>1, <3>2
    <2>3. \A j \in Attempts : bodyOf'[j] # "closed" \/ bodyOf'[j] = bodyOf[j]
      BY <2>1 DEF RaceInv, HedgeType
    <2> QED
      BY <2>1, <2>2, <2>3, OnceSent
  <1>9. CASE SelectCancelled
    BY <1>4, <1>9 DEF SelectCancelled
  <1>10. CASE SelectTimer
    <2>1. /\ UNCHANGED <<hedgePc, bodyOf, picked>> /\ hedgePc = "select" /\ MayHedge
          /\ \/ resultsCh' = resultsCh
             \/ ~req2Started /\ resultsCh' = Append(resultsCh, <<2, FALSE>>)
      BY <1>10 DEF SelectTimer, LaunchEffect, RaceInv, Racing
    <2>2. ~req2Started => tried[2] # "finished"
      BY <2>1 DEF RaceInv, Racing
    <2>3. CASE resultsCh' = resultsCh
      BY <1>3, <2>1, <2>3
    <2>4. CASE ~req2Started /\ resultsCh' = Append(resultsCh, <<2, FALSE>>)
      <3>1. picked = 0 /\ 2 # picked /\ tried[2] # "finished" /\ FALSE \in BOOLEAN
        BY <1>2, <2>1, <2>2, <2>4
      <3> QED
        BY <2>1, <2>4, <3>1, OnceSent, TwoAttempts
    <2> QED
      BY <2>1, <2>3, <2>4
  <1>11. CASE SelectResponse
    <2>1. resultsCh # <<>> /\ resultsCh' = Tail(resultsCh) /\ picked' = Head(resultsCh)[1] /\ hedgePc' = "done"
      BY <1>11 DEF SelectResponse
    <2> QED
      BY <1>1, <2>1, TakenOnce DEF OnceEach
  <1>12. CASE SelectError
    <2>1. /\ UNCHANGED <<hedgePc, bodyOf, picked>> /\ hedgePc = "select" /\ resultsCh # <<>>
          /\ \/ resultsCh' = Tail(resultsCh)
             \/ ~req2Started /\ resultsCh' = Append(Tail(resultsCh), <<2, FALSE>>)
      BY <1>12 DEF SelectError, Relaunch
    <2>2. /\ Tail(resultsCh) \in Seq(Results) /\ From(Tail(resultsCh), Over)
          /\ Distinct(Tail(resultsCh)) /\ Missing(picked, Tail(resultsCh))
      BY <1>1, <2>1, TakenOnce, OneTaken
    <2>3. ~req2Started => 2 \notin Over
      BY <2>1 DEF RaceInv, Racing, Over
    <2>4. CASE resultsCh' = Tail(resultsCh)
      BY <1>2, <2>1, <2>2, <2>4 DEF OnceEach
    <2>5. CASE ~req2Started /\ resultsCh' = Append(Tail(resultsCh), <<2, FALSE>>)
      <3>1. FALSE \in BOOLEAN /\ 2 # picked /\ 2 \notin Over
        BY <1>2, <2>1, <2>3, <2>5
      <3>2. Distinct(resultsCh') /\ Missing(picked, resultsCh')
        BY <2>2, <2>5, <3>1, SentOnce, TwoAttempts
      <3> QED
        BY <1>2, <2>1, <3>2 DEF OnceEach
    <2> QED
      BY <2>1, <2>4, <2>5
  <1>13. CASE ReturnError
    BY <1>4, <1>13 DEF ReturnError
  <1>14. CASE DrainOne
    <2>1. drain > 0 /\ resultsCh # <<>> /\ resultsCh' = Tail(resultsCh) /\ UNCHANGED <<hedgePc, picked>>
      BY <1>14 DEF DrainOne
    <2>2. hedgePc = "done"
      BY <2>1 DEF RaceInv, NoRace, Racing, HedgeType
    <2> QED
      BY <1>1, <2>1, <2>2, TakenOnce DEF OnceEach
  <1>15. CASE CallerCloses
    BY <1>4, <1>15 DEF CallerCloses
  <1>16. CASE TimerFires \/ CallerCancels \/ HedgeTerminated \/ UNCHANGED hedgeVars
    BY <1>3, <1>16 DEF TimerFires, CallerCancels, HedgeTerminated, hedgeVars
  <1> QED
    BY <1>5, <1>6, <1>7, <1>8, <1>9, <1>10, <1>11, <1>12, <1>13, <1>14, <1>15, <1>16
       DEF HedgeNext, Call, Attempt

(* A context that has ended stays so, and the body of the returned response *)
(* as it is: the contexts stay accounted for.                               *)
LEMMA ContextsKept ==
  ASSUME HedgeType, ContextsEnd, UNCHANGED hedgeInputs, picked' = picked, ctxDone \subseteq ctxDone',
         ctxDone' \subseteq Attempts, picked # 0 /\ bodyOf'[picked] = "closed" => bodyOf[picked] = "closed"
  PROVE  ContextsEnd'
  <1>1. TakenForWinner(picked)' = TakenForWinner(picked)
    BY DEF TakenForWinner, hedgeInputs
  <1> QED
    BY <1>1, HedgeableStays DEF ContextsEnd

(* Every step keeps the accounts of the contexts. *)
LEMMA ContextsStep ==
  ASSUME RaceInv, RaceInv', OnceEach, ContextsEnd, [HedgeNext]_hedgeVars
  PROVE  ContextsEnd'
  <1>1. HedgeType /\ ctxDone \subseteq Attempts /\ ctxDone' \subseteq Attempts
    BY DEF RaceInv, HedgeType
  <1>2. CASE UNCHANGED <<hedgeInputs, picked, bodyOf>> /\ ctxDone \subseteq ctxDone'
    BY <1>1, <1>2, ContextsKept
  <1>3. CASE UNCHANGED <<hedgeInputs, picked, bodyOf, ctxDone>>
    BY <1>2, <1>3
  <1>4. CASE PlainDo \/ LaunchFirst \/ SelectTimer \/ SelectError \/ TimerFires \/ HedgeTerminated \/ UNCHANGED hedgeVars
    BY <1>3, <1>4 DEF PlainDo, LaunchFirst, SelectTimer, SelectError, TimerFires, HedgeTerminated,
                      hedgeVars, hedgeInputs
  <1>5. CASE SelectCancelled \/ ReturnError
    BY <1>2, <1>5 DEF SelectCancelled, ReturnError, Cleanup
  <1>6. CASE CallerCancels
    BY <1>1, <1>2, <1>6 DEF CallerCancels
  <1>7. ASSUME NEW ok \in BOOLEAN, PlainReturns(ok) PROVE ContextsEnd'
    <2>1. ~MayHedge'
      BY <1>7, HedgeableStays DEF PlainReturns, RaceInv
    <2> QED
      BY <2>1 DEF ContextsEnd
  <1>8. CASE SelectResponse
    <2> DEFINE res == Head(resultsCh)
    <2>1. /\ UNCHANGED hedgeInputs /\ hedgePc = "select" /\ resultsCh # <<>> /\ picked' = res[1] /\ bodyOf' = bodyOf
          /\ ctxDone' = IF cleaned THEN ctxDone ELSE ctxDone \cup Cancels(TakenForWinner(res[1]))
      BY <1>8 DEF SelectResponse, Cleanup
    <2>2. resultsCh \in Seq(Results) /\ ~cleaned
      BY <2>1 DEF RaceInv, Racing, HedgeType
    <2>3. res[1] \in Attempts
      BY <2>1, <2>2, OneTaken
    <2> HIDE DEF res
    <2>4. Cancels(TakenForWinner(res[1])) = Attempts \ {TakenForWinner(res[1])}
      BY <2>3, TwoAttempts DEF Cancels, TakenForWinner, Attempts
    <2>5. TakenForWinner(picked)' = TakenForWinner(res[1])
      BY <2>1 DEF TakenForWinner, hedgeInputs
    <2>6. bodyOf'[picked'] # "closed"
      BY <2>1, <2>3 DEF OnceEach
    <2>7. Attempts \ {TakenForWinner(picked)'} \subseteq ctxDone'
      BY <2>1, <2>2, <2>4, <2>5
    <2> QED
      BY <2>6, <2>7 DEF ContextsEnd
  <1>9. ASSUME NEW i \in Attempts, NEW ok \in BOOLEAN, AttemptReturns(i, ok) PROVE ContextsEnd'
    <2>1. /\ UNCHANGED <<hedgeInputs, picked, ctxDone>>
          /\ bodyOf' = IF ok THEN [bodyOf EXCEPT ![i] = "open"] ELSE bodyOf
      BY <1>9 DEF AttemptReturns
    <2>2. picked # 0 /\ bodyOf'[picked] = "closed" => bodyOf[picked] = "closed"
      BY <2>1 DEF RaceInv, HedgeType
    <2> QED
      BY <1>1, <2>1, <2>2, ContextsKept
  <1>10. CASE DrainOne
    <2>1. /\ UNCHANGED <<hedgeInputs, picked, ctxDone>> /\ resultsCh # <<>>
          /\ bodyOf' = IF Head(resultsCh)[2] THEN [bodyOf EXCEPT ![Head(resultsCh)[1]] = "closed"] ELSE bodyOf
      BY <1>10 DEF DrainOne, CloseDrained
    <2>2. Head(resultsCh)[1] # picked
      BY <2>1, TakenOnce DEF RaceInv, HedgeType, OnceEach
    <2>3. bodyOf \in [Attempts -> {"none", "open", "closed"}] /\ (picked # 0 => picked \in Attempts)
      BY TwoAttempts DEF RaceInv, HedgeType
    <2>4. picked # 0 => bodyOf'[picked] = bodyOf[picked]
      BY <2>1, <2>2, <2>3
    <2> QED
      BY <1>1, <2>1, <2>4, ContextsKept
  <1>11. CASE CallerCloses
    <2>1. /\ UNCHANGED <<hedgeInputs, picked>>
          /\ ctxDone' = IF MayHedge THEN ctxDone \cup {TakenForWinner(picked)} ELSE ctxDone
      BY <1>11 DEF CallerCloses
    <2>2. TakenForWinner(picked)' = TakenForWinner(picked) /\ (MayHedge' <=> MayHedge)
      BY <2>1, HedgeableStays DEF TakenForWinner, hedgeInputs
    <2>3. MayHedge /\ picked # 0 => Attempts \subseteq ctxDone'
      BY <2>1 DEF ContextsEnd
    <2> QED
      BY <1>1, <2>1, <2>2, <2>3 DEF ContextsEnd
  <1> QED
    BY <1>4, <1>5, <1>6, <1>7, <1>8, <1>9, <1>10, <1>11 DEF HedgeNext, Call, Attempt

(* All that is kept along a race, taken together. *)
HedgeIInv == RaceInv /\ OnceEach /\ ContextsEnd

(* It gives the property. *)
LEMMA RaceSettled == HedgeIInv => RaceSettles
  <1> SUFFICES ASSUME HedgeIInv PROVE RaceSettles
    OBVIOUS
  <1>1. Cardinality({i \in Attempts : tried[i] = "running"}) = InFlight
    BY Counted DEF HedgeIInv, RaceInv, HedgeType
  <1>2. hedgePc # "done" => picked = 0 /\ returned = "none"
    BY DEF HedgeIInv, RaceInv
  <1>3. hedgePc = "done" => Decided
    BY DEF HedgeIInv, RaceInv
  <1>4. hedgePc = "done" /\ MayHedge => drain = Len(resultsCh) + InFlight
    BY <1>3 DEF Decided
  <1>5. MayHedge /\ picked # 0 /\ ~callerDone /\ bodyOf[picked] = "open" /\ (wraps => picked = 1) =>
          ctxDone = Attempts \ {picked}
    <2>1. picked \in {0, 1, 2} /\ ((wraps => picked = 1) /\ picked # 0 => TakenForWinner(picked) = picked)
      BY DEF HedgeIInv, RaceInv, HedgeType, TakenForWinner
    <2> QED
      BY <1>2, <1>3, <2>1 DEF Decided
  <1>6. MayHedge /\ picked # 0 /\ bodyOf[picked] = "closed" => ctxDone = Attempts
    BY DEF HedgeIInv, ContextsEnd
  <1>7. returned = "error" => failed = (IF MayHedge THEN Attempts ELSE {1})
    BY <1>2, <1>3 DEF Decided
  <1> QED
    BY <1>1, <1>4, <1>5, <1>6, <1>7 DEF RaceSettles

(* Every exchange begins in it. *)
LEMMA HedgeBegins == HedgeInit => HedgeIInv
  <1> SUFFICES ASSUME HedgeInit PROVE HedgeIInv
    OBVIOUS
  <1>1. resultsCh = <<>> /\ picked = 0 /\ \A i \in Attempts : bodyOf[i] = "none"
    BY DEF HedgeInit
  <1>2. OnceEach
    BY <1>1 DEF OnceEach, Distinct, Missing
  <1>3. ContextsEnd
    BY <1>1 DEF ContextsEnd
  <1> QED
    BY <1>2, <1>3, RaceInit DEF HedgeIInv

(* However the timer, the two answers and the caller's cancellation are      *)
(* ordered, and whether or not the doer answers under a context of its own,  *)
(* executeWithHedging leaves no result behind and returns an error only when *)
(* every attempt it may make has failed; the context of the response it      *)
(* returns is alive and that of the loser cancelled, unless handleHedgeWinner *)
(* could not recognise the second attempt; and when the body is closed both  *)
(* contexts have ended.                                                      *)
THEOREM HedgingSettles == HedgeSpec => []RaceSettles
  <1>1. HedgeInit => HedgeIInv
    BY HedgeBegins
  <1>2. HedgeIInv /\ [HedgeNext]_hedgeVars => HedgeIInv'
    <2> SUFFICES ASSUME HedgeIInv, [HedgeNext]_hedgeVars PROVE HedgeIInv'
      OBVIOUS
    <2>1. RaceInv'
      BY RaceStep DEF HedgeIInv
    <2> QED
      BY <2>1, OnceStep, ContextsStep DEF HedgeIInv
  <1>3. HedgeIInv => RaceSettles
    BY RaceSettled
  <1> QED
    BY <1>1, <1>2, <1>3, PTL DEF HedgeSpec

-----------------------------------------------------------------------------
(* Event streams. *)

Events == [id : BOOLEAN, kind : {"data", "done", "trailer", "bad"}]

StreamType ==
  /\ format \in [Streams -> Formats] /\ log \in [Streams -> Seq(Events)]
  /\ spc \in [Streams -> {"connect", "await", "read", "send", "sleep", "ended"}]
  /\ link \in [Streams -> {"none", "open", "empty", "eof", "eof204", "failed", "done", "closed"}]
  /\ sentUpto \in [Streams -> Nat] /\ lastId \in [Streams -> Nat] /\ pending \in [Streams -> Nat]
  /\ out \in [Streams -> Seq(Nat)] /\ received \in [Streams -> Seq(Nat)]
  /\ errs \in [Streams -> Nat]
  /\ watcher \in [Streams -> {"armed", "gone"}]

(* The position of the last event taken, and those that carry an id. *)
Last(s) == IF Taken(s) = <<>> THEN 0 ELSE Taken(s)[Len(Taken(s))]
Named(s) == {Taken(s)[i] : i \in {j \in 1 .. Len(Taken(s)) : log[s][Taken(s)[j]].id}}

(* A resumption starts behind p. *)
ResumesAt(s, p) == p \in Named(s) \cup {0} /\ \A m \in Named(s) : m <= p

(* Over, a stream holds nothing; before, it has reported nothing. *)
Closes(s) ==
  /\ spc[s] = "ended" => link[s] \in {"none", "closed"} /\ watcher[s] = "gone"
  /\ spc[s] # "ended" => errs[s] = 0
  /\ ~Resumes(s) => out[s] = <<>>

(* lastEventID is where a resumption starts; a stream that does not resume   *)
(* connects only once.                                                       *)
Remembers(s) ==
  /\ spc[s] \in {"connect", "await", "read", "sleep"} => ResumesAt(s, lastId[s])
  /\ spc[s] \in {"connect", "await", "sleep"} /\ ~Resumes(s) => Taken(s) = <<>>

(* What the server has sent on a connection whose events are still read. *)
Follows(s) ==
  spc[s] = "read" /\ link[s] \in {"open", "eof", "failed"} =>
    /\ lastId[s] <= sentUpto[s]
    /\ sentUpto[s] = Last(s) \/ (Resumes(s) /\ sentUpto[s] = lastId[s])

(* The event between NextEvent and the channel. *)
Pends(s) ==
  spc[s] = "send" =>
    LET n == pending[s] IN
    /\ n = sentUpto[s] /\ n \in 1 .. Len(log[s])
    /\ log[s][n].kind \notin {"done", "trailer"}
    /\ n = Last(s) + 1 \/ (Resumes(s) /\ \E p \in Nat : ResumesAt(s, p) /\ n = p + 1)
    /\ \A m \in Named(s) : m < n
    /\ IF log[s][n].id THEN lastId[s] = n ELSE ResumesAt(s, lastId[s])

StreamOK(s) == Closes(s) /\ Remembers(s) /\ Follows(s) /\ Pends(s)

StreamInv == StreamType /\ \A s \in Streams : StreamOK(s)

(* A step of s leaves the other streams as they are. *)
Others(s) ==
  \A t \in Streams \ {s} :
    /\ spc'[t] = spc[t] /\ link'[t] = link[t] /\ sentUpto'[t] = sentUpto[t]
    /\ lastId'[t] = lastId[t] /\ pending'[t] = pending[t] /\ out'[t] = out[t]
    /\ received'[t] = received[t] /\ errs'[t] = errs[t] /\ watcher'[t] = watcher[t]

-----------------------------------------------------------------------------
(* A stream that a step leaves as it is keeps its part of the invariant. *)
LEMMA Untouched ==
  ASSUME NEW t, StreamOK(t), UNCHANGED <<format, log>>,
         spc'[t] = spc[t], link'[t] = link[t], sentUpto'[t] = sentUpto[t], lastId'[t] = lastId[t],
         pending'[t] = pending[t], out'[t] = out[t], received'[t] = received[t], errs'[t] = errs[t],
         watcher'[t] = watcher[t]
  PROVE  StreamOK(t)'
  <1>1. Taken(t)' = Taken(t) /\ (Resumes(t)' <=> Resumes(t))
    BY DEF Taken, Resumes
  <1>2. Named(t)' = Named(t) /\ Last(t)' = Last(t)
    BY <1>1 DEF Named, Last
  <1>3. \A p : ResumesAt(t, p)' <=> ResumesAt(t, p)
    BY <1>2 DEF ResumesAt
  <1>4. Closes(t)'
    BY <1>1 DEF StreamOK, Closes
  <1>5. Remembers(t)'
    BY <1>1, <1>3 DEF StreamOK, Remembers
  <1>6. Follows(t)'
    BY <1>1, <1>2 DEF StreamOK, Follows
  <1>7. Pends(t)'
    BY <1>1, <1>2, <1>3 DEF StreamOK, Pends
  <1> QED
    BY <1>4, <1>5, <1>6, <1>7 DEF StreamOK

(* It is enough to look at the stream that steps. *)
LEMMA OneSteps ==
  ASSUME StreamInv, NEW s \in Streams, UNCHANGED <<format, log>>, Others(s), StreamType', StreamOK(s)'
  PROVE  StreamInv'
  <1>1. ASSUME NEW t \in Streams, t # s PROVE StreamOK(t)'
    BY <1>1, Untouched DEF StreamInv, Others
  <1> QED
    BY <1>1 DEF StreamInv

(* Events move from out to the consumer: together they stay as they are. *)
LEMMA Moved ==
  ASSUME NEW a \in Seq(Nat), NEW b \in Seq(Nat), b # <<>>
  PROVE  Append(a, Head(b)) \o Tail(b) = a \o b
  <1>1. Head(b) \in Nat /\ Tail(b) \in Seq(Nat) /\ b = <<Head(b)>> \o Tail(b)
    OBVIOUS
  <1>2. Append(a, Head(b)) = a \o <<Head(b)>>
    BY <1>1, AppendIsConcat
  <1>3. (a \o <<Head(b)>>) \o Tail(b) = a \o (<<Head(b)>> \o Tail(b))
    BY <1>1, ConcatAssociative
  <1> QED
    BY <1>1, <1>2, <1>3

(* Behind a \o b comes the value sent, in whichever of the two it is put. *)
LEMMA SentLast ==
  ASSUME NEW a \in Seq(Nat), NEW b \in Seq(Nat), NEW n \in Nat
  PROVE  /\ a \o Append(b, n) = Append(a \o b, n)
         /\ b = <<>> => Append(a, n) \o b = Append(a \o b, n)
  <1>1. Append(b, n) = b \o <<n>> /\ <<n>> \in Seq(Nat) /\ a \o b \in Seq(Nat)
    BY AppendIsConcat
  <1>2. Append(a \o b, n) = (a \o b) \o <<n>>
    BY <1>1, AppendIsConcat
  <1>3. (a \o b) \o <<n>> = a \o (b \o <<n>>)
    BY <1>1, ConcatAssociative
  <1>4. b = <<>> => Append(a, n) \o b = Append(a \o b, n)
    <2>1. Append(a, n) \in Seq(Nat)
      OBVIOUS
    <2> QED
      BY <2>1, ConcatEmptySeq
  <1> QED
    BY <1>1, <1>2, <1>3, <1>4

-----------------------------------------------------------------------------
(* A step that ends the stream, with or without an error (Leave and Fail),  *)
(* is the End of the feed: the response is let go, and the error is the     *)
(* first one.                                                               *)
LEMMA Ends ==
  ASSUME StreamInv, NEW s \in Streams, NEW reason, spc[s] # "ended", Leave(s, reason),
         UNCHANGED errs \/ errs' = Upd(errs, s, errs[s] + 1),
         UNCHANGED <<format, log, lastId, pending, out, received>>,
         sentUpto' \in [Streams -> Nat], \A t \in Streams \ {s} : sentUpto'[t] = sentUpto[t]
  PROVE  StreamInv' /\ Feed!End(s)
  <1>1. StreamType /\ StreamOK(s) /\ errs[s] = 0
    BY DEF StreamInv, StreamOK, Closes
  <1>2. /\ spc' = [spc EXCEPT ![s] = "ended"] /\ link' = [link EXCEPT ![s] = ClosedBody(s)]
        /\ watcher' = [watcher EXCEPT ![s] = "gone"]
        /\ errs' = errs \/ errs' = [errs EXCEPT ![s] = 1]
    BY <1>1 DEF Leave, Upd
  <1>3. ClosedBody(s) \in {"none", "closed"}
    BY DEF ClosedBody
  <1>4. /\ spc' \in [Streams -> {"connect", "await", "read", "send", "sleep", "ended"}]
        /\ spc'[s] = "ended" /\ \A t \in Streams \ {s} : spc'[t] = spc[t]
    BY <1>1, <1>2 DEF StreamType
  <1>5. /\ link' \in [Streams -> {"none", "open", "empty", "eof", "eof204", "failed", "done", "closed"}]
        /\ link'[s] \in {"none", "closed"} /\ \A t \in Streams \ {s} : link'[t] = link[t]
    BY <1>1, <1>2, <1>3 DEF StreamType
  <1>6. /\ watcher' \in [Streams -> {"armed", "gone"}]
        /\ watcher'[s] = "gone" /\ \A t \in Streams \ {s} : watcher'[t] = watcher[t]
    BY <1>1, <1>2 DEF StreamType
  <1>7. errs' \in [Streams -> Nat] /\ \A t \in Streams \ {s} : errs'[t] = errs[t]
    BY <1>1, <1>2 DEF StreamType
  <1>8. StreamType'
    BY <1>1, <1>4, <1>5, <1>6, <1>7 DEF StreamType
  <1>9. StreamOK(s)'
    BY <1>1, <1>4, <1>5, <1>6 DEF StreamOK, Closes, Remembers, Follows, Pends, Resumes
  <1>10. Others(s)
    BY <1>4, <1>5, <1>6, <1>7 DEF Others
  <1>11. StreamInv'
    BY <1>8, <1>9, <1>10, OneSteps
  <1>12. Feed!End(s)
    <2>1. [t \in Streams |-> Taken(t)]' = [t \in Streams |-> Taken(t)]
      BY DEF Taken
    <2>2. {t \in Streams : Resumes(t)}' = {t \in Streams : Resumes(t)}
      BY DEF Resumes
    <2>3. {t \in Streams : spc[t] = "ended"}' = {t \in Streams : spc[t] = "ended"} \cup {s}
      BY <1>4
    <2>4. {t \in Streams : link[t] \notin {"none", "closed"} \/ watcher[t] = "armed"}' =
            {t \in Streams : link[t] \notin {"none", "closed"} \/ watcher[t] = "armed"} \ {s}
      BY <1>5, <1>6
    <2>5. s \notin {t \in Streams : spc[t] = "ended"}
      OBVIOUS
    <2> QED
      BY <1>2, <2>1, <2>2, <2>3, <2>4, <2>5 DEF Feed!End
  <1> QED
    BY <1>11, <1>12

(* A step that takes or lets go of a response and delivers nothing is a      *)
(* Connection of the feed; one that does neither is none of its business.    *)
LEMMA Connects ==
  ASSUME NEW s \in Streams, UNCHANGED <<format, log, out, received, errs>>, spc[s] # "ended", spc'[s] # "ended",
         \A t \in Streams \ {s} : spc'[t] = spc[t] /\ link'[t] = link[t] /\ watcher'[t] = watcher[t]
  PROVE  Feed!Connection(s)
  <1> DEFINE Held == {t \in Streams : link[t] \notin {"none", "closed"} \/ watcher[t] = "armed"}
  <1>1. [t \in Streams |-> Taken(t)]' = [t \in Streams |-> Taken(t)]
    BY DEF Taken
  <1>2. {t \in Streams : Resumes(t)}' = {t \in Streams : Resumes(t)}
    BY DEF Resumes
  <1>3. /\ {t \in Streams : spc[t] = "ended"}' = {t \in Streams : spc[t] = "ended"}
        /\ s \notin {t \in Streams : spc[t] = "ended"}
    OBVIOUS
  <1>4. Held' \in {Held \cup {s}, Held \ {s}}
    <2>1. CASE s \in Held'
      <3>1. Held' = Held \cup {s}
        BY <2>1
      <3> QED
        BY <3>1
    <2>2. CASE s \notin Held'
      <3>1. Held' = Held \ {s}
        BY <2>2
      <3> QED
        BY <3>1
    <2> QED
      BY <2>1, <2>2
  <1> QED
    BY <1>1, <1>2, <1>3, <1>4 DEF Feed!Connection

(* A step that concerns neither the events taken nor the response. *)
LEMMA Quiet ==
  ASSUME UNCHANGED <<format, log, errs, link, watcher>>,
         \A t \in Streams : Taken(t)' = Taken(t) /\ (spc'[t] = "ended" <=> spc[t] = "ended")
  PROVE  UNCHANGED Feed!feedVars
  <1>1. [t \in Streams |-> Taken(t)]' = [t \in Streams |-> Taken(t)]
    OBVIOUS
  <1>2. {t \in Streams : Resumes(t)}' = {t \in Streams : Resumes(t)}
    BY DEF Resumes
  <1>3. {t \in Streams : spc[t] = "ended"}' = {t \in Streams : spc[t] = "ended"}
    OBVIOUS
  <1>4. {t \in Streams : link[t] \notin {"none", "closed"} \/ watcher[t] = "armed"}' =
          {t \in Streams : link[t] \notin {"none", "closed"} \/ watcher[t] = "armed"}
    OBVIOUS
  <1> QED
    BY <1>1, <1>2, <1>3, <1>4 DEF Feed!feedVars

(* Where the last id points is where the feed lets a resumption start. *)
LEMMA PointOf ==
  ASSUME NEW s \in Streams, NEW p \in Nat, Named(s) \subseteq Nat, ResumesAt(s, p)
  PROVE  Feed!ResumePoint(s) = p
  <1> DEFINE F == [t \in Streams |-> Taken(t)]
  <1>1. F[s] = Taken(s)
    OBVIOUS
  <1>2. Feed!ResumePoint(s) = CHOOSE n \in Named(s) \cup {0} : \A m \in Named(s) : m <= n
    BY <1>1 DEF Feed!ResumePoint, Named
  <1>3. \A n \in Named(s) \cup {0} : (\A m \in Named(s) : m <= n) => n = p
    BY DEF ResumesAt
  <1>4. p \in Named(s) \cup {0} /\ \A m \in Named(s) : m <= p
    BY DEF ResumesAt
  <1> QED
    BY <1>2, <1>3, <1>4, Zenon

(* Sending the next event of the log, or the one behind the last id, is a    *)
(* Deliver of the feed.                                                      *)
LEMMA Delivers ==
  ASSUME StreamInv, NEW s \in Streams, NEW n, n = pending[s], spc[s] = "send", log[s][n].kind = "data",
         UNCHANGED <<format, log, errs, link, watcher>>,
         Taken(s)' = Append(Taken(s), n), \A t \in Streams \ {s} : Taken(t)' = Taken(t),
         spc'[s] # "ended", \A t \in Streams \ {s} : spc'[t] = spc[t], Named(s) \subseteq Nat
  PROVE  n \in 1 .. Len(log[s]) /\ Feed!Deliver(s, n)
  <1> DEFINE F == [t \in Streams |-> Taken(t)]
  <1>1. Pends(s) /\ n \in 1 .. Len(log[s])
    BY DEF StreamInv, StreamOK, Pends
  <1>2. F' = [F EXCEPT ![s] = Append(@, n)]
    OBVIOUS
  <1>3. {t \in Streams : Resumes(t)}' = {t \in Streams : Resumes(t)}
    BY DEF Resumes
  <1>4. /\ {t \in Streams : spc[t] = "ended"}' = {t \in Streams : spc[t] = "ended"}
        /\ s \notin {t \in Streams : spc[t] = "ended"}
    OBVIOUS
  <1>5. {t \in Streams : link[t] \notin {"none", "closed"} \/ watcher[t] = "armed"}' =
          {t \in Streams : link[t] \notin {"none", "closed"} \/ watcher[t] = "armed"}
    OBVIOUS
  <1>6. Feed!LastDelivered(s) = Last(s)
    BY DEF Feed!LastDelivered, Last
  <1>7. n = Feed!LastDelivered(s) + 1 \/ (s \in {t \in Streams : Resumes(t)} /\ n = Feed!ResumePoint(s) + 1)
    <2>1. CASE n = Last(s) + 1
      BY <1>6, <2>1
    <2>2. ASSUME Resumes(s), NEW p \in Nat, ResumesAt(s, p), n = p + 1
          PROVE  n = Feed!ResumePoint(s) + 1
      BY <2>2, PointOf
    <2> QED
      BY <1>1, <2>1, <2>2 DEF Pends
  <1> QED
    BY <1>1, <1>2, <1>3, <1>4, <1>5, <1>7 DEF Feed!Deliver

-----------------------------------------------------------------------------
(* Only positions are taken. *)
LEMMA PositionsNamed ==
  ASSUME StreamType, NEW s \in Streams
  PROVE  Taken(s) \in Seq(Nat) /\ Len(Taken(s)) \in Nat /\ Named(s) \subseteq Nat /\ Last(s) \in Nat
  <1>1. received[s] \in Seq(Nat) /\ out[s] \in Seq(Nat)
    BY DEF StreamType
  <1>2. Taken(s) \in Seq(Nat)
    BY <1>1, ConcatProperties DEF Taken
  <1> QED
    BY <1>2 DEF Named, Last

(* A step that changes the control point of s alone, and takes nothing. *)
LEMMA Turns ==
  ASSUME StreamInv, NEW s \in Streams, NEW place, spc' = Upd(spc, s, place),
         \/ spc[s] = "connect" /\ place = "await"
         \/ spc[s] = "sleep" /\ place = "connect"
         \/ spc[s] = "await" /\ place = "sleep",
         UNCHANGED <<format, log, link, sentUpto, lastId, pending, out, received, errs, watcher>>
  PROVE  StreamInv' /\ UNCHANGED Feed!feedVars
  <1>1. StreamType /\ StreamOK(s)
    BY DEF StreamInv
  <1>2. /\ spc' \in [Streams -> {"connect", "await", "read", "send", "sleep", "ended"}]
        /\ spc'[s] = place /\ \A t \in Streams \ {s} : spc'[t] = spc[t]
    BY <1>1 DEF StreamType, Upd
  <1>3. StreamType' /\ Others(s)
    BY <1>1, <1>2 DEF StreamType, Others
  <1>4. /\ \A t \in Streams : Taken(t)' = Taken(t) /\ Named(t)' = Named(t)
        /\ \A t \in Streams : Resumes(t)' <=> Resumes(t)
    BY DEF Taken, Named, Resumes
  <1>5. StreamOK(s)'
    <2>1. Closes(s)'
      BY <1>1, <1>2, <1>4 DEF StreamOK, Closes
    <2>2. Remembers(s)'
      BY <1>1, <1>2, <1>4 DEF StreamOK, Remembers, ResumesAt
    <2>3. Follows(s)' /\ Pends(s)'
      BY <1>2 DEF Follows, Pends
    <2> QED
      BY <2>1, <2>2, <2>3 DEF StreamOK
  <1>6. \A t \in Streams : spc'[t] = "ended" <=> spc[t] = "ended"
    BY <1>2
  <1> QED
    BY <1>3, <1>4, <1>5, <1>6, OneSteps, Quiet

(* Get succeeds: the server starts behind the last id. *)
LEMMA AcceptedStep ==
  ASSUME StreamInv, NEW s \in Streams, NEW status, Accepted(s, status)
  PROVE  StreamInv' /\ Feed!Connection(s)
  <1>1. StreamType /\ StreamOK(s)
    BY DEF StreamInv
  <1>2. /\ spc[s] = "await" /\ spc' = [spc EXCEPT ![s] = "read"]
        /\ sentUpto' = [sentUpto EXCEPT ![s] = lastId[s]]
        /\ link' = [link EXCEPT ![s] = IF status = "204" THEN "empty" ELSE "open"]
        /\ watcher' = [watcher EXCEPT ![s] = "armed"]
        /\ UNCHANGED <<format, log, lastId, pending, out, received, errs>>
    BY DEF Accepted, Upd, Armed
  <1>3. /\ spc' \in [Streams -> {"connect", "await", "read", "send", "sleep", "ended"}]
        /\ spc'[s] = "read" /\ \A t \in Streams \ {s} : spc'[t] = spc[t]
    BY <1>1, <1>2 DEF StreamType
  <1>4. /\ link' \in [Streams -> {"none", "open", "empty", "eof", "eof204", "failed", "done", "closed"}]
        /\ \A t \in Streams \ {s} : link'[t] = link[t]
    BY <1>1, <1>2 DEF StreamType
  <1>5. /\ sentUpto' \in [Streams -> Nat]
        /\ sentUpto'[s] = lastId[s] /\ \A t \in Streams \ {s} : sentUpto'[t] = sentUpto[t]
    BY <1>1, <1>2 DEF StreamType
  <1>6. watcher' \in [Streams -> {"armed", "gone"}] /\ \A t \in Streams \ {s} : watcher'[t] = watcher[t]
    BY <1>1, <1>2 DEF StreamType
  <1>7. StreamType' /\ Others(s)
    BY <1>1, <1>2, <1>3, <1>4, <1>5, <1>6 DEF StreamType, Others
  <1>8. Taken(s)' = Taken(s) /\ Named(s)' = Named(s) /\ (Resumes(s)' <=> Resumes(s)) /\ Last(s)' = Last(s)
    BY <1>2 DEF Taken, Named, Resumes, Last
  <1>9. StreamOK(s)'
    <2>1. Closes(s)'
      BY <1>1, <1>2, <1>3, <1>8 DEF StreamOK, Closes
    <2>2. ResumesAt(s, lastId[s]) /\ ResumesAt(s, lastId[s])'
      BY <1>1, <1>2, <1>8 DEF StreamOK, Remembers, ResumesAt
    <2>3. Remembers(s)' /\ Pends(s)'
      BY <1>3, <2>2 DEF Remembers, Pends
    <2>4. ~Resumes(s) => lastId[s] = 0 /\ Last(s) = 0
      <3>1. ~Resumes(s) => Taken(s) = <<>>
        BY <1>1, <1>2 DEF StreamOK, Remembers
      <3>2. ~Resumes(s) => Named(s) = {} /\ Last(s) = 0
        BY <3>1 DEF Named, Last
      <3> QED
        BY <2>2, <3>2 DEF ResumesAt
    <2>5. Follows(s)'
      BY <1>1, <1>2, <1>5, <1>8, <2>4 DEF Follows, StreamType
    <2> QED
      BY <2>1, <2>3, <2>5 DEF StreamOK
  <1>10. Feed!Connection(s)
    BY <1>2, <1>3, <1>4, <1>6, Connects
  <1> QED
    BY <1>2, <1>7, <1>9, <1>10, OneSteps

(* The server ends the connection, or the watcher closes the body. *)
LEMMA LinkStep ==
  ASSUME StreamInv, NEW s \in Streams, NEW what,
         (ServerEnds(s, what) /\ what \in {"eof", "failed"}) \/ Watch(s)
  PROVE  StreamInv' /\ Feed!Connection(s)
  <1>1. StreamType /\ StreamOK(s)
    BY DEF StreamInv
  <1>2. /\ spc[s] # "ended" /\ link' \in [Streams -> {"none", "open", "empty", "eof", "eof204", "failed", "done", "closed"}]
        /\ \A t \in Streams \ {s} : link'[t] = link[t]
        /\ link'[s] \in {"open", "eof", "failed"} => link[s] = "open"
        /\ watcher' \in [Streams -> {"armed", "gone"}] /\ \A t \in Streams \ {s} : watcher'[t] = watcher[t]
        /\ UNCHANGED <<format, log, spc, sentUpto, lastId, pending, out, received, errs>>
    <2>1. CASE ServerEnds(s, what) /\ what \in {"eof", "failed"}
      BY <1>1, <2>1 DEF ServerEnds, StreamType, StreamOK, Closes, Upd
    <2>2. CASE Watch(s)
      BY <1>1, <2>2 DEF Watch, StreamType, StreamOK, Closes, Upd
    <2> QED
      BY <2>1, <2>2
  <1>3. StreamType' /\ Others(s)
    BY <1>1, <1>2 DEF StreamType, Others
  <1>4. Taken(s)' = Taken(s) /\ Named(s)' = Named(s) /\ (Resumes(s)' <=> Resumes(s)) /\ Last(s)' = Last(s)
    BY <1>2 DEF Taken, Named, Resumes, Last
  <1>5. \A p : ResumesAt(s, p)' <=> ResumesAt(s, p)
    BY <1>4 DEF ResumesAt
  <1>6. StreamOK(s)'
    <2>1. Closes(s)'
      BY <1>1, <1>2, <1>4 DEF StreamOK, Closes
    <2>2. Remembers(s)'
      BY <1>1, <1>2, <1>4, <1>5 DEF StreamOK, Remembers
    <2>3. Follows(s)'
      BY <1>1, <1>2, <1>4 DEF StreamOK, Follows
    <2>4. Pends(s)'
      BY <1>1, <1>2, <1>4, <1>5 DEF StreamOK, Pends
    <2> QED
      BY <2>1, <2>2, <2>3, <2>4 DEF StreamOK
  <1>7. Feed!Connection(s)
    BY <1>2, Connects
  <1> QED
    BY <1>2, <1>3, <1>6, <1>7, OneSteps

(* The consumer takes the oldest value from out. *)
LEMMA ReceiveStep ==
  ASSUME StreamInv, NEW s \in Streams, Receive(s)
  PROVE  StreamInv' /\ UNCHANGED Feed!feedVars
  <1>1. StreamType /\ StreamOK(s)
    BY DEF StreamInv
  <1>2. /\ out[s] # <<>> /\ out' = [out EXCEPT ![s] = Tail(out[s])]
        /\ received' = [received EXCEPT ![s] = Append(received[s], Head(out[s]))]
        /\ UNCHANGED <<format, log, spc, link, sentUpto, lastId, pending, errs, watcher>>
    BY DEF Receive, Upd
  <1>3. received[s] \in Seq(Nat) /\ out[s] \in Seq(Nat)
    BY <1>1 DEF StreamType
  <1>4. /\ Tail(out[s]) \in Seq(Nat) /\ Append(received[s], Head(out[s])) \in Seq(Nat)
        /\ Append(received[s], Head(out[s])) \o Tail(out[s]) = received[s] \o out[s]
    <2>1. Tail(out[s]) \in Seq(Nat) /\ Head(out[s]) \in Nat
      BY <1>2, <1>3
    <2>2. Append(received[s], Head(out[s])) \in Seq(Nat)
      BY <1>3, <2>1
    <2> QED
      BY <1>2, <1>3, <2>1, <2>2, Moved
  <1>5. /\ out' \in [Streams -> Seq(Nat)] /\ out'[s] = Tail(out[s]) /\ \A t \in Streams \ {s} : out'[t] = out[t]
        /\ received' \in [Streams -> Seq(Nat)] /\ received'[s] = Append(received[s], Head(out[s]))
        /\ \A t \in Streams \ {s} : received'[t] = received[t]
    BY <1>1, <1>2, <1>4 DEF StreamType
  <1>6. StreamType' /\ Others(s)
    BY <1>1, <1>2, <1>5 DEF StreamType, Others
  <1>7. \A t \in Streams : Taken(t)' = Taken(t)
    BY <1>4, <1>5 DEF Taken
  <1>8. Named(s)' = Named(s) /\ (Resumes(s)' <=> Resumes(s)) /\ Last(s)' = Last(s)
    BY <1>2, <1>7 DEF Named, Resumes, Last
  <1>9. \A p : ResumesAt(s, p)' <=> ResumesAt(s, p)
    BY <1>8 DEF ResumesAt
  <1>10. StreamOK(s)'
    <2>1. Closes(s)'
      BY <1>1, <1>2, <1>8 DEF StreamOK, Closes
    <2>2. Remembers(s)'
      BY <1>1, <1>2, <1>7, <1>8, <1>9 DEF StreamOK, Remembers
    <2>3. Follows(s)'
      BY <1>1, <1>2, <1>8 DEF StreamOK, Follows
    <2>4. Pends(s)'
      BY <1>1, <1>2, <1>8, <1>9 DEF StreamOK, Pends
    <2> QED
      BY <2>1, <2>2, <2>3, <2>4 DEF StreamOK
  <1> QED
    BY <1>2, <1>6, <1>7, <1>10, OneSteps, Quiet

(* NextEvent: a mark ends the connection's events, an undecodable payload   *)
(* ends a stream that does not resume, another event waits to be sent.      *)
LEMMA ReadEventStep ==
  ASSUME StreamInv, NEW s \in Streams, ReadEvent(s)
  PROVE  StreamInv' /\ [Feed!FeedNext]_Feed!feedVars
  <1> DEFINE n == sentUpto[s] + 1
  <1>1. StreamType /\ StreamOK(s)
    BY DEF StreamInv
  <1>2. /\ spc[s] = "read" /\ link[s] \in {"open", "eof", "failed"} /\ sentUpto[s] < Len(log[s])
        /\ sentUpto' = [sentUpto EXCEPT ![s] = n]
        /\ UNCHANGED <<format, log, out, received>>
    BY DEF ReadEvent, Upd
  <1>3. /\ n \in 1 .. Len(log[s]) /\ n \in Nat /\ n > sentUpto[s]
        /\ sentUpto' \in [Streams -> Nat] /\ sentUpto'[s] = n
        /\ \A t \in Streams \ {s} : sentUpto'[t] = sentUpto[t]
    BY <1>1, <1>2 DEF StreamType
  <1>4. log[s][n] \in Events
    BY <1>1, <1>3 DEF StreamType
  <1>5. /\ ResumesAt(s, lastId[s]) /\ lastId[s] \in Nat /\ lastId[s] <= sentUpto[s]
        /\ sentUpto[s] = Last(s) \/ (Resumes(s) /\ sentUpto[s] = lastId[s])
    BY <1>1, <1>2 DEF StreamOK, Remembers, Follows, StreamType
  <1>6. CASE log[s][n].kind \in {"done", "trailer"}
    <2>1. link' = [link EXCEPT ![s] = "done"] /\ UNCHANGED <<lastId, pending, spc, errs, watcher>>
      BY <1>6 DEF ReadEvent, Upd
    <2>2. /\ link' \in [Streams -> {"none", "open", "empty", "eof", "eof204", "failed", "done", "closed"}]
          /\ link'[s] = "done" /\ \A t \in Streams \ {s} : link'[t] = link[t]
      BY <1>1, <2>1 DEF StreamType
    <2>3. StreamType' /\ Others(s)
      BY <1>1, <1>2, <1>3, <2>1, <2>2 DEF StreamType, Others
    <2>4. Taken(s)' = Taken(s) /\ Named(s)' = Named(s) /\ (Resumes(s)' <=> Resumes(s))
      BY <1>2 DEF Taken, Named, Resumes
    <2>5. StreamOK(s)'
      <3>1. Closes(s)'
        BY <1>1, <1>2, <2>1, <2>4 DEF StreamOK, Closes
      <3>2. Remembers(s)'
        BY <1>2, <1>5, <2>1, <2>4 DEF Remembers, ResumesAt
      <3>3. Follows(s)' /\ Pends(s)'
        BY <1>2, <2>1, <2>2 DEF Follows, Pends
      <3> QED
        BY <3>1, <3>2, <3>3 DEF StreamOK
    <2>6. Feed!Connection(s)
      BY <1>2, <2>1, <2>2, Connects
    <2> QED
      BY <1>2, <2>3, <2>5, <2>6, OneSteps DEF Feed!FeedNext
  <1>7. CASE log[s][n].kind = "bad" /\ ~Resumes(s)
    <2>1. /\ \E reason : Leave(s, reason)
          /\ errs' = Upd(errs, s, errs[s] + 1) /\ UNCHANGED <<lastId, pending>>
      BY <1>7, Zenon DEF ReadEvent, Fail
    <2>2. PICK reason : Leave(s, reason)
      BY <2>1
    <2>3. StreamInv' /\ Feed!End(s)
      BY <1>2, <1>3, <2>1, <2>2, Ends
    <2> QED
      BY <2>3 DEF Feed!FeedNext
  <1>8. CASE log[s][n].kind \notin {"done", "trailer"} /\ ~(log[s][n].kind = "bad" /\ ~Resumes(s))
    <2>1. /\ lastId' = [lastId EXCEPT ![s] = IdAfter(s, n)] /\ pending' = [pending EXCEPT ![s] = n]
          /\ spc' = [spc EXCEPT ![s] = "send"] /\ UNCHANGED <<link, errs, watcher>>
      BY <1>8 DEF ReadEvent, Upd
    <2>2. IdAfter(s, n) = (IF log[s][n].id THEN n ELSE lastId[s]) /\ IdAfter(s, n) \in Nat
      BY <1>3, <1>5 DEF IdAfter
    <2>3. /\ lastId' \in [Streams -> Nat] /\ lastId'[s] = IdAfter(s, n)
          /\ \A t \in Streams \ {s} : lastId'[t] = lastId[t]
      BY <1>1, <2>1, <2>2 DEF StreamType
    <2>4. /\ pending' \in [Streams -> Nat] /\ pending'[s] = n
          /\ \A t \in Streams \ {s} : pending'[t] = pending[t]
      BY <1>1, <1>3, <2>1 DEF StreamType
    <2>5. /\ spc' \in [Streams -> {"connect", "await", "read", "send", "sleep", "ended"}]
          /\ spc'[s] = "send" /\ \A t \in Streams \ {s} : spc'[t] = spc[t]
      BY <1>1, <2>1 DEF StreamType
    <2>6. StreamType' /\ Others(s)
      BY <1>1, <1>2, <1>3, <2>1, <2>3, <2>4, <2>5 DEF StreamType, Others
    <2>7. /\ \A t \in Streams : Taken(t)' = Taken(t)
          /\ Named(s)' = Named(s) /\ (Resumes(s)' <=> Resumes(s)) /\ Last(s)' = Last(s)
      BY <1>2 DEF Taken, Named, Resumes, Last
    <2>8. \A p : ResumesAt(s, p)' <=> ResumesAt(s, p)
      BY <2>7 DEF ResumesAt
    <2>9. StreamOK(s)'
      <3>1. Closes(s)'
        BY <1>1, <1>2, <2>1, <2>5, <2>7 DEF StreamOK, Closes
      <3>2. Remembers(s)' /\ Follows(s)'
        BY <2>5 DEF Remembers, Follows
      <3>3. n = Last(s) + 1 \/ (Resumes(s) /\ \E p \in Nat : ResumesAt(s, p) /\ n = p + 1)
        BY <1>5
      <3>4. \A m \in Named(s) : m < n
        <4>1. Named(s) \subseteq Nat /\ \A m \in Named(s) : m <= lastId[s]
          BY <1>1, <1>5, PositionsNamed DEF ResumesAt
        <4>2. lastId[s] < n
          <5>1. sentUpto[s] \in Nat
            BY <1>1 DEF StreamType
          <5> QED
            BY <1>5, <5>1
        <4> QED
          BY <1>3, <1>5, <4>1, <4>2
      <3>5. IF log[s][n].id THEN lastId'[s] = n ELSE ResumesAt(s, lastId'[s])
        BY <1>5, <2>2, <2>3
      <3>6. Pends(s)'
        BY <1>2, <1>3, <1>8, <2>4, <2>5, <2>7, <2>8, <3>3, <3>4, <3>5 DEF Pends
      <3> QED
        BY <3>1, <3>2, <3>6 DEF StreamOK
    <2>10. UNCHANGED Feed!feedVars
      BY <1>2, <2>1, <2>5, <2>7, Quiet
    <2> QED
      BY <1>2, <2>6, <2>9, <2>10, OneSteps
  <1> QED
    BY <1>6, <1>7, <1>8

(* The body ends: a resuming stream lets the response go and waits, others   *)
(* end.                                                                      *)
LEMMA ReadEndsStep ==
  ASSUME StreamInv, NEW s \in Streams, ReadEnds(s)
  PROVE  StreamInv' /\ [Feed!FeedNext]_Feed!feedVars
  <1>1. StreamType /\ StreamOK(s)
    BY DEF StreamInv
  <1>2. spc[s] = "read" /\ UNCHANGED <<format, log, sentUpto, lastId, pending, out, received>>
    BY DEF ReadEnds
  <1>3. sentUpto' \in [Streams -> Nat] /\ \A t \in Streams \ {s} : sentUpto'[t] = sentUpto[t]
    BY <1>1, <1>2 DEF StreamType
  <1>4. \/ /\ Resumes(s) /\ spc' = Upd(spc, s, "sleep") /\ link' = Upd(link, s, ClosedBody(s))
           /\ watcher' = Upd(watcher, s, "gone") /\ UNCHANGED errs
        \/ /\ \E reason : Leave(s, reason)
           /\ UNCHANGED errs \/ errs' = Upd(errs, s, errs[s] + 1)
    BY Zenon DEF ReadEnds, Fail
  <1>5. CASE /\ \E reason : Leave(s, reason)
             /\ UNCHANGED errs \/ errs' = Upd(errs, s, errs[s] + 1)
    <2>1. PICK reason : Leave(s, reason)
      BY <1>5
    <2>2. StreamInv' /\ Feed!End(s)
      BY <1>2, <1>3, <1>5, <2>1, Ends
    <2> QED
      BY <2>2 DEF Feed!FeedNext
  <1>6. CASE /\ Resumes(s) /\ spc' = Upd(spc, s, "sleep") /\ link' = Upd(link, s, ClosedBody(s))
             /\ watcher' = Upd(watcher, s, "gone") /\ UNCHANGED errs
    <2>1. /\ spc' \in [Streams -> {"connect", "await", "read", "send", "sleep", "ended"}]
          /\ spc'[s] = "sleep" /\ \A t \in Streams \ {s} : spc'[t] = spc[t]
      BY <1>1, <1>6 DEF StreamType, Upd
    <2>2. /\ link' \in [Streams -> {"none", "open", "empty", "eof", "eof204", "failed", "done", "closed"}]
          /\ \A t \in Streams \ {s} : link'[t] = link[t]
      BY <1>1, <1>6 DEF StreamType, Upd, ClosedBody
    <2>3. watcher' \in [Streams -> {"armed", "gone"}] /\ \A t \in Streams \ {s} : watcher'[t] = watcher[t]
      BY <1>1, <1>6 DEF StreamType, Upd
    <2>4. StreamType' /\ Others(s)
      BY <1>1, <1>2, <1>6, <2>1, <2>2, <2>3 DEF StreamType, Others
    <2>5. Taken(s)' = Taken(s) /\ Named(s)' = Named(s) /\ (Resumes(s)' <=> Resumes(s))
      BY <1>2 DEF Taken, Named, Resumes
    <2>6. StreamOK(s)'
      <3>1. Closes(s)'
        BY <1>1, <1>2, <1>6, <2>1, <2>5 DEF StreamOK, Closes
      <3>2. ResumesAt(s, lastId[s])'
        BY <1>1, <1>2, <2>5 DEF StreamOK, Remembers, ResumesAt
      <3>3. Remembers(s)'
        BY <1>6, <2>1, <2>5, <3>2 DEF Remembers
      <3>4. Follows(s)' /\ Pends(s)'
        BY <2>1 DEF Follows, Pends
      <3> QED
        BY <3>1, <3>3, <3>4 DEF StreamOK
    <2>7. Feed!Connection(s)
      BY <1>2, <1>6, <2>1, <2>2, <2>3, Connects
    <2> QED
      BY <1>2, <2>4, <2>6, <2>7, OneSteps DEF Feed!FeedNext
  <1> QED
    BY <1>4, <1>5, <1>6

(* The event goes to out or to the consumer. *)
LEMMA SendValueStep ==
  ASSUME StreamInv, NEW s \in Streams, SendValue(s)
  PROVE  StreamInv' /\ [Feed!FeedNext]_Feed!feedVars
  <1> DEFINE n == pending[s]
  <1>1. StreamType /\ StreamOK(s)
    BY DEF StreamInv
  <1>2. /\ spc[s] = "send" /\ log[s][n].kind # "bad"
        /\ spc' = [spc EXCEPT ![s] = "read"] /\ pending' = [pending EXCEPT ![s] = 0]
        /\ IF Resumes(s)
             THEN out' = [out EXCEPT ![s] = Append(out[s], n)] /\ received' = received
             ELSE received' = [received EXCEPT ![s] = Append(received[s], n)] /\ out' = out
        /\ UNCHANGED <<format, log, link, sentUpto, lastId, errs, watcher>>
    BY DEF SendValue, Upd
  <1>3. /\ n = sentUpto[s] /\ n \in 1 .. Len(log[s]) /\ n \in Nat
        /\ log[s][n].kind \notin {"done", "trailer"}
        /\ \A m \in Named(s) : m < n
        /\ IF log[s][n].id THEN lastId[s] = n ELSE ResumesAt(s, lastId[s])
    BY <1>1, <1>2 DEF StreamOK, Pends, StreamType
  <1>4. log[s][n].kind = "data"
    <2>1. log[s][n] \in Events
      BY <1>1, <1>3 DEF StreamType
    <2> QED
      BY <1>2, <1>3, <2>1 DEF Events
  <1>5. received[s] \in Seq(Nat) /\ out[s] \in Seq(Nat) /\ (~Resumes(s) => out[s] = <<>>)
    BY <1>1 DEF StreamType, StreamOK, Closes
  <1>6. /\ spc' \in [Streams -> {"connect", "await", "read", "send", "sleep", "ended"}]
        /\ spc'[s] = "read" /\ \A t \in Streams \ {s} : spc'[t] = spc[t]
    BY <1>1, <1>2 DEF StreamType
  <1>7. pending' \in [Streams -> Nat] /\ \A t \in Streams \ {s} : pending'[t] = pending[t]
    BY <1>1, <1>2 DEF StreamType
  <1>8. /\ out' \in [Streams -> Seq(Nat)] /\ received' \in [Streams -> Seq(Nat)]
        /\ \A t \in Streams \ {s} : out'[t] = out[t] /\ received'[t] = received[t]
        /\ Taken(s)' = Append(Taken(s), n)
        /\ ~Resumes(s) => out'[s] = <<>>
    <2>1. CASE Resumes(s)
      <3>1. Append(out[s], n) \in Seq(Nat)
        BY <1>3, <1>5
      <3>2. out'[s] = Append(out[s], n) /\ received'[s] = received[s]
        BY <1>1, <1>2, <2>1 DEF StreamType
      <3>3. Taken(s)' = Append(Taken(s), n)
        BY <1>3, <1>5, <3>2, SentLast DEF Taken
      <3> QED
        BY <1>1, <1>2, <2>1, <3>1, <3>3 DEF StreamType
    <2>2. CASE ~Resumes(s)
      <3>1. Append(received[s], n) \in Seq(Nat)
        BY <1>3, <1>5
      <3>2. received'[s] = Append(received[s], n) /\ out'[s] = out[s]
        BY <1>1, <1>2, <2>2 DEF StreamType
      <3>3. Taken(s)' = Append(Taken(s), n)
        BY <1>3, <1>5, <2>2, <3>2, SentLast DEF Taken
      <3> QED
        BY <1>1, <1>2, <1>5, <2>2, <3>1, <3>2, <3>3 DEF StreamType
    <2> QED
      BY <2>1, <2>2
  <1>9. StreamType' /\ Others(s)
    BY <1>1, <1>2, <1>6, <1>7, <1>8 DEF StreamType, Others
  <1>10. /\ Taken(s) \in Seq(Nat) /\ Len(Taken(s)) \in Nat /\ Named(s) \subseteq Nat
         /\ Len(Taken(s)') = Len(Taken(s)) + 1 /\ Taken(s)'[Len(Taken(s)) + 1] = n
         /\ \A i \in 1 .. Len(Taken(s)) : Taken(s)'[i] = Taken(s)[i]
         /\ Taken(s)' # <<>>
    <2>1. Taken(s) \in Seq(Nat) /\ Len(Taken(s)) \in Nat /\ Named(s) \subseteq Nat
      BY <1>1, PositionsNamed
    <2> QED
      BY <1>3, <1>8, <2>1, AppendProperties
  <1>11. Last(s)' = n
    BY <1>10 DEF Last
  <1>12. Named(s)' = (IF log[s][n].id THEN Named(s) \cup {n} ELSE Named(s))
    <2> DEFINE L == Len(Taken(s))
    <2>1. \A j : j \in 1 .. L + 1 <=> j \in 1 .. L \/ j = L + 1
      BY <1>10
    <2> HIDE DEF L
    <2>2. \A x : x \in Named(s)' <=> \E j \in 1 .. L + 1 : log[s][Taken(s)'[j]].id /\ x = Taken(s)'[j]
      BY <1>2, <1>10 DEF Named, L
    <2>3. \A x : x \in Named(s) <=> \E j \in 1 .. L : log[s][Taken(s)[j]].id /\ x = Taken(s)[j]
      BY DEF Named, L
    <2>4. (\A j \in 1 .. L : Taken(s)'[j] = Taken(s)[j]) /\ Taken(s)'[L + 1] = n
      BY <1>10 DEF L
    <2>5. \A x : x \in Named(s)' <=> x \in Named(s) \/ (log[s][n].id /\ x = n)
      BY <2>1, <2>2, <2>3, <2>4
    <2> QED
      BY <2>5
  <1>13. Resumes(s)' <=> Resumes(s)
    BY <1>2 DEF Resumes
  <1>14. ResumesAt(s, lastId[s])' /\ lastId[s] <= n
    <2>1. CASE log[s][n].id
      BY <1>2, <1>3, <1>10, <1>12, <2>1 DEF ResumesAt
    <2>2. CASE ~log[s][n].id
      BY <1>2, <1>3, <1>10, <1>12, <2>2 DEF ResumesAt
    <2> QED
      BY <2>1, <2>2
  <1>15. StreamOK(s)'
    <2>1. Closes(s)'
      BY <1>1, <1>2, <1>6, <1>8, <1>13 DEF StreamOK, Closes
    <2>2. Remembers(s)' /\ Pends(s)'
      BY <1>6, <1>14 DEF Remembers, Pends
    <2>3. Follows(s)'
      BY <1>2, <1>3, <1>11, <1>14 DEF Follows
    <2> QED
      BY <2>1, <2>2, <2>3 DEF StreamOK
  <1>16. n \in 1 .. Len(log[s]) /\ Feed!Deliver(s, n)
    <2>1. \A t \in Streams \ {s} : Taken(t)' = Taken(t)
      BY <1>8 DEF Taken
    <2> QED
      BY <1>2, <1>4, <1>6, <1>8, <1>10, <2>1, Delivers
  <1> QED
    BY <1>2, <1>9, <1>15, <1>16, OneSteps DEF Feed!FeedNext

(* The streams begin in the invariant, and as the feed does. *)
LEMMA StreamBegins == StreamInit => StreamInv /\ Feed!FeedInit
  <1> SUFFICES ASSUME StreamInit PROVE StreamInv /\ Feed!FeedInit
    OBVIOUS
  <1>1. StreamType
    BY EventsAssumption DEF StreamInit, StreamType, Events
  <1>2. \A s \in Streams : Taken(s) = <<>> /\ Resumes(s) \in BOOLEAN
    BY DEF StreamInit, Taken, Resumes
  <1>3. ASSUME NEW s \in Streams PROVE StreamOK(s)
    <2>1. Named(s) = {}
      BY <1>2 DEF Named
    <2> QED
      BY <1>2, <2>1 DEF StreamInit, StreamOK, Closes, Remembers, Follows, Pends, ResumesAt
  <1>4. Feed!FeedInit
    BY <1>2 DEF StreamInit, Feed!FeedInit
  <1> QED
    BY <1>1, <1>3, <1>4 DEF StreamInv

(* Every step of a stream, its watcher, its server and its consumer keeps   *)
(* the invariant and is a step of the feed, or none.                        *)
LEMMA StreamStep ==
  ASSUME StreamInv, [StreamNext]_streamVars
  PROVE  StreamInv' /\ [Feed!FeedNext]_Feed!feedVars
  <1>1. StreamType
    BY DEF StreamInv
  <1>2. ASSUME NEW s \in Streams, NEW reason, Fail(s, reason), spc[s] # "ended",
               UNCHANGED <<format, log, sentUpto, lastId, pending, out, received>>
        PROVE  StreamInv' /\ [Feed!FeedNext]_Feed!feedVars
    <2>1. sentUpto' \in [Streams -> Nat] /\ \A t \in Streams \ {s} : sentUpto'[t] = sentUpto[t]
      BY <1>1, <1>2 DEF StreamType
    <2>2. StreamInv' /\ Feed!End(s)
      BY <1>2, <2>1, Ends DEF Fail
    <2> QED
      BY <2>2 DEF Feed!FeedNext
  <1>3. ASSUME NEW s \in Streams, Connect(s) \/ Slept(s) PROVE StreamInv' /\ [Feed!FeedNext]_Feed!feedVars
    <2>1. CASE Connect(s)
      BY <2>1, Turns DEF Connect
    <2>2. CASE Slept(s)
      BY <2>2, Turns DEF Slept
    <2> QED
      BY <1>3, <2>1, <2>2
  <1>4. ASSUME NEW s \in Streams, ConnectHalted(s) \/ ReadHalted(s) \/ SendHalted(s) \/ SleepHalted(s)
        PROVE  StreamInv' /\ [Feed!FeedNext]_Feed!feedVars
    <2>1. /\ Fail(s, "halted") /\ spc[s] # "ended"
          /\ UNCHANGED <<format, log, sentUpto, lastId, pending, out, received>>
      BY <1>4 DEF ConnectHalted, ReadHalted, SendHalted, SleepHalted, CancelSleep
    <2> QED
      BY <1>2, <2>1
  <1>5. ASSUME NEW s \in Streams, SendUndecodable(s) PROVE StreamInv' /\ [Feed!FeedNext]_Feed!feedVars
    <2>1. /\ Fail(s, "undecodable") /\ spc[s] # "ended"
          /\ UNCHANGED <<format, log, sentUpto, lastId, pending, out, received>>
      BY <1>5 DEF SendUndecodable
    <2> QED
      BY <1>2, <2>1
  <1>6. ASSUME NEW s \in Streams, Rejected(s) PROVE StreamInv' /\ [Feed!FeedNext]_Feed!feedVars
    <2>1. spc[s] = "await" /\ UNCHANGED <<format, log, sentUpto, lastId, pending, out, received>>
      BY <1>6 DEF Rejected
    <2>2. Fail(s, "refused") \/ (spc' = Upd(spc, s, "sleep") /\ UNCHANGED <<link, watcher, errs>>)
      BY <1>6 DEF Rejected
    <2>3. CASE Fail(s, "refused")
      BY <1>2, <2>1, <2>3
    <2>4. CASE spc' = Upd(spc, s, "sleep") /\ UNCHANGED <<link, watcher, errs>>
      BY <2>1, <2>4, Turns
    <2> QED
      BY <2>2, <2>3, <2>4
  <1>7. ASSUME NEW s \in Streams, NEW status, Accepted(s, status) PROVE StreamInv' /\ [Feed!FeedNext]_Feed!feedVars
    BY <1>7, AcceptedStep DEF Feed!FeedNext
  <1>8. ASSUME NEW s \in Streams, NEW how \in {"eof", "failed"}, ServerEnds(s, how)
        PROVE  StreamInv' /\ [Feed!FeedNext]_Feed!feedVars
    BY <1>8, LinkStep DEF Feed!FeedNext
  <1>9. ASSUME NEW s \in Streams, Watch(s) PROVE StreamInv' /\ [Feed!FeedNext]_Feed!feedVars
    BY <1>9, LinkStep DEF Feed!FeedNext
  <1>10. ASSUME NEW s \in Streams, Receive(s) PROVE StreamInv' /\ [Feed!FeedNext]_Feed!feedVars
    BY <1>10, ReceiveStep
  <1>11. CASE UNCHANGED <<format, log, spc, link, sentUpto, lastId, pending, out, received, errs, watcher>>
    <2>1. StreamType'
      BY <1>1, <1>11 DEF StreamType
    <2>2. \A t \in Streams : StreamOK(t)'
      BY <1>11, Untouched DEF StreamInv
    <2>3. \A t \in Streams : Taken(t)' = Taken(t)
      BY <1>11 DEF Taken
    <2> QED
      BY <1>11, <2>1, <2>2, <2>3, Quiet DEF StreamInv
  <1>12. ASSUME NEW s \in Streams, Halt(s) PROVE StreamInv' /\ [Feed!FeedNext]_Feed!feedVars
    BY <1>11, <1>12 DEF Halt
  <1>13. CASE UNCHANGED streamVars
    BY <1>11, <1>13 DEF streamVars
  <1> QED
    BY <1>3, <1>4, <1>5, <1>6, <1>7, <1>8, <1>9, <1>10, <1>12, <1>13, ReadEventStep, ReadEndsStep, SendValueStep
       DEF StreamNext, StreamGoroutine

(* Whatever the server sends and wherever connections break, the goroutine, *)
(* the watcher and the channels of SSE, Channel and ResumableSSE deliver     *)
(* their events in order without gaps, repeat only what followed the last    *)
(* id, report at most one error, and let go of the response when they end.   *)
THEOREM StreamsImplementFeed == StreamSpec => ImplementsFeed
  <1>1. StreamInit => StreamInv /\ Feed!FeedInit
    BY StreamBegins
  <1>2. StreamInv /\ [StreamNext]_streamVars => StreamInv' /\ [Feed!FeedNext]_Feed!feedVars
    BY StreamStep
  <1> QED
    BY <1>1, <1>2, PTL DEF StreamSpec, ImplementsFeed, Feed!FeedSpec
=============================================================================
