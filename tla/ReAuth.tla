------------------------------- MODULE ReAuth -------------------------------
(***************************************************************************)
(* The re-authentication middleware (middleware/reauth.go): concurrent     *)
(* requests share one reauthBarrier.  A request that meets an expired      *)
(* session either runs Refresh itself, waits for the refresh in flight, or *)
(* returns the result of a refresh that finished since the request began.  *)
(* Every critical section of barrier.mu is one action.                     *)
(***************************************************************************)
EXTENDS Naturals, Sequences, FiniteSets

CONSTANTS Requests,     \* calls of the middleware's Do
          MaxRetries,   \* cfg.MaxRetries after defaulting
          HasRefresh    \* cfg.Refresh is not nil

ASSUME RetriesAssumption == MaxRetries \in Nat \ {0}
ASSUME RefreshAssumption == HasRefresh \in BOOLEAN

VARIABLES
  pc,          \* control point of each request
  startGen,    \* startGen local of each request
  attempt,     \* loop counter of each request
  body,        \* the last response of each request: none, open or closed
  waitOn,      \* the channel a request waits on, 0 when none
  result,      \* how the call ended
  cancelled,   \* requests whose context is done
  inFlight, waitChan, lastErr, generation,  \* fields of reauthBarrier
  chans        \* every channel made: "open", or the outcome it was closed with

callVars == <<pc, startGen, attempt, body, waitOn, result, cancelled>>
barrierVars == <<inFlight, waitChan, lastErr, generation, chans>>
vars == <<pc, startGen, attempt, body, waitOn, result, cancelled,
          inFlight, waitChan, lastErr, generation, chans>>

Outcomes == {"nil", "fail"}

Init ==
  /\ pc = [r \in Requests |-> "idle"]
  /\ startGen = [r \in Requests |-> 0]
  /\ attempt = [r \in Requests |-> 0]
  /\ body = [r \in Requests |-> "none"]
  /\ waitOn = [r \in Requests |-> 0]
  /\ result = [r \in Requests |-> "none"]
  /\ cancelled = {}
  /\ inFlight = FALSE
  /\ waitChan = 0
  /\ lastErr = "nil"
  /\ generation = 0
  /\ chans = <<>>

-----------------------------------------------------------------------------
(* Faulty variants of single steps, which the properties must tell apart    *)
(* from the code.                                                           *)
LeadAlways(r) == generation <= startGen[r]
SameGeneration == generation
LeaveOpen(err) == chans
WokenBySuccess(r) == chans[waitOn[r]] = "nil"
FirstFailure(err) == IF lastErr = "nil" THEN err ELSE lastErr

-----------------------------------------------------------------------------
(* The request loop.                                                        *)

(* The loop condition attempt < maxRetries. *)
MayRetry(r) == attempt[r] < MaxRetries

(* resp.Close() on the response that fired the trigger. *)
CloseBody(r) == [body EXCEPT ![r] = "closed"]

(* next.Do failed: there is no response to close. *)
NoBody(r) == [body EXCEPT ![r] = "none"]

(* startGen := barrier.currentGen(), then next.Do is called. *)
Start(r) ==
  /\ pc[r] = "idle"
  /\ pc' = [pc EXCEPT ![r] = "do"]
  /\ startGen' = [startGen EXCEPT ![r] = generation]
  /\ UNCHANGED <<attempt, body, waitOn, result, cancelled>>
  /\ UNCHANGED barrierVars

(* next.Do returns, answered or with an error, and the loop hands that to   *)
(* the caller: the trigger does not fire, Refresh is nil, or the attempts   *)
(* are used up.                                                             *)
Deliver(r, triggered, answered) ==
  /\ pc[r] = "do"
  /\ triggered => ~(HasRefresh /\ MayRetry(r))
  /\ pc' = [pc EXCEPT ![r] = "done"]
  /\ body' = IF answered THEN [body EXCEPT ![r] = "open"] ELSE NoBody(r)
  /\ result' = [result EXCEPT ![r] = "returned"]
  /\ UNCHANGED <<startGen, attempt, waitOn, cancelled>>
  /\ UNCHANGED barrierVars

(* next.Do returns, the trigger fires and the response, if there is one, is *)
(* closed before barrier.execute.                                           *)
Expire(r, answered) ==
  /\ pc[r] = "do"
  /\ HasRefresh
  /\ MayRetry(r)
  /\ pc' = [pc EXCEPT ![r] = "execute"]
  /\ body' = IF answered THEN CloseBody(r) ELSE NoBody(r)
  /\ UNCHANGED <<startGen, attempt, waitOn, result, cancelled>>
  /\ UNCHANGED barrierVars

(* What the loop does with the error barrier.execute returned. *)
Resume(r, err) ==
  IF err = "nil"
    THEN /\ pc' = [pc EXCEPT ![r] = "replay"]
         /\ UNCHANGED result
    ELSE /\ pc' = [pc EXCEPT ![r] = "done"]
         /\ result' = [result EXCEPT ![r] = "failed"]

(* startGen := barrier.currentGen() and the next round of next.Do. *)
Replay(r) ==
  /\ pc[r] = "replay"
  /\ pc' = [pc EXCEPT ![r] = "do"]
  /\ startGen' = [startGen EXCEPT ![r] = generation]
  /\ attempt' = [attempt EXCEPT ![r] = @ + 1]
  /\ waitOn' = [waitOn EXCEPT ![r] = 0]
  /\ UNCHANGED <<body, result, cancelled>>
  /\ UNCHANGED barrierVars

-----------------------------------------------------------------------------
(* reauthBarrier.execute                                                    *)

(* A refresh completed since startGen was read: share its result. *)
ExecuteStale(r) ==
  /\ pc[r] = "execute"
  /\ generation > startGen[r]
  /\ Resume(r, lastErr)
  /\ UNCHANGED <<startGen, attempt, body, waitOn, cancelled>>
  /\ UNCHANGED barrierVars

(* A refresh is in flight: remember its channel and block on it. *)
ExecuteWait(r) ==
  /\ pc[r] = "execute"
  /\ generation <= startGen[r]
  /\ inFlight
  /\ pc' = [pc EXCEPT ![r] = "wait"]
  /\ waitOn' = [waitOn EXCEPT ![r] = waitChan]
  /\ UNCHANGED <<startGen, attempt, body, result, cancelled>>
  /\ UNCHANGED barrierVars

(* No refresh finished since startGen and none is in flight. *)
Leads(r) == generation <= startGen[r] /\ ~inFlight

(* b.waitChan = make(chan struct{}), the newest of all channels. *)
MakeChan == Append(chans, "open")

(* Become the leader: publish a fresh channel and call refreshFn unlocked. *)
ExecuteLead(r) ==
  /\ pc[r] = "execute"
  /\ Leads(r)
  /\ pc' = [pc EXCEPT ![r] = "refresh"]
  /\ inFlight' = TRUE
  /\ chans' = MakeChan
  /\ waitChan' = Len(MakeChan)
  /\ UNCHANGED <<startGen, attempt, body, waitOn, result, cancelled>>
  /\ UNCHANGED <<lastErr, generation>>

(* b.generation++ *)
NextGeneration == generation + 1

(* b.lastErr = err, whatever the refresh before it returned. *)
LastErr(err) == err

(* close(b.waitChan), which panics when the channel is already closed. *)
Closed(err) ==
  [chans EXCEPT ![waitChan] = IF @ = "open" THEN err ELSE "panic"]

(* refreshFn returned err: publish it, open a new generation, wake all. *)
RefreshReturns(r, err) ==
  /\ pc[r] = "refresh"
  /\ lastErr' = LastErr(err)
  /\ generation' = NextGeneration
  /\ inFlight' = FALSE
  /\ chans' = Closed(err)
  /\ Resume(r, err)
  /\ UNCHANGED <<startGen, attempt, body, waitOn, cancelled, waitChan>>

(* <-waitChan *)
Woken(r) == chans[waitOn[r]] # "open"

(* The channel is closed: the waiter locks and reads b.lastErr. *)
WaitWoken(r) ==
  /\ pc[r] = "wait"
  /\ Woken(r)
  /\ Resume(r, lastErr)
  /\ UNCHANGED <<startGen, attempt, body, waitOn, cancelled>>
  /\ UNCHANGED barrierVars

(* The waiter's own context is done first. *)
WaitCancelled(r) ==
  /\ pc[r] = "wait"
  /\ r \in cancelled
  /\ Resume(r, "fail")
  /\ UNCHANGED <<startGen, attempt, body, waitOn, cancelled>>
  /\ UNCHANGED barrierVars

-----------------------------------------------------------------------------
(* The caller cancels the context of a request that has not returned. *)
Cancel(r) ==
  /\ pc[r] \notin {"idle", "done"}
  /\ r \notin cancelled
  /\ cancelled' = cancelled \cup {r}
  /\ UNCHANGED <<pc, startGen, attempt, body, waitOn, result>>
  /\ UNCHANGED barrierVars

Step(r) ==
  \/ \E triggered, answered \in BOOLEAN : Deliver(r, triggered, answered)
  \/ \E answered \in BOOLEAN : Expire(r, answered)
  \/ Replay(r)
  \/ ExecuteStale(r)
  \/ ExecuteWait(r)
  \/ ExecuteLead(r)
  \/ \E err \in Outcomes : RefreshReturns(r, err)
  \/ WaitWoken(r)
  \/ WaitCancelled(r)

Terminated ==
  /\ \A r \in Requests : pc[r] = "done"
  /\ UNCHANGED vars

Next ==
  \/ \E r \in Requests : Start(r) \/ Step(r) \/ Cancel(r)
  \/ Terminated

(* next.Do and Refresh return (they run under the caller's transport        *)
(* timeouts) and the Go scheduler runs every runnable goroutine.            *)
Fairness == \A r \in Requests : WF_vars(Step(r))

Spec == Init /\ [][Next]_vars /\ Fairness

-----------------------------------------------------------------------------
TypeOK ==
  /\ pc \in [Requests -> {"idle", "do", "execute", "wait", "refresh",
                          "replay", "done"}]
  /\ startGen \in [Requests -> Nat]
  /\ attempt \in [Requests -> 0 .. MaxRetries]
  /\ body \in [Requests -> {"none", "open", "closed"}]
  /\ waitOn \in [Requests -> Nat]
  /\ result \in [Requests -> {"none", "returned", "failed"}]
  /\ cancelled \subseteq Requests
  /\ inFlight \in BOOLEAN
  /\ waitChan \in Nat
  /\ lastErr \in Outcomes
  /\ generation \in Nat
  /\ chans \in Seq(Outcomes \cup {"open", "panic"})

(* Refresh runs inside a singleflight barrier: no two requests are ever in  *)
(* refreshFn together, and the barrier knows when one is.                   *)
SingleRefresh ==
  \A r, s \in Requests :
    pc[r] = "refresh" => inFlight /\ (pc[s] = "refresh" => r = s)

(* A blocked request waits on a channel that is already closed or that the  *)
(* leader now in refreshFn is going to close: the wake-up is never lost.    *)
NoLostWakeup ==
  \A r \in Requests :
    pc[r] = "wait" =>
      /\ waitOn[r] \in 1 .. Len(chans)
      /\ chans[waitOn[r]] = "open" =>
           /\ waitOn[r] = waitChan
           /\ \E s \in Requests : pc[s] = "refresh"

(* The leader closes the channel it made, once: close never panics. *)
NoDoubleClose == \A c \in 1 .. Len(chans) : chans[c] # "panic"

(* A request is replayed only when some refresh finished after it read the  *)
(* generation its failed attempt began with.                                *)
ReplayAfterRefresh ==
  \A r \in Requests : pc[r] = "replay" => generation > startGen[r]

(* The shared error is never out of date: a request that fails before its   *)
(* own context ends does so on a refresh that failed after the request read *)
(* the generation of its last attempt.  A channel is closed per generation, *)
(* so that the refreshes after generation g are those of chans[g + 1] on.   *)
FailuresAreCurrent ==
  \A r \in Requests :
    result[r] = "failed" /\ r \notin cancelled =>
      \E c \in startGen[r] + 1 .. Len(chans) : chans[c] = "fail"

(* What ReAuth's comment promises: "replays all blocked requests            *)
(* automatically once the refresh succeeds".  A request that blocked on a   *)
(* refresh which succeeded does not fail unless its own context ended.      *)
BlockedReplayedOnSuccess ==
  \A r \in Requests :
    /\ waitOn[r] # 0
    /\ result[r] = "failed"
    /\ r \notin cancelled
    => chans[waitOn[r]] # "nil"

(* Some call that began has yet to return. *)
Underway == \E r \in Requests : pc[r] \notin {"idle", "done"}
=============================================================================
