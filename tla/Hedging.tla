------------------------------- MODULE Hedging -------------------------------
(***************************************************************************)
(* One hedged exchange (pipeline/resilience.go, executeWithHedging and     *)
(* dispatchHedgingAttempts): a second attempt is raced against the first   *)
(* when a timer fires or the first attempt fails, the first response wins, *)
(* and the loser is cancelled and drained in the background.               *)
(***************************************************************************)
EXTENDS Naturals, Sequences, FiniteSets

CONSTANTS
  Repeatables,   \* values explored for "the body can be cloned"
  Methods        \* classes of request explored

ASSUME InputsAssumption ==
  Repeatables \subseteq BOOLEAN /\ Methods \subseteq {"reading", "allowed", "mutating", "undelayed"}

Attempts == {1, 2}

VARIABLES
  repeatable, method,   \* the request
  wraps,       \* the doer answers under a context of its own, as http.Client with a Timeout does
  hedgePc,     \* control point of the caller's goroutine
  tried,       \* each attempt: none, running, or finished
  resultsCh,   \* the buffered channel: <<attempt, succeeded>>
  bodyOf,      \* the response body of each attempt
  ctxDone,     \* attempts whose context has been cancelled
  callerDone,  \* req.Context() is done
  timer,       \* armed, fired or stopped
  req2Started, activeCount, firstErr,
  cleaned,     \* the flag of buildHedgeContext's cleanup
  drain,       \* results the drainRemainder goroutine still awaits
  returned,    \* what the call returned
  picked,      \* the attempt whose response was returned, 0 if none
  failed       \* attempts that ended with an error

hedgeVars == <<repeatable, method, wraps, hedgePc, tried, resultsCh, bodyOf, ctxDone, callerDone,
          timer, req2Started, activeCount, firstErr, cleaned, drain, returned,
          picked, failed>>
hedgeInputs == <<repeatable, method, wraps>>

HedgeInit ==
  /\ repeatable \in Repeatables
  /\ method \in Methods
  /\ wraps \in BOOLEAN
  /\ hedgePc = "start"
  /\ tried = [i \in Attempts |-> "none"]
  /\ resultsCh = <<>>
  /\ bodyOf = [i \in Attempts |-> "none"]
  /\ ctxDone = {}
  /\ callerDone = FALSE
  /\ timer = "armed"
  /\ req2Started = FALSE
  /\ activeCount = 0
  /\ firstErr = FALSE
  /\ cleaned = FALSE
  /\ drain = 0
  /\ returned = "none"
  /\ picked = 0
  /\ failed = {}

-----------------------------------------------------------------------------
(* Faulty variants of single steps, which the properties must tell apart    *)
(* from the code.                                                           *)
DrainOneLess(remaining) == IF remaining > 0 THEN remaining - 1 ELSE 0

-----------------------------------------------------------------------------
(* launchHedgeAttempt: a body that cannot be cloned is an immediate error.  *)
LaunchEffect(i) ==
  IF repeatable
    THEN /\ tried' = [tried EXCEPT ![i] = "running"]
         /\ UNCHANGED <<resultsCh, failed>>
    ELSE /\ tried' = [tried EXCEPT ![i] = "finished"]
         /\ resultsCh' = Append(resultsCh, <<i, FALSE>>)
         /\ failed' = failed \cup {i}

(* A mutating method is hedged only when the caller allows it, and nothing  *)
(* is when resolveHedgingDelay gives no delay.                              *)
MayHedge == method \notin {"mutating", "undelayed"}

(* executeWithHedging without a race: a single doer.Do on the request. *)
PlainDo ==
  /\ hedgePc = "start"
  /\ ~MayHedge
  /\ tried' = [tried EXCEPT ![1] = "running"]
  /\ hedgePc' = "plain"
  /\ UNCHANGED <<hedgeInputs, resultsCh, bodyOf, ctxDone, callerDone, timer, req2Started,
                 activeCount, firstErr, cleaned, drain, returned, picked, failed>>

PlainReturns(ok) ==
  /\ hedgePc = "plain"
  /\ tried' = [tried EXCEPT ![1] = "finished"]
  /\ bodyOf' = IF ok THEN [bodyOf EXCEPT ![1] = "open"] ELSE bodyOf
  /\ failed' = IF ok THEN failed ELSE failed \cup {1}
  /\ returned' = IF ok THEN "response" ELSE "error"
  /\ picked' = IF ok THEN 1 ELSE 0
  /\ hedgePc' = "done"
  /\ UNCHANGED <<hedgeInputs, resultsCh, ctxDone, callerDone, timer, req2Started,
                 activeCount, firstErr, cleaned, drain>>

LaunchFirst ==
  /\ hedgePc = "start"
  /\ MayHedge
  /\ LaunchEffect(1)
  /\ activeCount' = 1
  /\ hedgePc' = "select"
  /\ UNCHANGED <<hedgeInputs, bodyOf, ctxDone, callerDone, timer, req2Started, firstErr,
                 cleaned, drain, returned, picked>>

-----------------------------------------------------------------------------
(* The attempt goroutine: doer.Do returns, the result is sent.              *)
AttemptReturns(i, ok) ==
  /\ hedgePc # "plain"
  /\ tried[i] = "running"
  /\ Len(resultsCh) < 2
  /\ tried' = [tried EXCEPT ![i] = "finished"]
  /\ resultsCh' = Append(resultsCh, <<i, ok>>)
  /\ bodyOf' = IF ok THEN [bodyOf EXCEPT ![i] = "open"] ELSE bodyOf
  /\ failed' = IF ok THEN failed ELSE failed \cup {i}
  /\ UNCHANGED <<hedgeInputs, hedgePc, ctxDone, callerDone, timer, req2Started, activeCount,
                 firstErr, cleaned, drain, returned, picked>>

(* The contexts cleanup(winner) cancels; 0 stands for no winner. *)
Cancels(winner) ==
  CASE winner = 1 -> {2}
    [] winner = 2 -> {1}
    [] OTHER -> Attempts

(* cleanup, guarded by its compare-and-swap. *)
Cleanup(winner) ==
  /\ cleaned' = TRUE
  /\ ctxDone' = IF cleaned THEN ctxDone ELSE ctxDone \cup Cancels(winner)

(* drainRemainder: the number of results its goroutine will receive. *)
Remainder(remaining) == remaining

(* case <-req.Context().Done() *)
SelectCancelled ==
  /\ hedgePc = "select"
  /\ activeCount > 0
  /\ callerDone
  /\ drain' = Remainder(activeCount)
  /\ Cleanup(0)
  /\ returned' = "cancelled"
  /\ hedgePc' = "done"
  /\ UNCHANGED <<hedgeInputs, tried, resultsCh, bodyOf, callerDone, timer, req2Started,
                 activeCount, firstErr, picked, failed>>

(* case <-timer.C *)
SelectTimer ==
  /\ hedgePc = "select"
  /\ activeCount > 0
  /\ timer = "fired"
  /\ timer' = "stopped"
  /\ IF req2Started
       THEN UNCHANGED <<tried, resultsCh, failed, req2Started, activeCount>>
       ELSE /\ req2Started' = TRUE
            /\ activeCount' = activeCount + 1
            /\ LaunchEffect(2)
  /\ UNCHANGED <<hedgeInputs, hedgePc, bodyOf, ctxDone, callerDone, firstErr, cleaned, drain,
                 returned, picked>>

(* handleHedgeWinner tells the winner by the context of its request: unless *)
(* that is ctx2 itself the first attempt is taken for the winner.           *)
TakenForWinner(i) == IF i = 2 /\ ~wraps THEN 2 ELSE 1

(* case res := <-resultsCh, a response *)
SelectResponse ==
  /\ hedgePc = "select"
  /\ activeCount > 0
  /\ resultsCh # <<>>
  /\ Head(resultsCh)[2]
  /\ resultsCh' = Tail(resultsCh)
  /\ activeCount' = activeCount - 1
  /\ drain' = Remainder(activeCount - 1)
  /\ Cleanup(TakenForWinner(Head(resultsCh)[1]))
  /\ returned' = "response"
  /\ picked' = Head(resultsCh)[1]
  /\ hedgePc' = "done"
  /\ UNCHANGED <<hedgeInputs, tried, bodyOf, callerDone, timer, req2Started, firstErr, failed>>

(* activeCount == 0 && !req2Started: the second attempt starts at once. *)
Relaunch(active) == active = 0 /\ ~req2Started

(* activeCount-- on every result. *)
Received(active) == active - 1

(* case res := <-resultsCh, an error *)
SelectError ==
  LET active == Received(activeCount) IN
  /\ hedgePc = "select"
  /\ activeCount > 0
  /\ resultsCh # <<>>
  /\ ~Head(resultsCh)[2]
  /\ firstErr' = TRUE
  /\ IF Relaunch(active)
       THEN /\ timer' = "stopped"
            /\ req2Started' = TRUE
            /\ activeCount' = active + 1
            /\ IF repeatable
                 THEN /\ tried' = [tried EXCEPT ![2] = "running"]
                      /\ resultsCh' = Tail(resultsCh)
                      /\ UNCHANGED failed
                 ELSE /\ tried' = [tried EXCEPT ![2] = "finished"]
                      /\ resultsCh' = Append(Tail(resultsCh), <<2, FALSE>>)
                      /\ failed' = failed \cup {2}
       ELSE /\ resultsCh' = Tail(resultsCh)
            /\ activeCount' = active
            /\ UNCHANGED <<tried, failed, timer, req2Started>>
  /\ UNCHANGED <<hedgeInputs, hedgePc, bodyOf, ctxDone, callerDone, cleaned, drain, returned, picked>>

(* The loop ends with no attempt left: return nil, firstErr. *)
ReturnError ==
  /\ hedgePc = "select"
  /\ activeCount = 0
  /\ returned' = "error"
  /\ Cleanup(0)
  /\ hedgePc' = "done"
  /\ UNCHANGED <<hedgeInputs, tried, resultsCh, bodyOf, callerDone, timer, req2Started,
                 activeCount, firstErr, drain, picked, failed>>

(* res.resp.Body.Close() when there is a response. *)
CloseDrained(res) ==
  IF res[2] THEN [bodyOf EXCEPT ![res[1]] = "closed"] ELSE bodyOf

(* The goroutine of drainRemainder takes a result and closes its body. *)
DrainOne ==
  /\ drain > 0
  /\ resultsCh # <<>>
  /\ drain' = drain - 1
  /\ resultsCh' = Tail(resultsCh)
  /\ bodyOf' = CloseDrained(Head(resultsCh))
  /\ UNCHANGED <<hedgeInputs, hedgePc, tried, ctxDone, callerDone, timer, req2Started,
                 activeCount, firstErr, cleaned, returned, picked, failed>>

(* The caller closes the body it was given: ContextCancelingReadCloser      *)
(* cancels the context of the attempt taken for the winner.                 *)
CallerCloses ==
  /\ hedgePc = "done"
  /\ picked # 0
  /\ bodyOf[picked] = "open"
  /\ bodyOf' = [bodyOf EXCEPT ![picked] = "closed"]
  /\ ctxDone' = IF MayHedge THEN ctxDone \cup {TakenForWinner(picked)} ELSE ctxDone
  /\ UNCHANGED <<hedgeInputs, hedgePc, tried, resultsCh, callerDone, timer, req2Started,
                 activeCount, firstErr, cleaned, drain, returned, picked, failed>>

-----------------------------------------------------------------------------
TimerFires ==
  /\ timer = "armed"
  /\ hedgePc = "select"
  /\ timer' = "fired"
  /\ UNCHANGED <<hedgeInputs, hedgePc, tried, resultsCh, bodyOf, ctxDone, callerDone, req2Started,
                 activeCount, firstErr, cleaned, drain, returned, picked, failed>>

CallerCancels ==
  /\ hedgePc = "select"
  /\ ~callerDone
  /\ callerDone' = TRUE
  /\ ctxDone' = Attempts
  /\ UNCHANGED <<hedgeInputs, hedgePc, tried, resultsCh, bodyOf, timer, req2Started, activeCount,
                 firstErr, cleaned, drain, returned, picked, failed>>

Call ==
  \/ PlainDo \/ LaunchFirst \/ (\E ok \in BOOLEAN : PlainReturns(ok))
  \/ SelectCancelled \/ SelectTimer \/ SelectResponse \/ SelectError \/ ReturnError

Attempt(i) == \E ok \in BOOLEAN : AttemptReturns(i, ok)

HedgeTerminated ==
  /\ hedgePc = "done"
  /\ \A i \in Attempts : tried[i] # "running"
  /\ drain = 0
  /\ picked # 0 => bodyOf[picked] = "closed"
  /\ UNCHANGED hedgeVars

HedgeNext ==
  \/ Call
  \/ \E i \in Attempts : Attempt(i)
  \/ DrainOne \/ CallerCloses \/ TimerFires \/ CallerCancels
  \/ HedgeTerminated

(* doer.Do returns (transport timeouts, and cancelled contexts abort it),   *)
(* goroutines run; the caller need not close the body.                      *)
HedgeFairness ==
  /\ WF_hedgeVars(Call)
  /\ \A i \in Attempts : WF_hedgeVars(Attempt(i))
  /\ WF_hedgeVars(DrainOne)

HedgeSpec == HedgeInit /\ [][HedgeNext]_hedgeVars /\ HedgeFairness

-----------------------------------------------------------------------------
(* No result is orphaned: whatever is still running or in the channel when  *)
(* the call has returned is awaited by the drain goroutine, so no losing    *)
(* response keeps its connection; while the caller has not closed the body, *)
(* the context of the returned response is alive and the other one is not,  *)
(* except for a second attempt that answered under another context; once it *)
(* has, both contexts have ended; and an error is returned only after every *)
(* attempt the call could make.                                             *)
RaceSettles ==
  /\ hedgePc = "done" /\ MayHedge =>
       drain = Len(resultsCh) + Cardinality({i \in Attempts : tried[i] = "running"})
  /\ MayHedge /\ picked # 0 /\ ~callerDone /\ bodyOf[picked] = "open" /\ (wraps => picked = 1) =>
       ctxDone = Attempts \ {picked}
  /\ MayHedge /\ picked # 0 /\ bodyOf[picked] = "closed" => ctxDone = Attempts
  /\ returned = "error" => failed = (IF MayHedge THEN Attempts ELSE {1})

(* "The first socket to deliver valid headers wins the race, and the losing *)
(* socket is cancelled": it is never the winner that is.                    *)
WinnerIsKept ==
  MayHedge /\ picked # 0 /\ ~callerDone /\ bodyOf[picked] = "open" => picked \notin ctxDone

(* The call has yet to return, or a losing response to be closed. *)
Unsettled ==
  hedgePc # "done" \/ \E i \in Attempts : bodyOf[i] = "open" /\ picked # i
=============================================================================
