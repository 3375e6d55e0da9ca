-------------------------------- MODULE Retry --------------------------------
(***************************************************************************)
(* The resilience middlewares (middleware/retry.go, resilience.go and      *)
(* ratelimit.go) in the chain Fallback, Retry, CircuitBreak, LimitEnforcer, *)
(* Chaos, around a doer that sends.  Calls for one host share the registry *)
(* of circuit breakers; the breaker itself is a library's.  The error that *)
(* comes out of the chain goes to PostProcess, which drops the response    *)
(* that came with it.                                                      *)
(***************************************************************************)
EXTENDS Naturals

CONSTANTS
  Callers,       \* calls of the chain
  Inputs,        \* requests explored
  MaxAttempts,   \* RetryOptions.MaxAttempts as configured, 0 when unset
  MaxRetries0,   \* RetryOptions.MaxRetries, used when MaxAttempts is unset
  AutoKey,       \* RetryOptions.AutoIdempotencyKey
  HonorRetryAfter

ASSUME RetryAssumption ==
  MaxAttempts \in Nat /\ MaxRetries0 \in Nat /\ AutoKey \in BOOLEAN /\ HonorRetryAfter \in BOOLEAN

ASSUME InputsAssumption ==
  /\ "none" \notin Callers
  /\ \A i \in Inputs :
       /\ DOMAIN i = {"method", "body", "keyed", "allowed", "override", "allowNonReadOnly",
                      "fallback", "mayAbort"}
       /\ i.override \in Nat

(* What a send comes back with; "late" is a 503 whose Retry-After exceeds   *)
(* MaxRetryAfter, "paced" one whose Retry-After does not.                   *)
Statuses503 == {"503", "paced", "late"}
Responses == {"200", "429"} \cup Statuses503
Errors == {"transient", "fatal", "circuit open"}

VARIABLES
  input,        \* the request of each call
  rpc,
  tries,        \* the loop's attempt
  last,         \* lastResp and lastErr: a response, an error or "none"
  unread,       \* lastResp is open
  pos,          \* what is left of the request body: whole, part, or used up by a send
  keyed,        \* the request carries an idempotency key
  sends,        \* how often each request was sent (a ghost)
  repeated,     \* calls that sent again what was not refused with 429 (a ghost)
  cut,          \* calls that sent less than the body (a ghost)
  paced,        \* calls that slept as long as Retry-After says (a ghost)
  ended,        \* what the chain returned
  lost,         \* why a response was left open, "none" if none was (a ghost)
  aborted,      \* calls whose context is done
  registry,     \* cb.breakers for the host, 0 when it holds none
  keyLock,      \* the call in km.Lock(host), "none" when free
  chosen,       \* the breaker each call got
  made,         \* breakers created
  tripped       \* breakers that are open

retryVars == <<input, rpc, tries, last, unread, pos, keyed, sends, repeated, cut, paced,
               ended, lost,
               aborted, registry, keyLock, chosen, made, tripped>>
breakers == <<registry, keyLock, chosen, made, tripped>>
history == <<sends, repeated, cut, paced>>

RetryInit ==
  /\ input \in [Callers -> Inputs]
  /\ rpc = [c \in Callers |-> "start"]
  /\ tries = [c \in Callers |-> 1]
  /\ last = [c \in Callers |-> "none"]
  /\ unread = [c \in Callers |-> FALSE]
  /\ pos = [c \in Callers |-> "whole"]
  /\ keyed = [c \in Callers |-> FALSE]
  /\ sends = [c \in Callers |-> 0]
  /\ repeated = {}
  /\ cut = {}
  /\ paced = {}
  /\ ended = [c \in Callers |-> "none"]
  /\ lost = [c \in Callers |-> "none"]
  /\ aborted = {}
  /\ registry = 0
  /\ keyLock = "none"
  /\ chosen = [c \in Callers |-> 0]
  /\ made = 0
  /\ tripped = {}

At(f, c, v) == [f EXCEPT ![c] = v]

-----------------------------------------------------------------------------
(* Faulty variants of single steps, which the properties must tell apart    *)
(* from the code.                                                           *)
RetryAnything(c) == TRUE

-----------------------------------------------------------------------------
(* The options after Retry's defaulting and resolveRetryOverrides. *)
Attempts0 ==
  IF MaxAttempts > 0 THEN MaxAttempts ELSE MaxRetries0 + 1

MaxTries(c) == IF input[c].override > 0 THEN input[c].override ELSE Attempts0

(* The composite condition: transient errors, 5xx and 429. *)
ShouldRetry(outcome) == outcome \in {"transient", "circuit open", "429"} \cup Statuses503

(* isFatalError *)
IsFatal(outcome) == outcome = "fatal"

(* allowRetryForMethod *)
AllowRetryForMethod(c) ==
  IF input[c].allowed # {}
    THEN input[c].method \in input[c].allowed
    ELSE \/ input[c].method = "GET"
         \/ keyed[c]
         \/ last[c] = "429"
         \/ input[c].allowNonReadOnly

(* rewindRequestBody: of a stream that cannot be read again BodyBytes reads *)
(* what is left and keeps it for the attempts that follow.                  *)
CanRewind(c) == input[c].body # "one-shot" \/ pos[c] # "used"

Kept(c) ==
  IF input[c].body # "one-shot" THEN input[c].body
  ELSE IF pos[c] = "whole" THEN "bytes" ELSE "tail"

Rewound(c) == IF Kept(c) = "tail" THEN "part" ELSE "whole"

(* Retry begins: ensureIdempotencyKey. *)
BeginRetry(c) ==
  /\ rpc[c] = "start"
  /\ keyed' = At(keyed, c, input[c].keyed \/ AutoKey)
  /\ rpc' = At(rpc, c, "loop")
  /\ UNCHANGED <<input, tries, last, unread, pos, history, ended, lost, aborted, breakers>>

(* Retry returns with what it holds: Fallback takes over. *)
LeaveWith(c, outcome, why) ==
  /\ last' = At(last, c, outcome)
  /\ lost' = At(lost, c, why)
  /\ rpc' = At(rpc, c, "fallback")

Lost(c, why) == IF unread[c] THEN why ELSE "none"

(* The select at the top of the loop. *)
LoopCancelled(c) ==
  /\ rpc[c] = "loop"
  /\ c \in aborted
  /\ LeaveWith(c, "cancelled", Lost(c, "cancelled"))
  /\ unread' = At(unread, c, FALSE)
  /\ UNCHANGED <<input, tries, pos, keyed, history, ended, aborted, breakers>>

(* The first attempt goes straight to next.Do; a later one rewinds the      *)
(* body, and an error there closes the last response.                       *)
LoopRewind(c) ==
  /\ rpc[c] = "loop"
  /\ c \notin aborted
  /\ IF tries[c] = 1
       THEN /\ rpc' = At(rpc, c, "breaker")
            /\ UNCHANGED <<input, last, lost, unread, pos>>
       ELSE IF CanRewind(c)
              THEN /\ pos' = At(pos, c, Rewound(c))
                   /\ input' = [input EXCEPT ![c].body = Kept(c)]
                   /\ rpc' = At(rpc, c, "allow")
                   /\ UNCHANGED <<last, lost, unread>>
              ELSE /\ unread' = At(unread, c, FALSE)
                   /\ LeaveWith(c, "cannot rewind", "none")
                   /\ UNCHANGED <<input, pos>>
  /\ UNCHANGED <<tries, keyed, history, ended, aborted, breakers>>

(* break out of the loop, with ErrMaxRetriesExceeded around an error. *)
LoopForbidden(c) ==
  /\ rpc[c] = "allow"
  /\ ~AllowRetryForMethod(c)
  /\ LeaveWith(c, last[c], "none")
  /\ UNCHANGED <<input, tries, unread, pos, keyed, history, ended, aborted, breakers>>

(* calculateRetrySleep: Retry-After if the response names one, whatever     *)
(* HonorRetryAfter says, else the backoff.                                  *)
SleepSource(c) == IF last[c] = "paced" THEN "header" ELSE "backoff"

(* Retry-After beyond the limit: the response is returned with an error,    *)
(* and PostProcess drops it.                                                *)
RetryAfterExceeded(c) ==
  /\ rpc[c] = "allow"
  /\ AllowRetryForMethod(c)
  /\ last[c] = "late"
  /\ LeaveWith(c, "retry after exceeded", Lost(c, "exceeded"))
  /\ unread' = At(unread, c, FALSE)
  /\ UNCHANGED <<input, tries, pos, keyed, history, ended, aborted, breakers>>

BeginSleep(c) ==
  /\ rpc[c] = "allow"
  /\ AllowRetryForMethod(c)
  /\ last[c] # "late"
  /\ paced' = IF SleepSource(c) = "header" THEN paced \cup {c} ELSE paced
  /\ rpc' = At(rpc, c, "sleep")
  /\ UNCHANGED <<input, tries, last, unread, pos, keyed, sends, repeated, cut, ended, lost,
                 aborted, breakers>>

(* lastResp.Close() before the next attempt. *)
BeforeNext(c) == "none"

(* waitRetryDelay: the timer, or the context. *)
EndSleep(c) ==
  /\ rpc[c] = "sleep"
  /\ unread' = At(unread, c, FALSE)
  /\ \/ /\ lost' = At(lost, c, BeforeNext(c))
        /\ rpc' = At(rpc, c, "breaker")
        /\ UNCHANGED last
     \/ c \in aborted /\ LeaveWith(c, "cancelled", "none")
  /\ UNCHANGED <<input, tries, pos, keyed, history, ended, aborted, breakers>>

-----------------------------------------------------------------------------
(* getBreaker: the first Load. *)
LoadBreaker(c) ==
  /\ rpc[c] = "breaker"
  /\ chosen' = At(chosen, c, registry)
  /\ rpc' = At(rpc, c, IF registry # 0 THEN "enter" ELSE "lock")
  /\ UNCHANGED <<input, tries, last, unread, pos, keyed, history, ended, lost, aborted,
                 registry, keyLock, made, tripped>>

(* km.Lock(host), the second Load, breaker.New. *)
Missing(c) == registry = 0

LockBreaker(c) ==
  /\ rpc[c] = "lock"
  /\ keyLock = "none"
  /\ IF Missing(c)
       THEN /\ made' = made + 1
            /\ chosen' = At(chosen, c, made + 1)
            /\ keyLock' = c
            /\ rpc' = At(rpc, c, "publish")
       ELSE /\ chosen' = At(chosen, c, registry)
            /\ rpc' = At(rpc, c, "enter")
            /\ UNCHANGED <<made, keyLock>>
  /\ UNCHANGED <<input, tries, last, unread, pos, keyed, history, ended, lost, aborted,
                 registry, tripped>>

(* breakers.Store, km.Unlock *)
PublishBreaker(c) ==
  /\ rpc[c] = "publish"
  /\ registry' = chosen[c]
  /\ keyLock' = "none"
  /\ rpc' = At(rpc, c, "enter")
  /\ UNCHANGED <<input, tries, last, unread, pos, keyed, history, ended, lost, aborted,
                 chosen, made, tripped>>

(* What next.Do returned, judged by Retry. *)
Judge(c, outcome) ==
  /\ last' = At(last, c, outcome)
  /\ unread' = At(unread, c, outcome \in Responses)
  /\ lost' = lost
  /\ IF IsFatal(outcome) \/ ~ShouldRetry(outcome) \/ tries[c] = MaxTries(c)
       THEN rpc' = At(rpc, c, "fallback") /\ UNCHANGED tries
       ELSE rpc' = At(rpc, c, "loop") /\ tries' = At(tries, c, tries[c] + 1)

(* b.Do on an open breaker: the error names the host. *)
BreakerRefuses(c) ==
  /\ rpc[c] = "enter"
  /\ chosen[c] \in tripped
  /\ Judge(c, "circuit open")
  /\ UNCHANGED <<input, pos, keyed, history, ended, aborted, breakers>>

BreakerAdmits(c) ==
  /\ rpc[c] = "enter"
  /\ chosen[c] \notin tripped
  /\ rpc' = At(rpc, c, "limit")
  /\ UNCHANGED <<input, tries, last, unread, pos, keyed, history, ended, lost, aborted, breakers>>

(* DefaultCircuitBreakerCondition; a failure may trip the breaker. *)
Fails(outcome) == outcome \in Errors \cup Statuses503 \cup {"cancelled"}

Tripped(c, outcome) ==
  IF Fails(outcome) THEN {tripped, tripped \cup {chosen[c]}} ELSE {tripped}

Back(c, outcome) ==
  /\ Judge(c, outcome)
  /\ tripped' \in Tripped(c, outcome)
  /\ UNCHANGED <<registry, keyLock, chosen, made>>

(* LimitEnforcer waits for its window, or gives up with the context. *)
LimitCancelled(c) ==
  /\ rpc[c] = "limit"
  /\ c \in aborted
  /\ Back(c, "cancelled")
  /\ UNCHANGED <<input, pos, keyed, history, ended, aborted>>

LimitAllows(c) ==
  /\ rpc[c] = "limit"
  /\ rpc' = At(rpc, c, "send")
  /\ UNCHANGED <<input, tries, last, unread, pos, keyed, history, ended, lost, aborted, breakers>>

(* Chaos answers 503 in place of the origin. *)
ChaosInjects(c) ==
  /\ rpc[c] = "send"
  /\ Back(c, "503")
  /\ UNCHANGED <<input, pos, keyed, history, ended, aborted>>

(* next.Do sends the request. *)
Send(c, outcome) ==
  /\ rpc[c] = "send"
  /\ Back(c, outcome)
  /\ sends' = At(sends, c, sends[c] + 1)
  /\ repeated' = IF sends[c] > 0 /\ last[c] # "429" THEN repeated \cup {c} ELSE repeated
  /\ cut' = IF pos[c] # "whole" /\ input[c].body # "none" THEN cut \cup {c} ELSE cut
  /\ \E rest \in {"used"} \cup (IF input[c].body = "one-shot" THEN {"part"} ELSE {}) :
       pos' = At(pos, c, rest)
  /\ UNCHANGED <<input, keyed, paced, ended, aborted>>

(* The library's breaker after its cooldown. *)
CoolDown(b) ==
  /\ b \in tripped
  /\ tripped' = tripped \ {b}
  /\ UNCHANGED <<input, rpc, tries, last, unread, pos, keyed, history, ended, lost, aborted,
                 registry, keyLock, chosen, made>>

-----------------------------------------------------------------------------
(* FallbackEx with the default predicate: another response may take the     *)
(* place of an error or of a 5xx, which then nobody closes.                 *)
FallsBack(c) ==
  /\ input[c].fallback
  /\ last[c] \notin {"200", "429"}

FallbackServes(c) ==
  /\ rpc[c] = "fallback"
  /\ FallsBack(c)
  /\ ended' = At(ended, c, "fallback")
  /\ lost' = At(lost, c, IF unread[c] THEN "fallback" ELSE lost[c])
  /\ unread' = At(unread, c, FALSE)
  /\ rpc' = At(rpc, c, "done")
  /\ UNCHANGED <<input, tries, last, pos, keyed, history, aborted, breakers>>

(* No fallback, or one that failed: what Retry returned. *)
ChainReturns(c) ==
  /\ rpc[c] = "fallback"
  /\ ended' = At(ended, c, last[c])
  /\ rpc' = At(rpc, c, "done")
  /\ UNCHANGED <<input, tries, last, unread, pos, keyed, history, lost, aborted, breakers>>

(* The caller cancels. *)
Abort(c) ==
  /\ rpc[c] # "done"
  /\ c \notin aborted
  /\ input[c].mayAbort
  /\ aborted' = aborted \cup {c}
  /\ UNCHANGED <<input, rpc, tries, last, unread, pos, keyed, history, ended, lost, breakers>>

RetryStep(c) ==
  \/ BeginRetry(c) \/ LoopCancelled(c) \/ LoopRewind(c) \/ LoopForbidden(c)
  \/ RetryAfterExceeded(c) \/ BeginSleep(c) \/ EndSleep(c)
  \/ LoadBreaker(c) \/ LockBreaker(c) \/ PublishBreaker(c)
  \/ BreakerRefuses(c) \/ BreakerAdmits(c)
  \/ LimitCancelled(c) \/ LimitAllows(c) \/ ChaosInjects(c)
  \/ \E outcome \in Responses \cup {"transient", "fatal"} : Send(c, outcome)
  \/ FallbackServes(c) \/ ChainReturns(c)

RetryNext ==
  \/ \E c \in Callers : RetryStep(c) \/ Abort(c)
  \/ \E b \in tripped : CoolDown(b)

RetryDone == \A c \in Callers : rpc[c] = "done"

RetrySpec == RetryInit /\ [][RetryNext]_retryVars

-----------------------------------------------------------------------------
(* A request that is not idempotent, has no key and no permission of its    *)
(* caller is not sent again unless the origin refused it with 429; and no   *)
(* request is sent more often than the attempts allow.                      *)
NoUnsafeResend ==
  /\ \A c \in Callers : sends[c] <= MaxTries(c)
  /\ \A c \in repeated :
       \/ input[c].method \in {"GET"} \cup input[c].allowed
       \/ keyed[c]
       \/ input[c].allowNonReadOnly

(* Every send carries the whole body, through any mixture of refusals by    *)
(* the breaker, injected answers and sends, unless it is the rest of a      *)
(* stream an earlier send had begun to read.                                *)
WholeBodySent == \A c \in cut : input[c].body = "tail"

(* Concurrent first calls for a host agree on one circuit breaker, so its   *)
(* failures are counted together.                                           *)
OneBreakerPerHost ==
  \A c, d \in Callers :
    rpc[c] \in {"enter", "limit", "send"} /\ rpc[d] \in {"enter", "limit", "send"}
      => chosen[c] = chosen[d]

(* A call that ends in an error holds no open response, and none is left    *)
(* open on the way but on three paths: the caller cancels between a         *)
(* response and the next attempt, Retry-After exceeds its limit, or a       *)
(* fallback replaces the response.                                          *)
ResponsesSettled ==
  \A c \in Callers :
    /\ rpc[c] = "done" /\ ended[c] \notin Responses => ~unread[c]
    /\ \/ lost[c] = "none"
       \/ lost[c] = "cancelled" /\ c \in aborted
       \/ lost[c] = "exceeded" /\ last[c] = "retry after exceeded"
       \/ lost[c] = "fallback" /\ ended[c] = "fallback"

(* "HonorRetryAfter enables or disables parsing server 'Retry-After'        *)
(* response headers": without it no delay is the server's.                  *)
RetryAfterIsOptional ==
  ~HonorRetryAfter => paced = {}
=============================================================================
