------------------------------ MODULE Dispatch ------------------------------
(***************************************************************************)
(* StdHandler.DispatchRequest (pipeline/resilience.go): proxy failover     *)
(* over a cursor that all requests of the handler share, then the one-shot *)
(* recovery from 421, 408 and 425.  One exchange with its hedging is       *)
(* modelled in Hedging and is a single step here.                          *)
(***************************************************************************)
EXTENDS Naturals, Sequences, FiniteSets

CONSTANTS
  Requests,      \* calls of DispatchRequest
  Proxies,       \* failover.Proxies, a sequence of those that parse
  RetryLimit,    \* failover.RetryLimit, 0 when unset
  CursorSize,    \* h.counter wraps at this value (2^32)
  MaxInFlight    \* bound on concurrent calls

RangeOf(s) == {s[i] : i \in DOMAIN s}

ASSUME LimitsAssumption == RetryLimit \in Nat /\ MaxInFlight \in Nat /\ CursorSize \in Nat /\ CursorSize > 1
ASSUME ProxiesAssumption == Proxies \in Seq(RangeOf(Proxies))

Statuses == {"2xx", "429", "502", "421", "408", "425"}

VARIABLES
  counter,     \* h.counter
  config,      \* each request: does the pipeline fail over
  carries,     \* requests that carry a RequestConfig
  bodyOf,      \* each request: GetBody works (or there is no body), is nil, or fails
  pc, attempt,
  address,     \* the proxy address the cookie jar sees in the current attempt
  tried,       \* addresses under which an exchange was made
  resp,        \* status of the response held, "none" without one
  held,        \* responses received and neither closed nor returned
  sent,        \* exchanges made per request
  mutation,    \* what recovery changed in the replayed request
  result,
  disturbed   \* calls that another one disturbed (a ghost)

vars == <<counter, config, carries, bodyOf, pc, attempt, address, tried, resp, held, sent,
          mutation, result, disturbed>>

Direct == "direct"
Bodies == {"repeatable", "one-shot", "broken"}

(* The handler may have served any number of calls before. *)
Init ==
  /\ counter \in 0 .. CursorSize - 1
  /\ config \in [Requests -> {"plain", "failover"}]
  /\ carries \in SUBSET Requests
  /\ bodyOf \in [Requests -> Bodies]
  /\ pc = [r \in Requests |-> "start"]
  /\ attempt = [r \in Requests |-> 0]
  /\ address = [r \in Requests |-> Direct]
  /\ tried = [r \in Requests |-> {}]
  /\ resp = [r \in Requests |-> "none"]
  /\ held = [r \in Requests |-> 0]
  /\ sent = [r \in Requests |-> 0]
  /\ mutation = [r \in Requests |-> "none"]
  /\ result = [r \in Requests |-> "none"]
  /\ disturbed = {}

Goto(r, l) == pc' = [pc EXCEPT ![r] = l]

-----------------------------------------------------------------------------
(* Faulty variants of single steps, which the properties must tell apart    *)
(* from the code.                                                           *)
SameCursor == counter
KeepResponse(r) == held[r]

-----------------------------------------------------------------------------
(* DispatchRequest's switch. *)
InFlight == {r \in Requests : pc[r] \notin {"start", "done"}}

Begin(r) ==
  /\ pc[r] = "start"
  /\ Cardinality(InFlight) < MaxInFlight
  /\ Goto(r, IF config[r] = "failover" /\ Proxies # <<>> THEN "select" ELSE "exchange")
  /\ disturbed' = IF InFlight = {} THEN disturbed ELSE disturbed \cup InFlight \cup {r}
  /\ UNCHANGED <<counter, config, carries, bodyOf, attempt, address, tried, resp, held, sent,
                 mutation, result>>

(* counter.Add(1) on a retry. *)
NextCursor == (counter + 1) % CursorSize

(* Wrapping goes on with the next proxy only if their number divides the    *)
(* width.                                                                   *)
TurnsAway(c) == c < counter /\ CursorSize % Len(Proxies) # 0

(* selectNextProxy: the first attempt only loads the shared counter.        *)
(* prepareRequestForProxy tells the cookie jar the address, and only when   *)
(* the request carries a configuration; nothing routes the exchange.        *)
SelectNextProxy(r) ==
  LET c == IF attempt[r] > 0 THEN NextCursor ELSE counter IN
  /\ pc[r] = "select"
  /\ counter' = c
  /\ address' = IF r \in carries THEN [address EXCEPT ![r] = Proxies[(c % Len(Proxies)) + 1]] ELSE address
  /\ disturbed' = IF TurnsAway(c) THEN disturbed \cup {r} ELSE disturbed
  /\ Goto(r, "exchange")
  /\ UNCHANGED <<config, carries, bodyOf, attempt, tried, resp, held, sent, mutation, result>>

(* attempt <= retryLimit, with Coalesce(RetryLimit, len(proxies)). *)
Limit == IF RetryLimit = 0 THEN Len(Proxies) ELSE RetryLimit
AttemptsLeft(r) == attempt[r] < Limit

(* Closing the response held. *)
Released(r) == held[r] - 1

(* An attempt of the failover loop failed, or answered 502 or 503. *)
FailOver(r, answered) ==
  /\ held' = [held EXCEPT ![r] = IF answered THEN Released(r) + 1 ELSE @]
  /\ IF AttemptsLeft(r)
       THEN /\ attempt' = [attempt EXCEPT ![r] = @ + 1]
            /\ Goto(r, "select")
            /\ UNCHANGED result
       ELSE /\ Goto(r, "done")
            /\ result' = [result EXCEPT ![r] = "error"]
            /\ UNCHANGED attempt
  /\ UNCHANGED resp

Failing(r) == config[r] = "failover" /\ Proxies # <<>>

(* prepareRequestForProxy asks GetBody for a new body before every attempt: *)
(* its error uses the attempt up.                                           *)
PrepareFails(r) ==
  /\ pc[r] = "exchange"
  /\ Failing(r)
  /\ bodyOf[r] = "broken"
  /\ FailOver(r, FALSE)
  /\ UNCHANGED <<counter, config, carries, bodyOf, address, tried, sent, mutation, disturbed>>

Prepared(r) == Failing(r) => bodyOf[r] # "broken"

(* An exchange, under the address of the attempt. *)
Exchanged(r) ==
  /\ sent' = [sent EXCEPT ![r] = @ + 1]
  /\ tried' = [tried EXCEPT ![r] = @ \cup {address[r]}]

(* The exchange fails. *)
ExchangeFails(r) ==
  /\ pc[r] = "exchange"
  /\ Prepared(r)
  /\ Exchanged(r)
  /\ IF Failing(r)
       THEN FailOver(r, FALSE)
       ELSE /\ Goto(r, "done")
            /\ result' = [result EXCEPT ![r] = "error"]
            /\ UNCHANGED <<attempt, resp, held>>
  /\ UNCHANGED <<counter, config, carries, bodyOf, address, mutation, disturbed>>

(* The exchange answers with status s. *)
ExchangeAnswers(r, s) ==
  /\ pc[r] = "exchange"
  /\ Prepared(r)
  /\ Exchanged(r)
  /\ IF Failing(r) /\ s = "502"
       THEN FailOver(r, TRUE)
       ELSE /\ resp' = [resp EXCEPT ![r] = s]
            /\ held' = [held EXCEPT ![r] = @ + 1]
            /\ Goto(r, "inspect")
            /\ UNCHANGED <<attempt, result>>
  /\ UNCHANGED <<counter, config, carries, bodyOf, address, mutation, disturbed>>

(* The status switch after the exchange: hand the response to the caller.   *)
Return(r) ==
  /\ pc[r] = "inspect"
  /\ resp[r] \notin {"421", "408", "425"}
  /\ result' = [result EXCEPT ![r] = resp[r]]
  /\ held' = [held EXCEPT ![r] = @ - 1]
  /\ Goto(r, "done")
  /\ UNCHANGED <<counter, config, carries, bodyOf, attempt, address, tried, resp, sent, mutation, disturbed>>

(* retryWithMutation: close the response, clone the request, change it.     *)
Recover(r) ==
  /\ pc[r] = "inspect"
  /\ resp[r] \in {"421", "408", "425"}
  /\ held' = [held EXCEPT ![r] = Released(r)]
  /\ IF bodyOf[r] = "repeatable"
       THEN /\ mutation' = [mutation EXCEPT ![r] =
                              CASE resp[r] = "421" -> "no Alt-Svc"
                                [] resp[r] = "408" -> "Connection: close"
                                [] resp[r] = "425" -> "no Early-Data"]
            /\ Goto(r, "replay")
            /\ UNCHANGED result
       ELSE /\ result' = [result EXCEPT ![r] = "clone error"]
            /\ Goto(r, "done")
            /\ UNCHANGED mutation
  /\ UNCHANGED <<counter, config, carries, bodyOf, attempt, address, tried, resp, sent, disturbed>>

(* doer.Do(clonedReq): its answer is returned as it is. *)
Replay(r, s) ==
  /\ pc[r] = "replay"
  /\ Exchanged(r)
  /\ resp' = [resp EXCEPT ![r] = s]
  /\ result' = [result EXCEPT ![r] = s]
  /\ Goto(r, "done")
  /\ UNCHANGED <<counter, config, carries, bodyOf, attempt, address, held, mutation, disturbed>>

Step(r) ==
  \/ Begin(r) \/ SelectNextProxy(r) \/ PrepareFails(r) \/ ExchangeFails(r)
  \/ \E s \in Statuses : ExchangeAnswers(r, s)
  \/ Return(r) \/ Recover(r)
  \/ \E s \in Statuses \cup {"error"} : Replay(r, s)

Terminated ==
  /\ \A r \in Requests : pc[r] = "done"
  /\ UNCHANGED vars

Next == (\E r \in Requests : Step(r)) \/ Terminated

Spec == Init /\ [][Next]_vars

-----------------------------------------------------------------------------
(* A call sends the request at most retryLimit+1 times plus one recovery,   *)
(* whatever mixture of faults and recoverable statuses it meets, and only   *)
(* once when it neither fails over nor recovers.                            *)
SendsAreBounded ==
  \A r \in Requests :
    sent[r] <= (IF config[r] = "failover" THEN Limit + 1 ELSE 1)
               + (IF mutation[r] # "none" THEN 1 ELSE 0)

(* No response is dropped open on the way to another attempt, to recovery   *)
(* or to an error.                                                          *)
NoResponseLeaks ==
  \A r \in Requests :
    held[r] = (IF pc[r] = "inspect" THEN 1 ELSE 0)

(* ProxyFailover "rotates to the next healthy proxy candidate across        *)
(* retries" (config.go:820).  What rotates is the address the cookie jar is *)
(* given: a call whose request carries a configuration fails only after an  *)
(* exchange under the address of every candidate, if the limit allows that  *)
(* many, its body could be had again, and neither another call nor its own  *)
(* width turned the shared cursor away in between.                          *)
FailoverTriesAll ==
  \A r \in carries \ disturbed :
    /\ config[r] = "failover" /\ bodyOf[r] # "broken" /\ Len(Proxies) <= Limit + 1
    /\ result[r] = "error" /\ mutation[r] = "none"
    => RangeOf(Proxies) \subseteq tried[r]

-----------------------------------------------------------------------------
(* "When active proxies experience ... rate limiting (HTTP 429) ... rotates *)
(* to the next healthy proxy candidate" (config.go:819): a call that fails  *)
(* over returns no 429 before it has tried them all.                        *)
RateLimitRotates ==
  \A r \in Requests :
    config[r] = "failover" /\ result[r] = "429" /\ mutation[r] = "none" => RangeOf(Proxies) \subseteq tried[r]

(* And no attempt of its failover loop is made under no proxy's address.    *)
AttemptsAreProxied ==
  \A r \in Requests : config[r] = "failover" /\ Proxies # <<>> /\ sent[r] > 0 => address[r] # Direct
=============================================================================
