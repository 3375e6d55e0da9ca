-------------------------- MODULE Pipeline_proofs --------------------------
(***************************************************************************)
(* Proofs about the request pipeline: the dispatch of requests over a      *)
(* cursor into the proxies, the stages around it with the response cache,  *)
(* and the retrying middlewares; and about io_uring, whose positions wrap  *)
(* as that cursor does.  First what the two cursors need of remainders.    *)
(***************************************************************************)
EXTENDS MCPipeline, IoUring, TLAPS

(* Division with a remainder. *)
LEMMA Division ==
  ASSUME NEW n \in Nat \ {0}, NEW c \in Nat
  PROVE  c = n * (c \div n) + (c % n) /\ c \div n \in Nat /\ c % n \in 0 .. n - 1
  <1>1. c % n \in 0 .. n - 1
    OBVIOUS
  <1>2. c = n * (c \div n) + (c % n)
    OBVIOUS
  <1>3. c \div n \in Nat
    OBVIOUS
  <1> QED
    BY <1>1, <1>2, <1>3

(* A larger factor adds at least one more n. *)
LEMMA Larger ==
  ASSUME NEW n \in Nat, NEW a \in Nat, NEW b \in Nat, a < b
  PROVE  n * a + n <= n * b
  <1>1. PICK d \in Nat : b = a + 1 + d
    <2>1. b - (a + 1) \in Nat
      OBVIOUS
    <2> QED
      BY <2>1
  <1>2. n * b = n * a + n + n * d
    BY <1>1
  <1>3. n * d \in Nat
    OBVIOUS
  <1> QED
    BY <1>2, <1>3

(* c is a turns of n, and b more. *)
Turns(c, n, a, b) == c = n * a + b

(* There is one remainder. *)
LEMMA Remainder ==
  ASSUME NEW n \in Nat \ {0}, NEW a \in Nat, NEW b \in 0 .. n - 1, NEW c \in Nat, Turns(c, n, a, b)
  PROVE  c % n = b
  <1> DEFINE q == c \div n
  <1> DEFINE m == c % n
  <1>1. c = n * q + m /\ q \in Nat /\ m \in 0 .. n - 1
    BY Division
  <1> HIDE DEF q, m
  <1>0. c = n * a + b
    BY DEF Turns
  <1>2. n * q \in Nat /\ n * a \in Nat
    BY <1>1
  <1>3. ~ q < a
    BY <1>0, <1>1, <1>2, Larger
  <1>4. ~ a < q
    BY <1>0, <1>1, <1>2, Larger
  <1>5. q = a
    BY <1>1, <1>3, <1>4
  <1>6. m = b
    BY <1>0, <1>1, <1>2, <1>5
  <1> QED
    BY <1>6 DEF m

(* A cursor that advances by one goes to the next position of a circle. *)
LEMMA CursorTurns ==
  ASSUME NEW n \in Nat \ {0}, NEW c \in Nat
  PROVE  /\ c % n \in 0 .. n - 1
         /\ (c + 1) % n = IF c % n = n - 1 THEN 0 ELSE (c % n) + 1
  <1> DEFINE q == c \div n
  <1> DEFINE m == c % n
  <1>1. c = n * q + m /\ q \in Nat /\ m \in 0 .. n - 1
    BY Division
  <1> HIDE DEF q, m
  <1>2. CASE m = n - 1
    <2>1. PICK a \in Nat, b \in 0 .. n - 1, d \in Nat : a = q + 1 /\ b = 0 /\ d = c + 1
      BY <1>1
    <2>2. Turns(d, n, a, b)
      BY <1>1, <1>2, <2>1 DEF Turns
    <2>3. d % n = b
      BY <2>2, Remainder
    <2> QED
      BY <1>1, <1>2, <2>1, <2>3 DEF m
  <1>3. CASE m # n - 1
    <2>1. Turns(c + 1, n, q, m + 1) /\ m + 1 \in 0 .. n - 1 /\ c + 1 \in Nat
      BY <1>1, <1>3 DEF Turns
    <2>2. (c + 1) % n = m + 1
      BY <1>1, <2>1, Remainder
    <2> QED
      BY <1>1, <1>3, <2>2 DEF m
  <1> QED
    BY <1>2, <1>3

(* A number below n is its own remainder, and n more changes nothing. *)
LEMMA Small ==
  ASSUME NEW n \in Nat \ {0}, NEW b \in 0 .. n - 1
  PROVE  b % n = b /\ (b + n) % n = b
  <1>1. b \in Nat /\ b + n \in Nat /\ Turns(b, n, 0, b) /\ Turns(b + n, n, 1, b)
    BY DEF Turns
  <1>2. b % n = b
    BY <1>1, Remainder
  <1>3. (b + n) % n = b
    BY <1>1, Remainder
  <1> QED
    BY <1>2, <1>3

-----------------------------------------------------------------------------
(* Dispatch. *)

DispatchType ==
  /\ counter \in 0 .. CursorSize - 1
  /\ pc \in [Requests -> {"start", "select", "exchange", "inspect", "replay", "done"}]
  /\ attempt \in [Requests -> Nat] /\ sent \in [Requests -> Nat]
  /\ DOMAIN address = Requests /\ DOMAIN tried = Requests /\ DOMAIN resp = Requests /\ DOMAIN held = Requests
  /\ DOMAIN mutation = Requests /\ DOMAIN result = Requests

(* What a call has sent by the time of each point on its way. *)
SendsFit(r) ==
  /\ attempt[r] <= (IF Failing(r) THEN Limit ELSE 0)
  /\ pc[r] = "start" => attempt[r] = 0
  /\ pc[r] = "select" => Failing(r)
  /\ pc[r] \in {"start", "select", "exchange"} => sent[r] <= attempt[r]
  /\ pc[r] \in {"start", "select", "exchange", "inspect"} => mutation[r] = "none"
  /\ pc[r] = "replay" => mutation[r] # "none"
  /\ sent[r] <= attempt[r] + 1 + (IF pc[r] = "done" /\ mutation[r] # "none" THEN 1 ELSE 0)

(* How many advances ago the cursor was at position i. *)
Position == counter % Len(Proxies)
Ago(i) == IF i <= Position THEN Position - i ELSE Position + Len(Proxies) - i
Tried(r, i) == Proxies[i + 1] \in tried[r]
Positions == 0 .. Len(Proxies) - 1

(* A call that nothing disturbs has tried the candidates that the cursor    *)
(* went over last, as many as it made attempts.                             *)
Window(r) ==
  /\ pc[r] = "select" => \A i \in Positions : Ago(i) < attempt[r] => Tried(r, i)
  /\ pc[r] = "exchange" =>
       /\ address[r] = Proxies[Position + 1]
       /\ \A i \in Positions : 0 < Ago(i) /\ Ago(i) <= attempt[r] => Tried(r, i)

Sole(r) == r \in carries \ disturbed /\ Failing(r) /\ bodyOf[r] # "broken" /\ Len(Proxies) <= Limit + 1

(* Calls that are in flight together overlap. *)
Overlaps == \A r, s \in InFlight : r # s => r \in disturbed

(* What a call holds to return, and that it has not returned before. *)
Answered(r) == pc[r] = "inspect" => resp[r] \in Statuses
Unsettled(r) == pc[r] # "done" => result[r] = "none"

DispatchInv ==
  /\ DispatchType /\ NoResponseLeaks /\ Overlaps
  /\ \A r \in Requests : SendsFit(r) /\ Unsettled(r) /\ Answered(r)

ServesInv == carries \subseteq Requests /\ (\A r \in Requests : Sole(r) => Window(r)) /\ FailoverTriesAll

(* The first call starts from nothing. *)
LEMMA DispatchStarts == Init => DispatchInv /\ ServesInv
  <1> SUFFICES ASSUME Init PROVE DispatchInv /\ ServesInv
    OBVIOUS
  <1>1. DispatchType /\ NoResponseLeaks
    BY DEF Init, DispatchType, NoResponseLeaks
  <1>2. Limit \in Nat
    BY LimitsAssumption DEF Limit
  <1>3. Overlaps /\ \A r \in Requests : SendsFit(r) /\ Unsettled(r) /\ Answered(r)
    BY <1>2 DEF Init, Overlaps, InFlight, SendsFit, Unsettled, Answered
  <1>4. ServesInv
    BY DEF Init, ServesInv, Window, FailoverTriesAll
  <1> QED
    BY <1>1, <1>3, <1>4 DEF DispatchInv

(* A step of r changes nothing of the other calls. *)
Apart(r) ==
  /\ config' = config /\ carries' = carries /\ bodyOf' = bodyOf
  /\ \A s \in Requests \ {r} :
       /\ pc'[s] = pc[s] /\ attempt'[s] = attempt[s] /\ address'[s] = address[s] /\ held'[s] = held[s]
       /\ resp'[s] = resp[s] /\ tried'[s] = tried[s]
       /\ sent'[s] = sent[s] /\ mutation'[s] = mutation[s] /\ result'[s] = result[s]

(* A step that leaves the other calls alone keeps what is said of each.     *)
LEMMA ApartInv ==
  ASSUME DispatchInv, NEW r \in Requests, Apart(r), DispatchType',
         held'[r] = (IF pc'[r] = "inspect" THEN 1 ELSE 0),
         \/ pc[r] # "start" /\ pc[r] # "done" /\ disturbed' \in {disturbed, disturbed \cup {r}}
         \/ disturbed' = IF InFlight = {} THEN disturbed ELSE disturbed \cup InFlight \cup {r},
         SendsFit(r)', Unsettled(r)', Answered(r)'
  PROVE  DispatchInv'
  <1>1. \A s \in Requests \ {r} : SendsFit(s)' /\ Unsettled(s)' /\ Answered(s)'
    BY DEF DispatchInv, Apart, SendsFit, Unsettled, Failing, Answered
  <1>2. NoResponseLeaks'
    BY DEF DispatchInv, NoResponseLeaks, Apart
  <1>3. Overlaps'
    BY DEF DispatchInv, Overlaps, InFlight, Apart
  <1> QED
    BY <1>1, <1>2, <1>3 DEF DispatchInv

(* One more attempt, or an error when none is left. *)
LEMMA FailedAttempt ==
  ASSUME DispatchInv, NEW r \in Requests, NEW answered \in BOOLEAN, pc[r] = "exchange", Failing(r),
         FailOver(r, answered), UNCHANGED <<counter, config, carries, bodyOf, address, mutation, disturbed>>,
         (sent' = sent /\ tried' = tried) \/ Exchanged(r)
  PROVE  DispatchInv' /\ Apart(r)
  <1>1. Limit \in Nat /\ (AttemptsLeft(r) <=> attempt[r] < Limit)
    BY LimitsAssumption DEF Limit, AttemptsLeft
  <1>2. held[r] = 0 /\ held'[r] = 0 /\ DOMAIN held' = Requests
        /\ (\A s \in Requests \ {r} : held'[s] = held[s]) /\ resp' = resp
    BY DEF DispatchInv, DispatchType, NoResponseLeaks, FailOver, Released
  <1>3. \/ /\ attempt[r] < Limit /\ attempt' = [attempt EXCEPT ![r] = @ + 1]
           /\ pc' = [pc EXCEPT ![r] = "select"] /\ result' = result
        \/ /\ pc' = [pc EXCEPT ![r] = "done"] /\ result' = [result EXCEPT ![r] = "error"]
           /\ attempt' = attempt
    BY <1>1 DEF FailOver, Goto
  <1>4. Apart(r)
    BY <1>2, <1>3 DEF DispatchInv, DispatchType, Apart, Exchanged
  <1>5. DispatchType'
    BY <1>2, <1>3 DEF DispatchInv, DispatchType, Exchanged
  <1>6. SendsFit(r)'
    BY <1>1, <1>3 DEF Exchanged, DispatchInv, DispatchType, SendsFit, Failing, Limit
  <1>7. Unsettled(r)' /\ Answered(r)'
    BY <1>3 DEF DispatchInv, DispatchType, Unsettled, Answered
  <1>8. held'[r] = IF pc'[r] = "inspect" THEN 1 ELSE 0
    BY <1>2, <1>3 DEF DispatchInv, DispatchType
  <1> QED
    BY <1>4, <1>5, <1>6, <1>7, <1>8, ApartInv

(* counter.Add(1): the next number, or 0. *)
LEMMA CursorMoves ==
  ASSUME counter \in 0 .. CursorSize - 1
  PROVE  /\ CursorSize \in Nat \ {0} /\ counter \in Nat /\ NextCursor \in 0 .. CursorSize - 1
         /\ NextCursor = counter + 1 \/ (counter + 1 = CursorSize /\ NextCursor = 0 /\ NextCursor < counter)
  <1>1. CursorSize \in Nat \ {0} /\ counter \in Nat /\ CursorSize > 1
    BY LimitsAssumption
  <1>2. CASE counter + 1 < CursorSize
    <2>1. counter + 1 \in 0 .. CursorSize - 1
      BY <1>1, <1>2
    <2>2. (counter + 1) % CursorSize = counter + 1
      BY <1>1, <2>1, Small
    <2> QED
      BY <1>1, <2>1, <2>2 DEF NextCursor
  <1>3. CASE counter + 1 = CursorSize
    <2>1. 0 \in 0 .. CursorSize - 1 /\ 0 + CursorSize = counter + 1
      BY <1>1, <1>3
    <2>2. (counter + 1) % CursorSize = 0
      BY <1>1, <2>1, Small
    <2> QED
      BY <1>1, <1>3, <2>1, <2>2 DEF NextCursor
  <1> QED
    BY <1>1, <1>2, <1>3

(* Every step of a call keeps the invariant. *)
LEMMA StepInv == ASSUME DispatchInv, NEW r \in Requests, Step(r) PROVE DispatchInv' /\ Apart(r)
  <1>1. Limit \in Nat
    BY LimitsAssumption DEF Limit
  <1>2. CASE Begin(r)
    <2>1. /\ pc[r] = "start" /\ pc' = [pc EXCEPT ![r] = IF Failing(r) THEN "select" ELSE "exchange"]
          /\ UNCHANGED <<counter, config, carries, bodyOf, attempt, address, tried, resp, held, sent, mutation, result>>
      BY <1>2 DEF Begin, Goto, Failing
    <2>2. DispatchType' /\ Apart(r)
      BY <2>1 DEF DispatchInv, DispatchType, Apart
    <2>3. held'[r] = IF pc'[r] = "inspect" THEN 1 ELSE 0
      BY <2>1 DEF DispatchInv, DispatchType, NoResponseLeaks
    <2>4. SendsFit(r)' /\ Unsettled(r)' /\ Answered(r)'
      BY <1>1, <2>1 DEF DispatchInv, DispatchType, SendsFit, Unsettled, Failing, Limit, Answered
    <2>5. disturbed' = IF InFlight = {} THEN disturbed ELSE disturbed \cup InFlight \cup {r}
      BY <1>2 DEF Begin
    <2> QED
      BY <2>2, <2>3, <2>4, <2>5, ApartInv
  <1>3. CASE SelectNextProxy(r)
    <2>1. /\ pc[r] = "select" /\ pc' = [pc EXCEPT ![r] = "exchange"] /\ counter' \in {counter, NextCursor}
          /\ DOMAIN address' = DOMAIN address /\ (\A s \in Requests \ {r} : address'[s] = address[s])
          /\ disturbed' \in {disturbed, disturbed \cup {r}}
          /\ UNCHANGED <<config, carries, bodyOf, attempt, tried, resp, held, sent, mutation, result>>
      BY <1>3 DEF SelectNextProxy, Goto, DispatchInv, DispatchType
    <2>2. DispatchType' /\ Apart(r)
      <3>1. counter' \in 0 .. CursorSize - 1
        BY <2>1, CursorMoves DEF DispatchInv, DispatchType
      <3> QED
        BY <2>1, <3>1 DEF DispatchInv, DispatchType, Apart
    <2>3. held'[r] = IF pc'[r] = "inspect" THEN 1 ELSE 0
      BY <2>1 DEF DispatchInv, DispatchType, NoResponseLeaks
    <2>4. SendsFit(r)' /\ Unsettled(r)' /\ Answered(r)'
      BY <1>1, <2>1 DEF DispatchInv, DispatchType, SendsFit, Unsettled, Failing, Limit, Answered
    <2> QED
      BY <2>1, <2>2, <2>3, <2>4, ApartInv
  <1>4. CASE PrepareFails(r)
    BY <1>4, FailedAttempt DEF PrepareFails
  <1>5. CASE ExchangeFails(r) /\ Failing(r)
    BY <1>5, FailedAttempt DEF ExchangeFails
  <1>6. CASE ExchangeFails(r) /\ ~Failing(r)
    <2>1. /\ pc[r] = "exchange" /\ pc' = [pc EXCEPT ![r] = "done"] /\ result' = [result EXCEPT ![r] = "error"]
          /\ sent' = [sent EXCEPT ![r] = @ + 1] /\ tried' = [tried EXCEPT ![r] = @ \cup {address[r]}]
          /\ UNCHANGED <<counter, config, carries, bodyOf, attempt, address, resp, held, mutation, disturbed>>
      BY <1>6 DEF ExchangeFails, Exchanged, Goto
    <2>2. DispatchType' /\ Apart(r)
      BY <2>1 DEF DispatchInv, DispatchType, Apart
    <2>3. held'[r] = IF pc'[r] = "inspect" THEN 1 ELSE 0
      BY <2>1 DEF DispatchInv, DispatchType, NoResponseLeaks
    <2>4. SendsFit(r)' /\ Unsettled(r)' /\ Answered(r)'
      BY <1>1, <2>1 DEF DispatchInv, DispatchType, SendsFit, Unsettled, Failing, Limit, Answered
    <2> QED
      BY <2>1, <2>2, <2>3, <2>4, ApartInv
  <1>7. ASSUME NEW st \in Statuses, ExchangeAnswers(r, st), Failing(r), st = "502" PROVE DispatchInv' /\ Apart(r)
    BY <1>7, FailedAttempt DEF ExchangeAnswers
  <1>8. ASSUME NEW st \in Statuses, ExchangeAnswers(r, st), ~(Failing(r) /\ st = "502")
        PROVE  DispatchInv' /\ Apart(r)
    <2>1. /\ pc[r] = "exchange" /\ pc' = [pc EXCEPT ![r] = "inspect"] /\ resp' = [resp EXCEPT ![r] = st]
          /\ held' = [held EXCEPT ![r] = @ + 1] /\ sent' = [sent EXCEPT ![r] = @ + 1]
          /\ tried' = [tried EXCEPT ![r] = @ \cup {address[r]}]
          /\ UNCHANGED <<counter, config, carries, bodyOf, attempt, address, result, mutation, disturbed>>
      BY <1>8 DEF ExchangeAnswers, Exchanged, Goto
    <2>2. DispatchType' /\ Apart(r)
      BY <2>1 DEF DispatchInv, DispatchType, Apart
    <2>3. held'[r] = IF pc'[r] = "inspect" THEN 1 ELSE 0
      BY <2>1 DEF DispatchInv, DispatchType, NoResponseLeaks
    <2>4. SendsFit(r)' /\ Unsettled(r)' /\ Answered(r)'
      BY <1>1, <2>1 DEF DispatchInv, DispatchType, SendsFit, Unsettled, Failing, Limit, Answered
    <2> QED
      BY <2>1, <2>2, <2>3, <2>4, ApartInv
  <1>9. CASE Return(r)
    <2>1. /\ pc[r] = "inspect" /\ pc' = [pc EXCEPT ![r] = "done"] /\ result' = [result EXCEPT ![r] = resp[r]]
          /\ held' = [held EXCEPT ![r] = @ - 1]
          /\ UNCHANGED <<counter, config, carries, bodyOf, attempt, address, tried, resp, sent, mutation, disturbed>>
      BY <1>9 DEF Return, Goto
    <2>2. DispatchType' /\ Apart(r)
      BY <2>1 DEF DispatchInv, DispatchType, Apart
    <2>3. held'[r] = IF pc'[r] = "inspect" THEN 1 ELSE 0
      BY <2>1 DEF DispatchInv, DispatchType, NoResponseLeaks
    <2>4. SendsFit(r)' /\ Unsettled(r)' /\ Answered(r)'
      BY <1>1, <2>1 DEF DispatchInv, DispatchType, SendsFit, Unsettled, Failing, Limit, Answered
    <2> QED
      BY <2>1, <2>2, <2>3, <2>4, ApartInv
  <1>10. CASE Recover(r)
    <2>1. /\ pc[r] = "inspect" /\ held' = [held EXCEPT ![r] = @ - 1]
          /\ \/ /\ pc' = [pc EXCEPT ![r] = "replay"] /\ result' = result
                /\ \E m \in {"no Alt-Svc", "Connection: close", "no Early-Data"} : mutation' = [mutation EXCEPT ![r] = m]
             \/ pc' = [pc EXCEPT ![r] = "done"] /\ mutation' = mutation /\ result' = [result EXCEPT ![r] = "clone error"]
          /\ UNCHANGED <<counter, config, carries, bodyOf, attempt, address, tried, resp, sent, disturbed>>
      BY <1>10 DEF Recover, Goto, Released
    <2>2. DispatchType' /\ Apart(r)
      BY <2>1 DEF DispatchInv, DispatchType, Apart
    <2>3. held'[r] = IF pc'[r] = "inspect" THEN 1 ELSE 0
      <3>1. pc'[r] # "inspect"
        BY <2>1 DEF DispatchInv, DispatchType
      <3>2. held[r] = 1
        BY <2>1 DEF DispatchInv, NoResponseLeaks
      <3>3. DOMAIN held = Requests /\ held' = [held EXCEPT ![r] = @ - 1]
        BY <2>1 DEF DispatchInv, DispatchType
      <3>4. held'[r] = 0
        BY <3>2, <3>3
      <3> QED
        BY <3>1, <3>4
    <2>4. SendsFit(r)' /\ Unsettled(r)' /\ Answered(r)'
      BY <1>1, <2>1 DEF DispatchInv, DispatchType, SendsFit, Unsettled, Failing, Limit, Answered
    <2> QED
      BY <2>1, <2>2, <2>3, <2>4, ApartInv
  <1>11. ASSUME NEW st, Replay(r, st) PROVE DispatchInv' /\ Apart(r)
    <2>1. /\ pc[r] = "replay" /\ pc' = [pc EXCEPT ![r] = "done"] /\ result' = [result EXCEPT ![r] = st]
          /\ sent' = [sent EXCEPT ![r] = @ + 1] /\ resp' = [resp EXCEPT ![r] = st]
          /\ tried' = [tried EXCEPT ![r] = @ \cup {address[r]}]
          /\ UNCHANGED <<counter, config, carries, bodyOf, attempt, address, held, mutation, disturbed>>
      BY <1>11 DEF Replay, Exchanged, Goto
    <2>2. DispatchType' /\ Apart(r)
      BY <2>1 DEF DispatchInv, DispatchType, Apart
    <2>3. held'[r] = IF pc'[r] = "inspect" THEN 1 ELSE 0
      BY <2>1 DEF DispatchInv, DispatchType, NoResponseLeaks
    <2>4. SendsFit(r)' /\ Unsettled(r)' /\ Answered(r)'
      <3>1. pc'[r] = "done" /\ sent'[r] = sent[r] + 1 /\ sent[r] \in Nat /\ attempt[r] \in Nat
        BY <2>1 DEF DispatchInv, DispatchType
      <3>2. mutation[r] # "none" /\ sent[r] <= attempt[r] + 1
        BY <2>1, <3>1 DEF DispatchInv, SendsFit
      <3>3. attempt[r] <= (IF Failing(r) THEN Limit ELSE 0) /\ (Failing(r)' <=> Failing(r))
        BY <2>1 DEF DispatchInv, SendsFit, Failing
      <3> QED
        BY <1>1, <2>1, <3>1, <3>2, <3>3 DEF SendsFit, Unsettled, Limit, Answered
    <2> QED
      BY <2>1, <2>2, <2>3, <2>4, ApartInv
  <1> QED
    BY <1>2, <1>3, <1>4, <1>5, <1>6, <1>7, <1>8, <1>9, <1>10, <1>11 DEF Step

(* Counting back from the cursor. *)
LEMMA CountingBack ==
  ASSUME Proxies # <<>>, counter \in 0 .. CursorSize - 1
  PROVE  /\ Len(Proxies) \in Nat \ {0} /\ Position \in Positions
         /\ \A i \in Positions : Ago(i) \in Positions /\ (Ago(i) = 0 <=> i = Position)
         /\ counter' = NextCursor /\ ~TurnsAway(NextCursor) =>
              Position' \in Positions /\ \A i \in Positions : Ago(i)' = IF i = Position' THEN 0 ELSE Ago(i) + 1
  <1> DEFINE n == Len(Proxies)
  <1>1. n \in Nat \ {0} /\ counter \in Nat
    BY ProxiesAssumption
  <1>2. /\ counter % n \in 0 .. n - 1
        /\ (counter + 1) % n = IF counter % n = n - 1 THEN 0 ELSE (counter % n) + 1
    BY <1>1, CursorTurns
  <1>3. Position \in Positions
    BY <1>2 DEF Position, Positions
  <1>4. \A i \in Positions : Ago(i) \in Positions /\ (Ago(i) = 0 <=> i = Position)
    BY <1>1, <1>3 DEF Ago, Positions
  <1>5. ASSUME counter' = NextCursor, ~TurnsAway(NextCursor)
        PROVE  Position' \in Positions /\ \A i \in Positions : Ago(i)' = IF i = Position' THEN 0 ELSE Ago(i) + 1
    <2>1. NextCursor % n = (counter + 1) % n
      <3>1. CASE NextCursor = counter + 1
        BY <3>1
      <3>2. CASE counter + 1 = CursorSize /\ NextCursor = 0 /\ NextCursor < counter
        <4>1. CursorSize % n = 0
          BY <1>5, <3>2 DEF TurnsAway
        <4>2. 0 % n = 0
          <5>1. 0 \in 0 .. n - 1
            BY <1>1
          <5> QED
            BY <1>1, <5>1, Small
        <4> QED
          BY <3>2, <4>1, <4>2
      <3> QED
        BY <3>1, <3>2, CursorMoves
    <2>2. Position' = IF Position = n - 1 THEN 0 ELSE Position + 1
      BY <1>2, <1>5, <2>1 DEF Position
    <2> QED
      BY <1>1, <1>3, <2>2 DEF Ago, Positions
  <1> QED
    BY <1>1, <1>3, <1>4, <1>5

(* An exchange of a call that nothing disturbs fails: it has tried one more  *)
(* candidate, and when it was the last attempt all of them.                  *)
LEMMA WindowGrows ==
  ASSUME DispatchInv, NEW r \in Requests, NEW answered \in BOOLEAN, pc[r] = "exchange", Sole(r), Window(r),
         Exchanged(r), FailOver(r, answered), UNCHANGED <<counter, config, carries, bodyOf, address, mutation, disturbed>>
  PROVE  Window(r)' /\ (result'[r] = "error" => RangeOf(Proxies) \subseteq tried'[r])
  <1>1. /\ Len(Proxies) \in Nat \ {0} /\ Position \in Positions
        /\ \A i \in Positions : Ago(i) \in Positions /\ (Ago(i) = 0 <=> i = Position)
    BY CountingBack DEF DispatchInv, DispatchType, Sole, Failing
  <1>2. tried'[r] = tried[r] \cup {Proxies[Position + 1]}
    BY DEF Window, Exchanged, DispatchInv, DispatchType
  <1>3. \A i \in Positions : Ago(i) <= attempt[r] => Proxies[i + 1] \in tried'[r]
    BY <1>1, <1>2 DEF Window, Positions, Tried
  <1>4. attempt[r] \in Nat /\ (AttemptsLeft(r) <=> attempt[r] < Limit)
    BY DEF DispatchInv, DispatchType, AttemptsLeft, Limit
  <1>5. Position' = Position /\ \A i \in Positions : Ago(i)' = Ago(i)
    BY DEF Position, Ago
  <1>6. CASE AttemptsLeft(r)
    <2>1. pc'[r] = "select" /\ attempt'[r] = attempt[r] + 1 /\ result' = result
      BY <1>6 DEF FailOver, Goto, DispatchInv, DispatchType
    <2>2. result[r] = "none"
      BY DEF DispatchInv, Unsettled
    <2>3. ASSUME NEW i \in Positions, Ago(i) < attempt[r] + 1 PROVE Proxies[i + 1] \in tried'[r]
      <3>1. Ago(i) \in Nat
        BY <1>1 DEF Positions
      <3>2. Ago(i) <= attempt[r]
        BY <1>4, <2>3, <3>1
      <3> QED
        BY <1>3, <3>2
    <2> QED
      BY <1>5, <2>1, <2>2, <2>3 DEF Window, Tried, Positions
  <1>7. CASE ~AttemptsLeft(r)
    <2>1. pc'[r] = "done"
      BY <1>7 DEF FailOver, Goto, DispatchInv, DispatchType
    <2>2. Limit \in Nat /\ Len(Proxies) - 1 <= Limit
      BY <1>1, LimitsAssumption DEF Sole, Limit
    <2>3. ASSUME NEW i \in Positions PROVE Proxies[i + 1] \in tried'[r]
      <3>1. Ago(i) \in Nat /\ Ago(i) <= Len(Proxies) - 1
        BY <1>1 DEF Positions
      <3>2. Ago(i) <= attempt[r]
        BY <1>1, <1>4, <1>7, <2>2, <3>1
      <3> QED
        BY <1>3, <3>2
    <2>4. ASSUME NEW j \in DOMAIN Proxies PROVE Proxies[j] \in tried'[r]
      <3>1. j \in 1 .. Len(Proxies)
        BY ProxiesAssumption
      <3>2. j - 1 \in Positions /\ (j - 1) + 1 = j
        BY <1>1, <3>1 DEF Positions
      <3> QED
        BY <2>3, <3>2
    <2> QED
      BY <2>1, <2>4 DEF Window, RangeOf
  <1> QED
    BY <1>6, <1>7

(* What FailoverTriesAll says of r. *)
Served(r) ==
  /\ r \in carries \ disturbed /\ config[r] = "failover" /\ bodyOf[r] # "broken" /\ Len(Proxies) <= Limit + 1
  /\ result[r] = "error" /\ mutation[r] = "none"
  => RangeOf(Proxies) \subseteq tried[r]

(* The calls that r leaves alone. *)
LEMMA OthersServed ==
  ASSUME DispatchInv, ServesInv, NEW r \in Requests, Step(r), NEW s \in Requests \ {r}, Apart(r)
  PROVE  (Sole(s)' => Window(s)') /\ Served(s)'
  <1>1. disturbed \subseteq disturbed' /\ (s \in InFlight => s \in disturbed')
    <2>1. CASE Begin(r)
      BY <2>1 DEF Begin
    <2>2. CASE ~Begin(r)
      <3>1. disturbed' \in {disturbed, disturbed \cup {r}} /\ pc[r] \notin {"start", "done"}
        BY <2>2 DEF Step, SelectNextProxy, PrepareFails, ExchangeFails, ExchangeAnswers, Return, Recover, Replay
      <3> QED
        BY <3>1 DEF DispatchInv, Overlaps, InFlight
    <2> QED
      BY <2>1, <2>2
  <1>2. Sole(s)' => Window(s)'
    BY <1>1 DEF Sole, Window, InFlight, Apart
  <1>3. Served(s)
    BY DEF ServesInv, FailoverTriesAll, Served
  <1> QED
    BY <1>1, <1>2, <1>3 DEF Served, Apart

(* The call that moves. *)
LEMMA OwnServed ==
  ASSUME DispatchInv, ServesInv, NEW r \in Requests, Step(r), DispatchInv', Apart(r)
  PROVE  (Sole(r)' => Window(r)') /\ Served(r)'
  <1>1. DispatchType /\ attempt[r] \in Nat /\ counter \in 0 .. CursorSize - 1 /\ (pc[r] # "done" => result[r] = "none")
    BY DEF DispatchInv, DispatchType, Unsettled
  <1>2. Sole(r) => Window(r)
    BY DEF ServesInv
  <1>3. ASSUME pc'[r] \notin {"select", "exchange"} PROVE Window(r)'
    BY <1>3 DEF Window
  <1>4. ASSUME pc'[r] # "done" PROVE Served(r)'
    BY <1>4 DEF DispatchInv, Unsettled, Served
  <1>5. ASSUME config[r] = "failover", ~Failing(r) PROVE RangeOf(Proxies) = {}
    <2>1. Proxies = <<>>
      BY <1>5 DEF Failing
    <2> QED
      BY <2>1 DEF RangeOf
  <1>6. CASE Begin(r)
    <2>1. /\ pc'[r] = (IF Failing(r) THEN "select" ELSE "exchange") /\ attempt'[r] = 0
          /\ counter' = counter /\ config' = config
      BY <1>1, <1>6 DEF Begin, Goto, Failing, DispatchInv, DispatchType, SendsFit
    <2>2. ASSUME Sole(r)' PROVE Window(r)'
      <3>1. Failing(r) /\ Proxies # <<>>
        BY <2>1, <2>2 DEF Sole, Failing
      <3>2. \A i \in Positions : Ago(i) \in Positions
        BY <1>1, <3>1, CountingBack
      <3>3. \A i \in Positions : Ago(i)' = Ago(i)
        BY <2>1 DEF Ago, Position
      <3>4. \A i \in Positions : ~ Ago(i)' < 0
        BY <3>2, <3>3 DEF Positions
      <3> QED
        BY <2>1, <3>1, <3>4 DEF Window, Positions
    <2> QED
      BY <1>4, <2>1, <2>2
  <1>7. CASE SelectNextProxy(r)
    <2>1. /\ pc[r] = "select" /\ pc'[r] = "exchange" /\ attempt' = attempt
          /\ counter' = (IF attempt[r] > 0 THEN NextCursor ELSE counter)
          /\ r \in carries => address'[r] = Proxies[(counter' % Len(Proxies)) + 1]
          /\ disturbed' = (IF TurnsAway(counter') THEN disturbed \cup {r} ELSE disturbed)
          /\ UNCHANGED <<config, carries, bodyOf, tried>>
      BY <1>1, <1>7 DEF SelectNextProxy, Goto, DispatchType
    <2>2. ASSUME Sole(r)' PROVE Window(r)'
      <3>1. Sole(r) /\ Window(r) /\ Proxies # <<>>
        BY <1>2, <2>1, <2>2 DEF Sole, Failing
      <3>2. address'[r] = Proxies[Position' + 1]
        BY <2>1, <3>1 DEF Position, Sole
      <3>3. ASSUME NEW i \in Positions, 0 < Ago(i)', Ago(i)' <= attempt[r] PROVE Tried(r, i)
        <4>1. CASE attempt[r] > 0
          <5>1. counter' = NextCursor /\ ~TurnsAway(NextCursor)
            BY <2>1, <2>2, <4>1 DEF Sole
          <5>2. Ago(i) \in Nat /\ Ago(i)' = IF i = Position' THEN 0 ELSE Ago(i) + 1
            BY <1>1, <3>1, <5>1, CountingBack DEF Positions
          <5>3. Ago(i) < attempt[r]
            BY <1>1, <3>3, <5>2
          <5> QED
            BY <2>1, <3>1, <5>3 DEF Window
        <4>2. CASE ~ attempt[r] > 0
          <5>1. counter' = counter
            BY <2>1, <4>2
          <5>2. Ago(i)' = Ago(i)
            BY <5>1 DEF Ago, Position
          <5>3. Ago(i) \in Nat
            BY <1>1, <3>1, CountingBack DEF Positions
          <5> QED
            BY <1>1, <3>3, <4>2, <5>2, <5>3
        <4> QED
          BY <4>1, <4>2
      <3> QED
        BY <2>1, <3>2, <3>3 DEF Window, Positions, Tried
    <2> QED
      BY <1>4, <2>1, <2>2
  <1>8. ASSUME NEW answered \in BOOLEAN, pc[r] = "exchange", Failing(r), Exchanged(r),
               FailOver(r, answered), UNCHANGED <<counter, config, carries, bodyOf, address, mutation, disturbed>>
        PROVE  (Sole(r)' => Window(r)') /\ Served(r)'
    <2>1. Sole(r)' <=> Sole(r)
      BY <1>8 DEF Sole, Failing
    <2>2. Sole(r) => Window(r)' /\ (result'[r] = "error" => RangeOf(Proxies) \subseteq tried'[r])
      BY <1>2, <1>8, WindowGrows
    <2> QED
      BY <1>8, <2>1, <2>2 DEF Served, Sole
  <1>9. CASE PrepareFails(r)
    <2>1. bodyOf'[r] = "broken"
      BY <1>9 DEF PrepareFails
    <2> QED
      BY <2>1 DEF Served, Sole
  <1>10. CASE ExchangeFails(r) /\ Failing(r)
    BY <1>8, <1>10 DEF ExchangeFails
  <1>11. CASE ExchangeFails(r) /\ ~Failing(r)
    <2>1. pc'[r] = "done" /\ config' = config
      BY <1>1, <1>11 DEF ExchangeFails, Goto, DispatchType
    <2> QED
      BY <1>3, <1>5, <1>11, <2>1 DEF Served
  <1>12. ASSUME NEW st \in Statuses, ExchangeAnswers(r, st), Failing(r), st = "502"
         PROVE  (Sole(r)' => Window(r)') /\ Served(r)'
    BY <1>8, <1>12 DEF ExchangeAnswers
  <1>13. ASSUME NEW st \in Statuses, ExchangeAnswers(r, st), ~(Failing(r) /\ st = "502") PROVE pc'[r] = "inspect"
    BY <1>1, <1>13 DEF ExchangeAnswers, Goto, DispatchType
  <1>14. CASE Return(r)
    <2>1. pc'[r] = "done" /\ result'[r] = resp[r]
      BY <1>1, <1>14 DEF Return, Goto, DispatchType
    <2>2. resp[r] \in Statuses
      BY <1>14 DEF Return, DispatchInv, Answered
    <2> QED
      BY <1>3, <2>1, <2>2 DEF Served, Statuses
  <1>15. CASE Recover(r)
    <2>1. pc'[r] \in {"replay", "done"} /\ (pc'[r] = "done" => result'[r] = "clone error")
      BY <1>1, <1>15 DEF Recover, Goto, DispatchType
    <2> QED
      BY <1>3, <2>1, <1>4 DEF Served
  <1>16. ASSUME NEW st, Replay(r, st) PROVE (Sole(r)' => Window(r)') /\ Served(r)'
    <2>1. pc'[r] = "done" /\ mutation'[r] # "none"
      BY <1>1, <1>16 DEF Replay, Goto, DispatchType, DispatchInv, SendsFit
    <2> QED
      BY <1>3, <2>1 DEF Served
  <1> QED
    BY <1>3, <1>4, <1>6, <1>7, <1>9, <1>10, <1>11, <1>12, <1>13, <1>14, <1>15, <1>16 DEF Step

(* A step of a call, or none. *)
LEMMA DispatchNextInv == ASSUME DispatchInv, [Next]_vars PROVE DispatchInv'
  <1>1. CASE UNCHANGED vars
    BY <1>1 DEF vars, DispatchInv, DispatchType, NoResponseLeaks, Overlaps, InFlight, SendsFit, Failing, Unsettled, Answered
  <1> QED
    BY <1>1, StepInv DEF Next, Terminated

LEMMA ServesNextInv == ASSUME DispatchInv, ServesInv, [Next]_vars PROVE ServesInv'
  <1>1. CASE UNCHANGED vars
    BY <1>1 DEF vars, ServesInv, FailoverTriesAll, Sole, Failing, Window, Ago, Position, Tried
  <1>2. ASSUME NEW r \in Requests, Step(r) PROVE ServesInv'
    <2>1. DispatchInv' /\ Apart(r)
      BY <1>2, StepInv
    <2>2. \A s \in Requests : (Sole(s)' => Window(s)') /\ Served(s)'
      BY <1>2, <2>1, OwnServed, OthersServed DEF Served
    <2> QED
      BY <2>1, <2>2 DEF ServesInv, FailoverTriesAll, Served, Apart
  <1> QED
    BY <1>1, <1>2 DEF Next, Terminated

LEMMA DispatchPromises == DispatchInv => SendsAreBounded /\ NoResponseLeaks
  <1> SUFFICES ASSUME DispatchInv, NEW r \in Requests
               PROVE  sent[r] <= (IF config[r] = "failover" THEN Limit + 1 ELSE 1)
                                 + (IF mutation[r] # "none" THEN 1 ELSE 0)
    BY DEF SendsAreBounded, Limit, DispatchInv
  <1>1. /\ sent[r] \in Nat /\ attempt[r] \in Nat /\ Limit \in Nat
        /\ attempt[r] <= (IF Failing(r) THEN Limit ELSE 0)
        /\ sent[r] <= attempt[r] + 1 + (IF pc[r] = "done" /\ mutation[r] # "none" THEN 1 ELSE 0)
    BY LimitsAssumption, ProxiesAssumption DEF DispatchInv, DispatchType, SendsFit, Limit
  <1> QED
    BY <1>1 DEF Failing

(* However faults and recoverable statuses alternate, DispatchRequest sends  *)
(* a request at most retryLimit+1 times plus one recovery, and drops no      *)
(* response open on the way to the next attempt, to recovery or to an error. *)
THEOREM DispatchIsBounded == Spec => [](SendsAreBounded /\ NoResponseLeaks)
  BY DispatchPromises, DispatchStarts, DispatchNextInv, PTL DEF Spec

(* FailoverTriesAll for any number of calls and any list of proxies: a call  *)
(* of executeWithProxyFailover that nothing disturbs and that fails has made *)
(* an exchange under the address of each, wherever the shared cursor stood   *)
(* and also when it wrapped.                                                 *)
THEOREM FailoverTriesEveryProxy == Spec => []FailoverTriesAll
  <1>1. DispatchInv /\ ServesInv /\ [Next]_vars => DispatchInv' /\ ServesInv'
    BY DispatchNextInv, ServesNextInv
  <1>2. ServesInv => FailoverTriesAll
    BY DEF ServesInv
  <1> QED
    BY <1>1, <1>2, DispatchStarts, PTL DEF Spec

-----------------------------------------------------------------------------
(* The stages of the pipeline around the dispatch. *)

PipeType ==
  /\ req \in [Calls -> Kinds]
  /\ ppc \in [Calls -> {"prepare", "lookup", "dispatch", "guard", "capture", "store", "limit", "done"}]
  /\ ans \in [Calls -> [ver : Nat, head : Answers]]
  /\ length \in [Calls -> Int] /\ DOMAIN declared = Calls
  /\ DOMAIN wire = Calls /\ DOMAIN content = Calls /\ DOMAIN decoded = Calls
  /\ DOMAIN limited = Calls /\ DOMAIN advertised = Calls /\ DOMAIN decodedBy = Calls
  /\ DOMAIN outcome = Calls /\ DOMAIN served = Calls /\ floor \in [Calls -> Nat]
  /\ version \in [Resources -> Nat] /\ purged \in [Resources -> Nat]

(* The body is untouched, a whole copy of it, or one of the two exceptions.  *)
Whole(c) ==
  \/ wire[c] = "open" /\ content[c] = "stream"
  \/ wire[c] = "closed" /\ content[c] = "copy"
  \/ ans[c].head.readFails
  \/ content[c] = "cut" /\ BodySize(c) > MaxDictionary

Bodied(c) ==
  /\ ppc[c] \in {"prepare", "lookup", "dispatch"} => wire[c] = None
  /\ ppc[c] \in {"guard", "capture"} => wire[c] = "open" /\ content[c] = "stream"
  /\ ppc[c] \in {"store", "limit"} => Whole(c)
  /\ ppc[c] # "done" => outcome[c] = None
  /\ ppc[c] = "done" /\ wire[c] # None =>
       \/ outcome[c] = "error" /\ wire[c] = "closed"
       \/ outcome[c] = "response" /\ Whole(c)

(* What is known of the length of a body: what the answer declares, nothing  *)
(* once it has been decoded, and otherwise its length.                       *)
Measured(c) ==
  /\ ppc[c] = "guard" =>
       /\ declared[c] = ans[c].head.lengths
       /\ length[c] = Unknown \/ (~ans[c].head.chunked /\ length[c] \in ans[c].head.lengths)
  /\ ppc[c] \in {"capture", "store", "limit"} =>
       IF decoded[c] THEN length[c] = Unknown /\ declared[c] = {}
       ELSE length[c] \in {Unknown, ans[c].head.coded} /\ declared[c] \subseteq {ans[c].head.coded}
  /\ ppc[c] = "done" /\ SizeLimit > 0 /\ outcome[c] = "response" /\ wire[c] # None
       => Decompressed(c) <= SizeLimit \/ limited[c]

(* A coded answer comes to requests that advertise. *)
Advertises(c) ==
  /\ ppc[c] = "guard" /\ ans[c].head.coding = "dcz" => advertised[c] # 0
  /\ ppc[c] \in {"prepare", "lookup", "dispatch", "guard"} => decodedBy[c] = 0
  /\ decodedBy[c] # 0 /\ req[c].config => decodedBy[c] = advertised[c]

(* Every answer a request may get is guarded, or framed as it declares.      *)
Framed ==
  \A q \in Kinds, a \in Answers : "validate" \in q.flags \/ a.lengths \subseteq {a.coded}

CallInv(c) == Bodied(c) /\ (Framed => Measured(c)) /\ Advertises(c)

PipeInv == PipeType /\ \A c \in Calls : CallInv(c)

LEMMA OwnResource == ASSUME PipeType PROVE \A c \in Calls : Resource(req[c]) \in Resources
  BY DEF PipeType, Resources

LEMMA PipeStarts == PipeInit => PipeInv
  <1> SUFFICES ASSUME PipeInit PROVE PipeInv
    OBVIOUS
  <1>1. (CHOOSE a \in Answers : TRUE) \in Answers
    BY AnswersAssumption
  <1>2. PipeType
    BY <1>1 DEF PipeInit, PipeType, Unknown
  <1>3. ASSUME NEW c \in Calls PROVE CallInv(c)
    BY <1>3 DEF PipeInit, CallInv, Bodied, Measured, Advertises
  <1> QED
    BY <1>2, <1>3 DEF PipeInv

(* A step of one call leaves the others. *)
OtherCalls(c) ==
  \A d \in Calls \ {c} :
    /\ req'[d] = req[d] /\ ppc'[d] = ppc[d] /\ ans'[d] = ans[d] /\ length'[d] = length[d]
    /\ declared'[d] = declared[d] /\ wire'[d] = wire[d] /\ content'[d] = content[d]
    /\ decoded'[d] = decoded[d] /\ limited'[d] = limited[d] /\ outcome'[d] = outcome[d]
    /\ advertised'[d] = advertised[d] /\ decodedBy'[d] = decodedBy[d]

LEMMA OtherCallsInv ==
  ASSUME NEW c \in Calls, OtherCalls(c), \A d \in Calls : CallInv(d)
  PROVE  \A d \in Calls \ {c} : CallInv(d)'
  <1> SUFFICES ASSUME NEW d \in Calls \ {c} PROVE CallInv(d)'
    OBVIOUS
  <1>1. /\ req'[d] = req[d] /\ ppc'[d] = ppc[d] /\ ans'[d] = ans[d] /\ length'[d] = length[d]
        /\ declared'[d] = declared[d] /\ wire'[d] = wire[d] /\ content'[d] = content[d]
        /\ decoded'[d] = decoded[d] /\ limited'[d] = limited[d] /\ outcome'[d] = outcome[d]
        /\ advertised'[d] = advertised[d] /\ decodedBy'[d] = decodedBy[d]
    BY DEF OtherCalls
  <1>2. CallInv(d)
    OBVIOUS
  <1>3. Bodied(d)'
    BY <1>1, <1>2 DEF CallInv, Bodied, Whole, BodySize, Decompressed
  <1>4. Framed => Measured(d)'
    BY <1>1, <1>2 DEF CallInv, Measured, BodySize, Decompressed
  <1>5. Advertises(d)'
    BY <1>1, <1>2 DEF CallInv, Advertises
  <1> QED
    BY <1>3, <1>4, <1>5 DEF CallInv, Framed

(* Each step of a call keeps the types and what is said of the call, and     *)
(* touches no other call.                                                    *)
CallKeeps(c) == PipeType' /\ OtherCalls(c) /\ CallInv(c)'

LEMMA PipeStepOwn ==
  ASSUME PipeInv, NEW c \in Calls, PipeStep(c)
  PROVE  CallKeeps(c)
  <1>0. PipeType /\ Bodied(c) /\ (Framed => Measured(c)) /\ Advertises(c)
    BY DEF PipeInv, CallInv
  <1>1. ASSUME Prepare(c) PROVE CallKeeps(c)
    <2>1. PipeType'
      BY <1>0, <1>1, OwnResource DEF Prepare, Set, PipeType
    <2>2. OtherCalls(c)
      BY <1>0, <1>1 DEF Prepare, Set, PipeType, OtherCalls
    <2>3. Bodied(c)'
      BY <1>0, <1>1 DEF Prepare, Set, PipeType, Bodied, Whole, BodySize, Decompressed, None
    <2>4. Framed => Measured(c)'
      BY <1>0, <1>1 DEF Prepare, Set, PipeType, Measured, Bodied, BodySize, Decompressed, None
    <2>5. Advertises(c)'
      BY <1>0, <1>1 DEF Prepare, Set, PipeType, Advertises
    <2> QED
      BY <2>1, <2>2, <2>3, <2>4, <2>5 DEF CallKeeps, CallInv, Framed
  <1>2. ASSUME GetCache(c) PROVE CallKeeps(c)
    <2>1. PipeType'
      BY <1>0, <1>2 DEF GetCache, Set, PipeType
    <2>2. OtherCalls(c)
      BY <1>0, <1>2 DEF GetCache, Set, PipeType, OtherCalls
    <2>3. Bodied(c)'
      BY <1>0, <1>2 DEF GetCache, Set, PipeType, Bodied, Whole, BodySize, Decompressed, None
    <2>4. Framed => Measured(c)'
      BY <1>0, <1>2 DEF GetCache, Set, PipeType, Measured, Bodied, BodySize, Decompressed, None
    <2>5. Advertises(c)'
      BY <1>0, <1>2 DEF GetCache, Set, PipeType, Advertises
    <2> QED
      BY <2>1, <2>2, <2>3, <2>4, <2>5 DEF CallKeeps, CallInv, Framed
  <1>3. ASSUME DispatchFails(c) PROVE CallKeeps(c)
    <2>1. PipeType'
      BY <1>0, <1>3 DEF DispatchFails, Set, PipeType
    <2>2. OtherCalls(c)
      BY <1>0, <1>3 DEF DispatchFails, Set, PipeType, OtherCalls
    <2>3. Bodied(c)'
      BY <1>0, <1>3 DEF DispatchFails, Set, PipeType, Bodied, Whole, BodySize, Decompressed, None
    <2>4. Framed => Measured(c)'
      BY <1>0, <1>3 DEF DispatchFails, Set, PipeType, Measured, Bodied, BodySize, Decompressed, None
    <2>5. Advertises(c)'
      BY <1>0, <1>3 DEF DispatchFails, Set, PipeType, Advertises
    <2> QED
      BY <2>1, <2>2, <2>3, <2>4, <2>5 DEF CallKeeps, CallInv, Framed
  <1>4. ASSUME NEW a \in Answers, DispatchAnswers(c, a) PROVE CallKeeps(c)
    <2>1. PipeType'
      <3>1. Resource(req[c]) \in Resources
        BY <1>0, OwnResource
      <3> DEFINE u == Resource(req[c])
      <3> DEFINE v == IF req[c].method \in Unsafe /\ a.status < 400 THEN version[u] + 1 ELSE version[u]
      <3> DEFINE n == IF a.chunked \/ a.lengths = {} THEN Unknown ELSE CHOOSE n \in a.lengths : TRUE
      <3>2. version' = [version EXCEPT ![u] = v] /\ ans' = Set(ans, c, [ver |-> v, head |-> a])
            /\ length' = Set(length, c, n)
        BY <1>4 DEF DispatchAnswers
      <3>3. u \in Resources /\ v \in Nat
        BY <1>0, <3>1 DEF PipeType
      <3>4. n \in Int
        BY <1>4, AnswersAssumption DEF Unknown
      <3> HIDE DEF u, v, n
      <3> QED
        <4>1. ans' \in [Calls -> [ver : Nat, head : Answers]]
          BY <1>0, <1>4, <3>2, <3>3 DEF Set, PipeType
        <4>2. version' \in [Resources -> Nat] /\ length' \in [Calls -> Int]
          BY <1>0, <3>2, <3>3, <3>4 DEF Set, PipeType
        <4>3. /\ ppc' = Set(ppc, c, "guard") /\ DOMAIN declared' = Calls /\ DOMAIN wire' = Calls
              /\ DOMAIN content' = Calls
              /\ UNCHANGED <<req, decoded, limited, advertised, decodedBy, outcome, served, floor, purged>>
          BY <1>0, <1>4 DEF DispatchAnswers, Set, PipeType
        <4> QED
          BY <1>0, <4>1, <4>2, <4>3 DEF Set, PipeType
    <2>2. OtherCalls(c)
      BY <1>0, <1>4 DEF DispatchAnswers, Sends, Set, PipeType, OtherCalls
    <2>3. Bodied(c)'
      BY <1>0, <1>4 DEF DispatchAnswers, Sends, Set, PipeType, Bodied, Whole, BodySize, Decompressed, None
    <2>4. Framed => Measured(c)'
      BY <1>0, <1>4 DEF DispatchAnswers, Sends, Set, PipeType, Measured, Bodied, BodySize, Decompressed, None
    <2>5. Advertises(c)'
      BY <1>0, <1>4 DEF DispatchAnswers, Sends, Set, PipeType, Advertises
    <2> QED
      BY <2>1, <2>2, <2>3, <2>4, <2>5 DEF CallKeeps, CallInv, Framed
  <1>5. ASSUME GuardAndDecode(c) PROVE CallKeeps(c)
    <2>1. PipeType'
      BY <1>0, <1>5 DEF GuardAndDecode, Reject, Closed, Set, ResetLength, Unknown, PipeType
    <2>2. OtherCalls(c)
      BY <1>0, <1>5 DEF GuardAndDecode, Reject, Closed, Set, PipeType, OtherCalls
    <2>3. Bodied(c)'
      BY <1>0, <1>5 DEF GuardAndDecode, Reject, Closed, Set, PipeType, Bodied, Whole, BodySize, Decompressed, None
    <2>4. Framed => Measured(c)'
      <3> SUFFICES ASSUME Framed, ppc'[c] # "done" PROVE Measured(c)'
        BY <1>0, <1>5 DEF GuardAndDecode, Reject, Set, PipeType, Measured
      <3>1. /\ ppc[c] = "guard" /\ ppc'[c] = "capture" /\ ans' = ans
            /\ ~(Guarded(c) /\ Smuggled(ans[c].head))
            /\ decoded'[c] = Decodes(c)
            /\ length'[c] = IF Decodes(c) THEN Unknown ELSE length[c]
            /\ declared'[c] = IF Decodes(c) THEN {} ELSE StrippedLengths(c)
        BY <1>0, <1>5 DEF GuardAndDecode, Reject, Set, PipeType, ResetLength
      <3>2. ans[c].head \in Answers /\ req[c] \in Kinds /\ Measured(c)
        BY <1>0 DEF PipeType
      <3> DEFINE a == ans[c].head
      <3>3. ~a.chunked => a.lengths \subseteq {a.coded}
        BY <3>1, <3>2, AnswersAssumption DEF Guarded, Smuggled, Framed
      <3>4. length[c] \in {Unknown, a.coded}
        BY <3>1, <3>2, <3>3 DEF Measured
      <3>5. StrippedLengths(c) \subseteq {a.coded}
        <4>1. CASE ~a.chunked
          BY <3>1, <3>2, <3>3, <4>1 DEF Measured, StrippedLengths
        <4>2. CASE a.chunked
          BY <3>1, <3>2, <4>2 DEF Measured, StrippedLengths, Guarded, Framed
        <4> QED
          BY <4>1, <4>2
      <3> QED
        BY <3>1, <3>4, <3>5 DEF Measured
    <2>5. Advertises(c)'
      BY <1>0, <1>5
      DEF GuardAndDecode, Reject, Closed, Set, PipeType, Advertises, Decodes, DecodingDictionary
    <2> QED
      BY <2>1, <2>2, <2>3, <2>4, <2>5 DEF CallKeeps, CallInv, Framed
  <1>6. ASSUME DictionaryCapture(c) PROVE CallKeeps(c)
    <2>1. PipeType'
      BY <1>0, <1>6 DEF DictionaryCapture, Closed, Set, PipeType
    <2>2. OtherCalls(c)
      BY <1>0, <1>6 DEF DictionaryCapture, Closed, Set, PipeType, OtherCalls
    <2>3. Bodied(c)'
      BY <1>0, <1>6 DEF DictionaryCapture, Closed, Set, PipeType, Bodied, Whole, BodySize, Decompressed, None
    <2>4. Framed => Measured(c)'
      BY <1>0, <1>6 DEF DictionaryCapture, Closed, Set, PipeType, Measured, Bodied, BodySize, Decompressed, None
    <2>5. Advertises(c)'
      BY <1>0, <1>6 DEF DictionaryCapture, Closed, Set, PipeType, Advertises
    <2> QED
      BY <2>1, <2>2, <2>3, <2>4, <2>5 DEF CallKeeps, CallInv, Framed
  <1>7. ASSUME CacheStorage(c) PROVE CallKeeps(c)
    <2>1. PipeType'
      BY <1>0, <1>7 DEF CacheStorage, SaveToCache, Closed, Set, PipeType
    <2>2. OtherCalls(c)
      BY <1>0, <1>7 DEF CacheStorage, SaveToCache, Closed, Set, PipeType, OtherCalls
    <2>3. Bodied(c)'
      BY <1>0, <1>7 DEF CacheStorage, SaveToCache, Closed, Set, PipeType, Bodied, Whole, BodySize, Decompressed, None
    <2>4. Framed => Measured(c)'
      BY <1>0, <1>7
      DEF CacheStorage, SaveToCache, Closed, Set, PipeType, Measured, Bodied, BodySize, Decompressed, None
    <2>5. Advertises(c)'
      BY <1>0, <1>7 DEF CacheStorage, SaveToCache, Closed, Set, PipeType, Advertises
    <2> QED
      BY <2>1, <2>2, <2>3, <2>4, <2>5 DEF CallKeeps, CallInv, Framed
  <1>8. ASSUME NEW p \in BOOLEAN, NEW b \in BOOLEAN, Finish(c, p, b) PROVE CallKeeps(c)
    <2>1. PipeType'
      BY <1>0, <1>8 DEF Finish, Reject, Closed, Set, PipeType
    <2>2. OtherCalls(c)
      BY <1>0, <1>8 DEF Finish, Reject, Closed, Set, PipeType, OtherCalls
    <2>3. Bodied(c)'
      BY <1>0, <1>8 DEF Finish, Reject, Closed, Set, PipeType, Bodied, Whole, BodySize, Decompressed, None
    <2>4. Framed => Measured(c)'
      <3> SUFFICES ASSUME Framed, SizeLimit > 0, outcome'[c] = "response"
                   PROVE  Decompressed(c)' <= SizeLimit \/ limited'[c]
        BY <1>0, <1>8 DEF Finish, Reject, Set, PipeType, Measured
      <3>1. /\ ppc[c] = "limit" /\ ~TooLarge(c) /\ UNCHANGED <<ans, decoded>>
            /\ limited'[c] <=> SizeLimit > 0 /\ KnownLength(c) <= 0
        BY <1>0, <1>8 DEF Finish, Reject, Set, PipeType
      <3>2. ans[c].head \in Answers /\ Measured(c)
        BY <1>0 DEF PipeType
      <3> DEFINE a == ans[c].head
      <3>3. CASE decoded[c]
        <4>1. KnownLength(c) = Unknown
          BY <3>1, <3>2, <3>3 DEF Measured, KnownLength, Unknown
        <4>2. KnownLength(c) <= 0
          BY <4>1 DEF Unknown
        <4> QED
          BY <3>1, <4>2
      <3>4. CASE ~decoded[c]
        <4>1. KnownLength(c) \in {Unknown, a.coded}
          BY <3>1, <3>2, <3>4 DEF Measured, KnownLength
        <4>2. a.coded \in Nat /\ Decompressed(c)' = a.coded
          BY <3>1, <3>2, <3>4, AnswersAssumption DEF Decompressed
        <4>3. KnownLength(c) <= 0 \/ a.coded <= SizeLimit
          BY <3>1, <4>1, <4>2, SizesAssumption DEF Unknown, TooLarge
        <4> QED
          BY <3>1, <4>2, <4>3
      <3> QED
        BY <3>3, <3>4
    <2>5. Advertises(c)'
      BY <1>0, <1>8 DEF Finish, Reject, Closed, Set, PipeType, Advertises
    <2> QED
      BY <2>1, <2>2, <2>3, <2>4, <2>5 DEF CallKeeps, CallInv, Framed
  <1> QED
    BY <1>1, <1>2, <1>3, <1>4, <1>5, <1>6, <1>7, <1>8 DEF PipeStep

LEMMA PipeNextInv == ASSUME PipeInv, [PipeNext]_pipeVars PROVE PipeInv'
  <1>1. ASSUME NEW c \in Calls, PipeStep(c) PROVE PipeInv'
    <2>1. CallKeeps(c)
      BY <1>1, PipeStepOwn
    <2> QED
      BY <2>1, OtherCallsInv DEF CallKeeps, PipeInv
  <1>2. ASSUME UNCHANGED <<req, ppc, ans, length, declared, wire, content, decoded, limited, advertised,
                           decodedBy, outcome, served, floor, version, purged>>
        PROVE  PipeInv'
    <2>1. PipeType'
      BY <1>2 DEF PipeInv, PipeType
    <2>2. ASSUME NEW c \in Calls PROVE CallInv(c)'
      BY <1>2 DEF PipeInv, CallInv, Bodied, Whole, BodySize, Decompressed, Measured, Advertises, Framed
    <2> QED
      BY <2>1, <2>2 DEF PipeInv
  <1>3. ASSUME NEW k \in DOMAIN store, Expire(k) PROVE PipeInv'
    BY <1>2, <1>3 DEF Expire
  <1>4. CASE UNCHANGED pipeVars
    BY <1>2, <1>4 DEF pipeVars
  <1> QED
    BY <1>1, <1>3, <1>4 DEF PipeNext

(* What PipeInv says of bodies. *)
LEMMA PipePromises ==
  PipeInv => BodiesSettled /\ DecodedAsAdvertised /\ (Framed => SizeIsLimited)
  <1> SUFFICES ASSUME PipeInv PROVE BodiesSettled /\ DecodedAsAdvertised /\ (Framed => SizeIsLimited)
    OBVIOUS
  <1>1. BodiesSettled
    BY DEF PipeInv, CallInv, Bodied, Whole, BodiesSettled
  <1>2. DecodedAsAdvertised
    BY DEF PipeInv, CallInv, Advertises, DecodedAsAdvertised
  <1>3. ASSUME Framed PROVE SizeIsLimited
    <2> SUFFICES ASSUME NEW c \in Calls, SizeLimit > 0, outcome[c] = "response", wire[c] # None
                 PROVE  Decompressed(c) <= SizeLimit \/ limited[c]
      BY DEF SizeIsLimited
    <2>1. ppc[c] = "done"
      BY DEF PipeInv, CallInv, Bodied, None
    <2> QED
      BY <1>3, <2>1 DEF PipeInv, CallInv, Measured
  <1> QED
    BY <1>1, <1>2, <1>3

-----------------------------------------------------------------------------
(* The response cache. *)

(* An entry is under the key of the request it was stored for. *)
IsEntry(k, e) ==
  /\ e.req \in Kinds /\ e.head \in Answers /\ e.ver \in Nat
  /\ k = StorageKey(e.req, e.head)
  /\ e.vary = IF e.head.vary = "lang" THEN e.req.lang ELSE None

(* An entry no GET in flight put back is as new as what every unsafe call    *)
(* that has purged made.                                                     *)
Current(e) ==
  /\ e.ver >= purged[Resource(e.req)]
  /\ \A d \in Calls :
       ppc[d] = "limit" /\ Purges(d) /\ Resource(req[d]) = Resource(e.req) => e.ver >= ans[d].ver

Entries ==
  \A k \in DOMAIN store :
    /\ IsEntry(k, store[k])
    /\ k = <<Resource(store[k].req), {}>> => store[k].late \/ Current(store[k])

Versions ==
  /\ \A c \in Calls : ans[c].ver <= version[Resource(req[c])]
  /\ \A u \in Resources : purged[u] <= version[u]
  /\ \A c \in Calls : floor[c] <= purged[Resource(req[c])]

Unserved == \A c \in Calls : ppc[c] # "done" => served[c] = {}

CacheInv == Entries /\ Versions /\ Unserved /\ HitsShareAnswers /\ NoHitBeforeUnsafe

LEMMA CacheStarts == PipeInit => CacheInv
  <1> SUFFICES ASSUME PipeInit PROVE CacheInv
    OBVIOUS
  <1>1. PipeType
    BY PipeStarts DEF PipeInv
  <1>2. Versions
    BY <1>1, OwnResource DEF PipeInit, Versions
  <1>3. Entries /\ Unserved /\ HitsShareAnswers /\ NoHitBeforeUnsafe
    BY DEF PipeInit, Entries, Unserved, HitsShareAnswers, NoHitBeforeUnsafe
  <1> QED
    BY <1>2, <1>3 DEF CacheInv

(* Two requests with one key agree in what neither rule ignores, and in the  *)
(* cookies the client names.                                                 *)
LEMMA KeptAlike ==
  ASSUME NEW x, NEW y, NEW r, NEW s, NormalizeCacheURL(x, r) = NormalizeCacheURL(y, s)
  PROVE  NormalizeCacheURL(NormalizeCacheURL(y, r), s) = NormalizeCacheURL(NormalizeCacheURL(x, r), s)
  <1> DEFINE X(p) == ~ShouldIgnoreQueryParam(p[1], r)
  <1> DEFINE Y(p) == ~ShouldIgnoreQueryParam(p[1], s)
  <1>1. \A p : (p \in x /\ X(p)) <=> (p \in y /\ Y(p))
    BY Zenon DEF NormalizeCacheURL
  <1> HIDE DEF X, Y
  <1>2. {p \in {q \in y : X(q)} : Y(p)} = {p \in {q \in x : X(q)} : Y(p)}
    BY <1>1
  <1> QED
    BY <1>2, Zenon DEF NormalizeCacheURL, X, Y

LEMMA CookiesAlike ==
  ASSUME NEW x, NEW y, NEW S, NEW T, ComputeCookieIndicesHash(x, S) = ComputeCookieIndicesHash(y, T \cup S)
  PROVE  ComputeCookieIndicesHash(y, S) = ComputeCookieIndicesHash(x, S)
  BY DEF ComputeCookieIndicesHash

(* GetCache serves what the request may share. *)
LEMMA HitShares ==
  ASSUME NEW q \in Kinds, NEW e, IsEntry(LookupKey(q), e), MatchVaryHeaders(q, e)
  PROVE  /\ e.head.vary = "lang" => e.req.lang = q.lang
         /\ ComputeCookieIndicesHash(e.req, CookieIndices) = ComputeCookieIndicesHash(q, CookieIndices)
         /\ NormalizeCacheURL(NormalizeCacheURL(e.req.query, CacheRules), EffectiveNoVarySearch(e.head))
              = NormalizeCacheURL(NormalizeCacheURL(q.query, CacheRules), EffectiveNoVarySearch(e.head))
  <1>1. e.req \in Kinds /\ LookupKey(q) = StorageKey(e.req, e.head)
    BY DEF IsEntry
  <1>2. /\ NormalizeCacheURL(q.query, CacheRules) = NormalizeCacheURL(e.req.query, EffectiveNoVarySearch(e.head))
        /\ ComputeCookieIndicesHash(q, CookieIndices) = ComputeCookieIndicesHash(e.req, EffectiveCookieIndices(e.head))
    BY <1>1 DEF LookupKey, StorageKey
  <1>3. e.head.vary = "lang" => e.req.lang = q.lang
    BY <1>1, KindsAssumption DEF IsEntry, MatchVaryHeaders
  <1>4. ComputeCookieIndicesHash(e.req, CookieIndices) = ComputeCookieIndicesHash(q, CookieIndices)
    BY <1>2, CookiesAlike DEF EffectiveCookieIndices
  <1>5. NormalizeCacheURL(NormalizeCacheURL(e.req.query, CacheRules), EffectiveNoVarySearch(e.head))
          = NormalizeCacheURL(NormalizeCacheURL(q.query, CacheRules), EffectiveNoVarySearch(e.head))
    BY <1>2, KeptAlike
  <1> QED
    BY <1>3, <1>4, <1>5

(* A step that touches neither the store nor the versions. *)
LEMMA QuietCache ==
  ASSUME CacheInv, UNCHANGED <<req, ans, store, version, purged, floor, served>>,
         \A d \in Calls : (ppc'[d] = "limit" => ppc[d] = "limit") /\ (ppc[d] = "done" => ppc'[d] = "done")
  PROVE  CacheInv'
  <1>1. Entries'
    BY DEF CacheInv, Entries, IsEntry, Current, Purges
  <1>2. Versions' /\ Unserved'
    BY DEF CacheInv, Versions, Unserved
  <1>3. HitsShareAnswers' /\ NoHitBeforeUnsafe'
    BY DEF CacheInv, HitsShareAnswers, NoHitBeforeUnsafe
  <1> QED
    BY <1>1, <1>2, <1>3 DEF CacheInv

LEMMA CachePrepares ==
  ASSUME PipeType, CacheInv, NEW c \in Calls, Prepare(c)
  PROVE  CacheInv'
  <1>1. /\ ppc[c] = "prepare" /\ UNCHANGED <<req, ans, store, version, purged, served>>
        /\ floor' = [floor EXCEPT ![c] = purged[Resource(req[c])]]
        /\ ppc'[c] \in {"lookup", "dispatch"} /\ \A d \in Calls \ {c} : ppc'[d] = ppc[d]
    BY DEF Prepare, Set, PipeType
  <1>2. Entries'
    BY <1>1 DEF CacheInv, Entries, IsEntry, Current, Purges
  <1>3. Versions' /\ Unserved'
    BY <1>1, OwnResource DEF CacheInv, Versions, Unserved, PipeType
  <1>4. HitsShareAnswers'
    BY <1>1 DEF CacheInv, HitsShareAnswers
  <1>5. NoHitBeforeUnsafe'
    BY <1>1 DEF CacheInv, NoHitBeforeUnsafe, Unserved, PipeType
  <1> QED
    BY <1>2, <1>3, <1>4, <1>5 DEF CacheInv

LEMMA CacheServes ==
  ASSUME PipeType, CacheInv, NEW c \in Calls, GetCache(c), Hits(req[c])
  PROVE  CacheInv'
  <1> DEFINE q == req[c]
  <1> DEFINE e == store[LookupKey(q)]
  <1>1. /\ ppc[c] = "lookup" /\ UNCHANGED <<req, ans, store, version, purged, floor>>
        /\ served'[c] = {e} /\ ppc'[c] = "done"
        /\ \A d \in Calls \ {c} : ppc'[d] = ppc[d] /\ served'[d] = served[d]
    BY DEF GetCache, Set, PipeType
  <1>2. q \in Kinds /\ IsEntry(LookupKey(q), e) /\ MatchVaryHeaders(q, e)
    BY DEF PipeType, Hits, Live, CacheInv, Entries
  <1>3. LookupKey(q) = <<Resource(e.req), {}>> => e.late \/ Current(e)
    BY DEF Hits, Live, CacheInv, Entries
  <1>4. Entries' /\ Versions' /\ Unserved'
    <2>1. Entries'
      BY <1>1 DEF CacheInv, Entries, IsEntry, Current, Purges
    <2> QED
      BY <1>1, <2>1 DEF CacheInv, Versions, Unserved
  <1>5. HitsShareAnswers'
    <2> SUFFICES ASSUME NEW d \in Calls, NEW f \in served'[d]
                 PROVE  /\ f.head.vary = "lang" => f.req.lang = req[d].lang
                        /\ ComputeCookieIndicesHash(f.req, CookieIndices) = ComputeCookieIndicesHash(req[d], CookieIndices)
                        /\ NormalizeCacheURL(NormalizeCacheURL(f.req.query, CacheRules), EffectiveNoVarySearch(f.head))
                             = NormalizeCacheURL(NormalizeCacheURL(req[d].query, CacheRules), EffectiveNoVarySearch(f.head))
      BY <1>1 DEF HitsShareAnswers
    <2>1. CASE d = c
      BY <1>1, <1>2, <2>1, HitShares
    <2>2. CASE d # c
      BY <1>1, <2>2 DEF CacheInv, HitsShareAnswers
    <2> QED
      BY <2>1, <2>2
  <1>6. NoHitBeforeUnsafe'
    <2> SUFFICES ASSUME NEW d \in Calls, NEW f \in served'[d], Resource(f.req) = Resource(req[d]),
                        ComputeCookieIndicesHash(req[d], CookieIndices) = {}
                 PROVE  f.ver >= floor[d] \/ f.late
      BY <1>1 DEF NoHitBeforeUnsafe
    <2>1. CASE d # c
      BY <1>1, <2>1 DEF CacheInv, NoHitBeforeUnsafe
    <2>2. CASE d = c
      <3>1. f = e /\ LookupKey(q) = <<Resource(e.req), {}>>
        BY <1>1, <2>2 DEF LookupKey, Resource
      <3>2. CASE e.late
        BY <3>1, <3>2
      <3>3. CASE Current(e)
        <4>1. e.ver >= purged[Resource(req[c])] /\ floor[c] <= purged[Resource(req[c])]
          BY <2>2, <3>1, <3>3 DEF Current, CacheInv, Versions
        <4>2. e.ver \in Nat /\ purged[Resource(req[c])] \in Nat /\ floor[c] \in Nat
          BY <1>2, OwnResource DEF IsEntry, PipeType
        <4> QED
          BY <2>2, <3>1, <4>1, <4>2
      <3> QED
        BY <1>3, <3>1, <3>2, <3>3
    <2> QED
      BY <2>1, <2>2
  <1> QED
    BY <1>4, <1>5, <1>6 DEF CacheInv

LEMMA CacheAnswered ==
  ASSUME PipeType, CacheInv, NEW c \in Calls, NEW a \in Answers, DispatchAnswers(c, a)
  PROVE  CacheInv'
  <1> DEFINE u == Resource(req[c])
  <1> DEFINE v == IF req[c].method \in Unsafe /\ a.status < 400 THEN version[u] + 1 ELSE version[u]
  <1>1. /\ ppc[c] = "dispatch" /\ UNCHANGED <<req, store, purged, floor, served>>
        /\ version' = [version EXCEPT ![u] = v]
        /\ ans' = [ans EXCEPT ![c] = [ver |-> v, head |-> a]]
        /\ ppc'[c] = "guard" /\ \A d \in Calls \ {c} : ppc'[d] = ppc[d]
    BY DEF DispatchAnswers, Set, PipeType
  <1>2. u \in Resources /\ version[u] \in Nat /\ v \in Nat /\ v >= version[u]
    BY OwnResource DEF PipeType
  <1> HIDE DEF u, v
  <1>3. /\ ans'[c].ver = v /\ version'[u] = v
        /\ \A d \in Calls \ {c} : ans'[d] = ans[d]
        /\ \A w \in Resources \ {u} : version'[w] = version[w]
    BY <1>1, <1>2 DEF PipeType
  <1>4. Entries'
    BY <1>1, <1>3 DEF CacheInv, Entries, IsEntry, Current, Purges
  <1>5. Versions'
    <2>1. \A w \in Resources : version[w] \in Nat /\ version'[w] \in Nat /\ version[w] <= version'[w]
      BY <1>2, <1>3 DEF PipeType
    <2>2. ASSUME NEW d \in Calls PROVE ans'[d].ver <= version'[Resource(req[d])]
      <3>1. CASE d = c
        BY <1>2, <1>3, <3>1 DEF u
      <3>2. CASE d # c
        <4>1. Resource(req[d]) \in Resources /\ ans[d].ver \in Nat /\ ans[d].ver <= version[Resource(req[d])]
          BY OwnResource DEF PipeType, CacheInv, Versions
        <4> QED
          BY <1>3, <2>1, <3>2, <4>1
      <3> QED
        BY <3>1, <3>2
    <2>3. ASSUME NEW w \in Resources PROVE purged'[w] <= version'[w]
      BY <1>1, <2>1 DEF CacheInv, Versions, PipeType
    <2> QED
      BY <1>1, <2>2, <2>3 DEF CacheInv, Versions
  <1>6. Unserved' /\ HitsShareAnswers' /\ NoHitBeforeUnsafe'
    BY <1>1 DEF CacheInv, Unserved, HitsShareAnswers, NoHitBeforeUnsafe
  <1> QED
    BY <1>4, <1>5, <1>6 DEF CacheInv

(* stageCacheStorage: what is stored and not late is as new as the origin,   *)
(* and a purge leaves nothing under its key.                                 *)
LEMMA CacheStored ==
  ASSUME PipeType, CacheInv, NEW c \in Calls, CacheStorage(c)
  PROVE  CacheInv'
  <1>1. /\ ppc[c] = "store" /\ UNCHANGED <<req, ans, version, purged, floor, served>>
        /\ ppc'[c] = "limit" /\ \A d \in Calls \ {c} : ppc'[d] = ppc[d]
    BY DEF CacheStorage, Set, PipeType
  <1>2. \/ store' = With(store, StorageKey(req[c], ans[c].head), Entry(c)) /\ req[c].method = "GET"
        \/ store' = store /\ ~Purges(c)
        \/ store' = Without(store, PurgeKey(req[c])) /\ Purges(c)
    BY Zenon DEF CacheStorage, SaveToCache, Purge, Purges, Unsafe
  <1>0. ASSUME \A k \in DOMAIN store' : \A e :
                 e = store'[k] => IsEntry(k, e) /\ (k = <<Resource(e.req), {}>> => e.late \/ Current(e)')
        PROVE  Entries'
    BY <1>0 DEF Entries, IsEntry, Current
  <1>3. Versions' /\ Unserved' /\ HitsShareAnswers' /\ NoHitBeforeUnsafe'
    BY <1>1 DEF CacheInv, Versions, Unserved, HitsShareAnswers, NoHitBeforeUnsafe
  <1>4. ASSUME NEW e, Current(e), Purges(c) => Resource(req[c]) # Resource(e.req)
        PROVE  Current(e)'
    BY <1>1, <1>4 DEF Current, Purges
  <1>5. ASSUME store' = With(store, StorageKey(req[c], ans[c].head), Entry(c)), req[c].method = "GET"
        PROVE  Entries'
    <2> DEFINE key == StorageKey(req[c], ans[c].head)
    <2> DEFINE entry == Entry(c)
    <2>1. /\ entry.ver = ans[c].ver /\ entry.req = req[c] /\ entry.head = ans[c].head
          /\ entry.vary = (IF ans[c].head.vary = "lang" THEN req[c].lang ELSE None)
          /\ entry.late <=> ans[c].ver < version[Resource(req[c])]
      BY DEF Entry
    <2>2. IsEntry(key, entry)
      BY <2>1 DEF IsEntry, PipeType
    <2>3. ~Purges(c)
      BY <1>5 DEF Purges, Unsafe
    <2>4. entry.late \/ Current(entry)
      <3> SUFFICES ASSUME ~entry.late PROVE Current(entry)
        OBVIOUS
      <3>1. /\ Resource(req[c]) \in Resources /\ entry.ver \in Nat
            /\ version[Resource(req[c])] \in Nat /\ purged[Resource(req[c])] \in Nat
        BY <2>1, OwnResource DEF PipeType
      <3>2. entry.ver >= version[Resource(req[c])]
        BY <2>1, <3>1
      <3>3. purged[Resource(req[c])] <= version[Resource(req[c])]
        BY <3>1 DEF CacheInv, Versions
      <3>4. ASSUME NEW d \in Calls, Resource(req[d]) = Resource(req[c]) PROVE entry.ver >= ans[d].ver
        BY <3>1, <3>2, <3>4 DEF CacheInv, Versions, PipeType
      <3> QED
        BY <2>1, <3>1, <3>2, <3>3, <3>4 DEF Current
    <2> HIDE DEF key, entry
    <2>5. /\ DOMAIN store' = DOMAIN store \cup {key} /\ store'[key] = entry
          /\ \A k \in DOMAIN store \ {key} : store'[k] = store[k]
      BY <1>5 DEF With, key, entry
    <2> SUFFICES ASSUME NEW k \in DOMAIN store', NEW e, e = store'[k]
                 PROVE  IsEntry(k, e) /\ (k = <<Resource(e.req), {}>> => e.late \/ Current(e)')
      BY <1>0
    <2>6. CASE k = key
      BY <1>4, <2>2, <2>3, <2>4, <2>5, <2>6
    <2>7. CASE k # key
      BY <1>4, <2>3, <2>5, <2>7 DEF CacheInv, Entries
    <2> QED
      BY <2>6, <2>7
  <1>6. ASSUME store' = store, ~Purges(c) PROVE Entries'
    <2> SUFFICES ASSUME NEW k \in DOMAIN store', NEW e, e = store'[k]
                 PROVE  IsEntry(k, e) /\ (k = <<Resource(e.req), {}>> => e.late \/ Current(e)')
      BY <1>0
    <2> QED
      BY <1>4, <1>6 DEF CacheInv, Entries
  <1>7. ASSUME store' = Without(store, PurgeKey(req[c])), Purges(c) PROVE Entries'
    <2>1. /\ DOMAIN store' = DOMAIN store \ {PurgeKey(req[c])}
          /\ \A k \in DOMAIN store' : store'[k] = store[k]
      BY <1>7 DEF Without
    <2> SUFFICES ASSUME NEW k \in DOMAIN store', NEW e, e = store'[k]
                 PROVE  IsEntry(k, e) /\ (k = <<Resource(e.req), {}>> => e.late \/ Current(e)')
      BY <1>0
    <2>2. k = <<Resource(e.req), {}>> => Resource(req[c]) # Resource(e.req)
      BY <2>1 DEF PurgeKey, Resource
    <2> QED
      BY <1>4, <2>1, <2>2 DEF CacheInv, Entries
  <1> QED
    BY <1>2, <1>3, <1>5, <1>6, <1>7 DEF CacheInv

(* A call that has purged ends: no entry is older than what it made.         *)
LEMMA CacheFinished ==
  ASSUME PipeType, CacheInv, NEW c \in Calls, NEW p \in BOOLEAN, NEW b \in BOOLEAN, Finish(c, p, b)
  PROVE  CacheInv'
  <1> DEFINE u == Resource(req[c])
  <1>1. /\ ppc[c] = "limit" /\ UNCHANGED <<req, ans, store, version, floor, served>>
        /\ ppc'[c] = "done" /\ \A d \in Calls \ {c} : ppc'[d] = ppc[d]
    BY DEF Finish, Reject, Set, PipeType
  <1>2. \/ purged' = purged
        \/ Purges(c) /\ ans[c].ver > purged[u] /\ purged' = [purged EXCEPT ![u] = ans[c].ver]
    BY Zenon DEF Finish
  <1>3. CASE purged' = purged
    BY <1>1, <1>3, QuietCache
  <1>4. CASE Purges(c) /\ ans[c].ver > purged[u] /\ purged' = [purged EXCEPT ![u] = ans[c].ver]
    <2>1. u \in Resources /\ ans[c].ver \in Nat /\ purged[u] \in Nat /\ version[u] \in Nat /\ ans[c].ver <= version[u]
      BY OwnResource DEF PipeType, CacheInv, Versions
    <2> HIDE DEF u
    <2>2. purged'[u] = ans[c].ver /\ \A w \in Resources \ {u} : purged'[w] = purged[w]
      BY <1>4, <2>1 DEF PipeType
    <2>3. Versions'
      <3>1. \A w \in Resources : purged[w] \in Nat /\ purged'[w] \in Nat /\ purged[w] <= purged'[w]
        BY <1>4, <2>1, <2>2 DEF PipeType
      <3>2. \A d \in Calls : floor[d] <= purged'[Resource(req[d])]
        <4> SUFFICES ASSUME NEW d \in Calls PROVE floor[d] <= purged'[Resource(req[d])]
          OBVIOUS
        <4>1. Resource(req[d]) \in Resources /\ floor[d] \in Nat /\ floor[d] <= purged[Resource(req[d])]
          BY OwnResource DEF PipeType, CacheInv, Versions
        <4> QED
          BY <3>1, <4>1
      <3>3. \A w \in Resources : purged'[w] <= version[w]
        BY <2>1, <2>2 DEF CacheInv, Versions
      <3> QED
        BY <1>1, <3>2, <3>3 DEF CacheInv, Versions
    <2>4. Entries'
      <3> SUFFICES ASSUME NEW k \in DOMAIN store, k = <<Resource(store[k].req), {}>>, ~store[k].late
                   PROVE  Current(store[k])'
        BY <1>1 DEF CacheInv, Entries, IsEntry, Current
      <3> DEFINE e == store[k]
      <3>1. Current(e) /\ e.ver \in Nat /\ e.req \in Kinds
        BY DEF CacheInv, Entries, IsEntry
      <3>2. Resource(e.req) = u => e.ver >= ans[c].ver
        BY <1>1, <1>4, <3>1 DEF Current, u
      <3>3. Resource(e.req) \in Resources
        BY <3>1 DEF Resources
      <3>4. e.ver >= purged'[Resource(e.req)]
        BY <2>2, <3>1, <3>2, <3>3 DEF Current
      <3>5. \A d \in Calls : ppc'[d] = "limit" => ppc[d] = "limit"
        BY <1>1
      <3> QED
        BY <1>1, <3>1, <3>4, <3>5 DEF Current, Purges
    <2>5. Unserved' /\ HitsShareAnswers' /\ NoHitBeforeUnsafe'
      BY <1>1 DEF CacheInv, Unserved, HitsShareAnswers, NoHitBeforeUnsafe
    <2> QED
      BY <2>3, <2>4, <2>5 DEF CacheInv
  <1> QED
    BY <1>2, <1>3, <1>4

LEMMA CacheExpires ==
  ASSUME CacheInv, NEW k \in DOMAIN store, Expire(k)
  PROVE  CacheInv'
  <1>1. /\ DOMAIN store' \subseteq DOMAIN store /\ \A l \in DOMAIN store' : store'[l] = store[l]
        /\ UNCHANGED <<req, ppc, ans, version, purged, floor, served>>
    BY DEF Expire, Without
  <1>2. Entries'
    BY <1>1 DEF CacheInv, Entries, IsEntry, Current, Purges
  <1> QED
    BY <1>1, <1>2 DEF CacheInv, Versions, Unserved, HitsShareAnswers, NoHitBeforeUnsafe

LEMMA CacheNextInv == ASSUME PipeType, CacheInv, [PipeNext]_pipeVars PROVE CacheInv'
  <1>1. ASSUME NEW c \in Calls, GetCache(c), ~Hits(req[c]) PROVE CacheInv'
    BY <1>1, QuietCache DEF GetCache, Set, PipeType
  <1>2. ASSUME NEW c \in Calls, DispatchFails(c) PROVE CacheInv'
    BY <1>2, QuietCache DEF DispatchFails, Set, PipeType
  <1>3. ASSUME NEW c \in Calls, GuardAndDecode(c) PROVE CacheInv'
    BY <1>3, QuietCache DEF GuardAndDecode, Reject, Set, PipeType
  <1>4. ASSUME NEW c \in Calls, DictionaryCapture(c) PROVE CacheInv'
    BY <1>4, QuietCache DEF DictionaryCapture, Set, PipeType
  <1>5. CASE UNCHANGED pipeVars
    BY <1>5, QuietCache DEF pipeVars
  <1> QED
    BY <1>1, <1>2, <1>3, <1>4, <1>5, CachePrepares, CacheServes, CacheAnswered, CacheStored,
       CacheFinished,
       CacheExpires DEF PipeNext, PipeStep

-----------------------------------------------------------------------------
(* The retrying middlewares. *)

Attempting == {"sleep", "breaker", "lock", "publish", "enter", "limit", "send"}
Waiting == {"start", "loop", "allow"} \cup Attempting
Through == {"enter", "limit", "send"}

IsInput(i) ==
  /\ DOMAIN i = {"method", "body", "keyed", "allowed", "override", "allowNonReadOnly",
                 "fallback", "mayAbort"}
  /\ i.override \in Nat

RetryType ==
  /\ DOMAIN input = Callers /\ \A c \in Callers : IsInput(input[c])
  /\ rpc \in [Callers -> Waiting \cup {"fallback", "done"}]
  /\ tries \in [Callers -> Nat] /\ sends \in [Callers -> Nat]
  /\ pos \in [Callers -> {"whole", "part", "used"}]
  /\ DOMAIN last = Callers /\ DOMAIN unread = Callers /\ DOMAIN keyed = Callers
  /\ DOMAIN ended = Callers /\ DOMAIN lost = Callers
  /\ chosen \in [Callers -> Nat] /\ registry \in Nat /\ made \in Nat
  /\ repeated \subseteq Callers /\ cut \subseteq Callers

(* Before each send a try is left for it. *)
TriesLeft(c) ==
  /\ tries[c] >= 1 /\ tries[c] <= MaxTries(c)
  /\ sends[c] <= tries[c]
  /\ rpc[c] \in Waiting => sends[c] < tries[c]

(* From the check of allowRetryForMethod on, what it looked at stays.        *)
Allowed(c) ==
  /\ rpc[c] \in Attempting /\ tries[c] > 1 => AllowRetryForMethod(c)
  /\ c \in repeated =>
       /\ rpc[c] # "start"
       /\ \/ input[c].method \in {"GET"} \cup input[c].allowed
          \/ keyed[c]
          \/ input[c].allowNonReadOnly

(* From the rewinding on, the body is whole or the rest of a stream. *)
BodyReady(c) ==
  /\ rpc[c] \in Waiting /\ tries[c] = 1 => pos[c] = "whole"
  /\ rpc[c] \in {"allow"} \cup Attempting => pos[c] = "whole" \/ input[c].body = "tail"
  /\ c \in cut => input[c].body = "tail"

(* A response is left open on the ways out only. *)
Settled(c) ==
  /\ unread[c] => last[c] \in Responses
  /\ rpc[c] \in Waiting => lost[c] = "none"
  /\ rpc[c] # "done" => lost[c] # "fallback"
  /\ rpc[c] = "done" /\ ended[c] \notin Responses => ~unread[c]
  /\ \/ lost[c] = "none"
     \/ lost[c] = "cancelled" /\ c \in aborted
     \/ lost[c] = "exceeded" /\ last[c] = "retry after exceeded"
     \/ lost[c] = "fallback" /\ ended[c] = "fallback"

(* The breaker of a call is the registry's, which is made under the lock.    *)
Agreed(c) ==
  /\ rpc[c] \in Through => chosen[c] = registry /\ registry # 0
  /\ rpc[c] = "publish" => keyLock = c /\ registry = 0 /\ chosen[c] # 0

OwnInv(c) == TriesLeft(c) /\ Allowed(c) /\ BodyReady(c) /\ Settled(c)

RetryInv == RetryType /\ \A c \in Callers : OwnInv(c) /\ Agreed(c)

LEMMA Tries == ASSUME RetryType, NEW c \in Callers PROVE MaxTries(c) \in Nat /\ MaxTries(c) >= 1
  BY RetryAssumption DEF MaxTries, Attempts0, RetryType, IsInput

LEMMA RetryStarts == RetryInit => RetryInv
  <1> SUFFICES ASSUME RetryInit PROVE RetryInv
    OBVIOUS
  <1>1. RetryType
    <2>1. DOMAIN input = Callers /\ \A c \in Callers : IsInput(input[c])
      BY InputsAssumption DEF RetryInit, IsInput
    <2> QED
      BY <2>1 DEF RetryInit, RetryType, Waiting, Attempting
  <1>2. ASSUME NEW c \in Callers PROVE OwnInv(c) /\ Agreed(c)
    BY <1>1, Tries
    DEF RetryInit, OwnInv, Agreed, TriesLeft, Allowed, BodyReady, Settled, Attempting, Through
  <1> QED
    BY <1>1, <1>2 DEF RetryInv

(* A step of one call leaves what is said of another. *)
OthersKept(c) ==
  \A d \in Callers \ {c} :
    /\ input'[d] = input[d] /\ rpc'[d] = rpc[d] /\ tries'[d] = tries[d] /\ last'[d] = last[d]
    /\ unread'[d] = unread[d] /\ pos'[d] = pos[d] /\ keyed'[d] = keyed[d]
    /\ sends'[d] = sends[d] /\ ended'[d] = ended[d] /\ lost'[d] = lost[d]
    /\ (d \in repeated' <=> d \in repeated) /\ (d \in cut' <=> d \in cut)
    /\ (d \in aborted' <=> d \in aborted)

LEMMA OthersOwnInv ==
  ASSUME NEW c \in Callers, OthersKept(c), \A d \in Callers : OwnInv(d)
  PROVE  \A d \in Callers \ {c} : OwnInv(d)'
  <1> SUFFICES ASSUME NEW d \in Callers \ {c} PROVE OwnInv(d)'
    OBVIOUS
  <1>1. /\ input'[d] = input[d] /\ rpc'[d] = rpc[d] /\ tries'[d] = tries[d] /\ last'[d] = last[d]
        /\ unread'[d] = unread[d] /\ pos'[d] = pos[d] /\ keyed'[d] = keyed[d]
        /\ sends'[d] = sends[d] /\ ended'[d] = ended[d] /\ lost'[d] = lost[d]
        /\ (d \in repeated' <=> d \in repeated) /\ (d \in cut' <=> d \in cut)
        /\ (d \in aborted' <=> d \in aborted)
    BY DEF OthersKept
  <1>2. OwnInv(d)
    OBVIOUS
  <1>3. TriesLeft(d)'
    BY <1>1, <1>2 DEF OwnInv, TriesLeft, MaxTries
  <1>4. Allowed(d)'
    BY <1>1, <1>2 DEF OwnInv, Allowed, AllowRetryForMethod
  <1>5. BodyReady(d)'
    BY <1>1, <1>2 DEF OwnInv, BodyReady
  <1>6. Settled(d)'
    BY <1>1, <1>2 DEF OwnInv, Settled
  <1> QED
    BY <1>3, <1>4, <1>5, <1>6 DEF OwnInv

(* Judge ends the loop or begins the next turn, if one is left. *)
LEMMA Judging ==
  ASSUME RetryType, NEW c \in Callers, NEW got, Judge(c, got)
  PROVE  /\ rpc' \in [Callers -> Waiting \cup {"fallback", "done"}] /\ tries' \in [Callers -> Nat]
         /\ DOMAIN last' = Callers /\ DOMAIN unread' = Callers /\ lost' = lost
         /\ last'[c] = got /\ unread'[c] = (got \in Responses)
         /\ \/ rpc'[c] = "fallback" /\ tries'[c] = tries[c]
            \/ rpc'[c] = "loop" /\ tries'[c] = tries[c] + 1 /\ tries[c] # MaxTries(c)
         /\ \A d \in Callers \ {c} : /\ rpc'[d] = rpc[d] /\ tries'[d] = tries[d]
                                     /\ last'[d] = last[d] /\ unread'[d] = unread[d]
  <1>1. DOMAIN last' = Callers /\ last'[c] = got /\ \A d \in Callers \ {c} : last'[d] = last[d]
    BY DEF Judge, At, RetryType
  <1>2. DOMAIN unread' = Callers /\ unread'[c] = (got \in Responses)
        /\ \A d \in Callers \ {c} : unread'[d] = unread[d]
    BY DEF Judge, At, RetryType
  <1>3. \/ rpc' = At(rpc, c, "fallback") /\ tries' = tries
        \/ rpc' = At(rpc, c, "loop") /\ tries' = At(tries, c, tries[c] + 1) /\ tries[c] # MaxTries(c)
    BY Zenon DEF Judge
  <1>4. lost' = lost
    BY DEF Judge
  <1>5. /\ rpc' \in [Callers -> Waiting \cup {"fallback", "done"}] /\ tries' \in [Callers -> Nat]
        /\ \/ rpc'[c] = "fallback" /\ tries'[c] = tries[c]
           \/ rpc'[c] = "loop" /\ tries'[c] = tries[c] + 1 /\ tries[c] # MaxTries(c)
        /\ \A d \in Callers \ {c} : rpc'[d] = rpc[d] /\ tries'[d] = tries[d]
    BY <1>3 DEF At, RetryType, Waiting, Attempting
  <1> QED
    BY <1>1, <1>2, <1>4, <1>5

(* Each step of a call keeps the types and what is said of the call, and     *)
(* touches no other call.                                                    *)
StepKeeps(c) == RetryType' /\ OthersKept(c) /\ OwnInv(c)'

LEMMA RetryStepOwn ==
  ASSUME RetryInv, NEW c \in Callers, RetryStep(c) \/ Abort(c)
  PROVE  StepKeeps(c)
  <1>0. RetryType /\ TriesLeft(c) /\ Allowed(c) /\ BodyReady(c) /\ Settled(c) /\ Agreed(c)
        /\ MaxTries(c) \in Nat /\ MaxTries(c) >= 1
    BY Tries DEF RetryInv, OwnInv
  <1>1. ASSUME BeginRetry(c) PROVE StepKeeps(c)
    <2>1. RetryType'
      BY <1>0, <1>1 DEF BeginRetry, At, history, breakers, RetryType, Waiting, Attempting
    <2>2. OthersKept(c)
      BY <1>0, <1>1 DEF BeginRetry, At, history, breakers, RetryType, OthersKept
    <2>3. TriesLeft(c)'
      BY <1>0, <1>1
      DEF BeginRetry, At, history, breakers, RetryType, TriesLeft, MaxTries, Waiting, Attempting
    <2>4. Allowed(c)'
      BY <1>0, <1>1
      DEF BeginRetry, At, history, breakers, RetryType, Allowed, AllowRetryForMethod, TriesLeft,
          Waiting, Attempting
    <2>5. BodyReady(c)'
      BY <1>0, <1>1 DEF BeginRetry, At, history, breakers, RetryType, BodyReady, Waiting, Attempting
    <2>6. Settled(c)'
      BY <1>0, <1>1
      DEF BeginRetry, At, history, breakers, RetryType, Settled, Waiting, Attempting, Responses,
          Statuses503
    <2> QED
      BY <2>1, <2>2, <2>3, <2>4, <2>5, <2>6 DEF StepKeeps, OwnInv
  <1>2. ASSUME LoopCancelled(c) PROVE StepKeeps(c)
    <2>1. RetryType'
      BY <1>0, <1>2
      DEF LoopCancelled, LeaveWith, Lost, At, history, breakers, RetryType, Waiting, Attempting
    <2>2. OthersKept(c)
      BY <1>0, <1>2 DEF LoopCancelled, LeaveWith, Lost, At, history, breakers, RetryType, OthersKept
    <2>3. TriesLeft(c)'
      BY <1>0, <1>2
      DEF LoopCancelled, LeaveWith, Lost, At, history, breakers, RetryType, TriesLeft, MaxTries,
          Waiting, Attempting
    <2>4. Allowed(c)'
      BY <1>0, <1>2
      DEF LoopCancelled, LeaveWith, Lost, At, history, breakers, RetryType, Allowed,
          AllowRetryForMethod, TriesLeft, Waiting, Attempting
    <2>5. BodyReady(c)'
      BY <1>0, <1>2
      DEF LoopCancelled, LeaveWith, Lost, At, history, breakers, RetryType, BodyReady, Waiting,
          Attempting
    <2>6. Settled(c)'
      BY <1>0, <1>2
      DEF LoopCancelled, LeaveWith, Lost, At, history, breakers, RetryType, Settled, Waiting,
          Attempting, Responses, Statuses503
    <2> QED
      BY <2>1, <2>2, <2>3, <2>4, <2>5, <2>6 DEF StepKeeps, OwnInv
  <1>3. ASSUME LoopRewind(c) PROVE StepKeeps(c)
    <2>1. /\ rpc[c] = "loop" /\ UNCHANGED <<tries, keyed, sends, repeated, cut, ended, aborted, breakers>>
          /\ \/ tries[c] = 1 /\ rpc' = At(rpc, c, "breaker") /\ UNCHANGED <<input, last, lost, unread, pos>>
             \/ /\ tries[c] # 1 /\ CanRewind(c) /\ pos' = At(pos, c, Rewound(c))
                /\ input' = [input EXCEPT ![c].body = Kept(c)]
                /\ rpc' = At(rpc, c, "allow") /\ UNCHANGED <<last, lost, unread>>
             \/ /\ unread' = At(unread, c, FALSE) /\ last' = At(last, c, "cannot rewind")
                /\ lost' = At(lost, c, "none") /\ rpc' = At(rpc, c, "fallback") /\ UNCHANGED <<input, pos>>
      BY <1>3, Zenon DEF LoopRewind, LeaveWith, history
    <2>2. CASE /\ tries[c] # 1 /\ CanRewind(c) /\ pos' = At(pos, c, Rewound(c))
               /\ input' = [input EXCEPT ![c].body = Kept(c)]
               /\ rpc' = At(rpc, c, "allow") /\ UNCHANGED <<last, lost, unread>>
      <3> DEFINE kept == Kept(c)
      <3>1. /\ DOMAIN input' = Callers /\ \A d \in Callers : IsInput(input'[d])
            /\ \A d \in Callers \ {c} : input'[d] = input[d]
            /\ input'[c].body = kept /\ input'[c].override = input[c].override
            /\ input'[c].method = input[c].method /\ input'[c].allowed = input[c].allowed
            /\ input'[c].allowNonReadOnly = input[c].allowNonReadOnly
        <4>1. input' = [input EXCEPT ![c].body = kept]
          BY <2>2
        <4> HIDE DEF kept
        <4>2. DOMAIN input = Callers /\ IsInput(input[c]) /\ \A d \in Callers : IsInput(input[d])
          BY <1>0 DEF RetryType
        <4>3. DOMAIN input' = Callers /\ (\A d \in Callers \ {c} : input'[d] = input[d])
              /\ input'[c] = [input[c] EXCEPT !.body = kept]
          BY <4>1, <4>2
        <4>4. /\ IsInput(input'[c])
              /\ input'[c].body = kept /\ input'[c].override = input[c].override
              /\ input'[c].method = input[c].method /\ input'[c].allowed = input[c].allowed
              /\ input'[c].allowNonReadOnly = input[c].allowNonReadOnly
          BY <4>2, <4>3 DEF IsInput
        <4> QED
          BY <4>2, <4>3, <4>4
      <3>2. /\ rpc' \in [Callers -> Waiting \cup {"fallback", "done"}] /\ rpc'[c] = "allow"
            /\ \A d \in Callers \ {c} : rpc'[d] = rpc[d]
        BY <1>0, <2>2 DEF At, RetryType, Waiting
      <3>3. /\ pos' \in [Callers -> {"whole", "part", "used"}]
            /\ \A d \in Callers \ {c} : pos'[d] = pos[d]
            /\ pos'[c] = "whole" \/ kept = "tail"
        BY <1>0, <2>2 DEF At, RetryType, Rewound
      <3>4. RetryType' /\ OthersKept(c)
        BY <1>0, <2>1, <2>2, <3>1, <3>2, <3>3 DEF RetryType, OthersKept, breakers
      <3>5. TriesLeft(c)'
        BY <1>0, <2>1, <3>1, <3>2 DEF TriesLeft, MaxTries, Waiting
      <3>6. Allowed(c)'
        BY <1>0, <2>1, <3>1, <3>2 DEF Allowed, Attempting
      <3>7. input[c].body = "tail" => kept = "tail"
        BY DEF Kept
      <3>8. BodyReady(c)'
        <4> HIDE DEF kept
        <4> QED
          BY <1>0, <2>1, <2>2, <3>1, <3>2, <3>3, <3>7 DEF BodyReady
      <3>9. Settled(c)'
        BY <1>0, <2>1, <2>2, <3>2 DEF Settled, Waiting
      <3> QED
        BY <3>4, <3>5, <3>6, <3>8, <3>9 DEF StepKeeps, OwnInv
    <2>3. CASE ~(/\ tries[c] # 1 /\ CanRewind(c) /\ pos' = At(pos, c, Rewound(c))
                 /\ input' = [input EXCEPT ![c].body = Kept(c)]
                 /\ rpc' = At(rpc, c, "allow") /\ UNCHANGED <<last, lost, unread>>)
      <3>1. /\ UNCHANGED <<input, pos>>
            /\ \/ tries[c] = 1 /\ rpc' = At(rpc, c, "breaker") /\ UNCHANGED <<last, lost, unread>>
               \/ /\ unread' = At(unread, c, FALSE) /\ last' = At(last, c, "cannot rewind")
                  /\ lost' = At(lost, c, "none") /\ rpc' = At(rpc, c, "fallback")
        BY <2>1, <2>3, Zenon
      <3>2. RetryType' /\ OthersKept(c)
        BY <1>0, <2>1, <3>1 DEF At, RetryType, OthersKept, Waiting, Attempting, breakers
      <3>3. TriesLeft(c)'
        BY <1>0, <2>1, <3>1 DEF At, RetryType, TriesLeft, MaxTries, Waiting, Attempting
      <3>4. Allowed(c)'
        <4>1. rpc'[c] \in {"breaker", "fallback"} /\ (tries[c] > 1 => rpc'[c] = "fallback")
          <5>1. \/ tries[c] = 1 /\ rpc' = At(rpc, c, "breaker")
                \/ rpc' = At(rpc, c, "fallback")
            BY <3>1, Zenon
          <5> QED
            BY <1>0, <5>1 DEF At, RetryType
        <4> QED
          BY <1>0, <2>1, <3>1, <4>1 DEF Allowed, Attempting
      <3>5. BodyReady(c)'
        BY <1>0, <2>1, <3>1 DEF At, RetryType, BodyReady, Waiting, Attempting
      <3>6. Settled(c)'
        BY <1>0, <2>1, <3>1 DEF At, RetryType, Settled, Waiting, Attempting, Responses, Statuses503
      <3> QED
        BY <3>2, <3>3, <3>4, <3>5, <3>6 DEF StepKeeps, OwnInv
    <2> QED
      BY <2>2, <2>3
  <1>4. ASSUME LoopForbidden(c) PROVE StepKeeps(c)
    <2>1. RetryType'
      BY <1>0, <1>4 DEF LoopForbidden, LeaveWith, At, history, breakers, RetryType, Waiting, Attempting
    <2>2. OthersKept(c)
      BY <1>0, <1>4 DEF LoopForbidden, LeaveWith, At, history, breakers, RetryType, OthersKept
    <2>3. TriesLeft(c)'
      BY <1>0, <1>4
      DEF LoopForbidden, LeaveWith, At, history, breakers, RetryType, TriesLeft, MaxTries, Waiting,
          Attempting
    <2>4. Allowed(c)'
      BY <1>0, <1>4
      DEF LoopForbidden, LeaveWith, At, history, breakers, RetryType, Allowed, AllowRetryForMethod,
          TriesLeft, Waiting, Attempting
    <2>5. BodyReady(c)'
      BY <1>0, <1>4
      DEF LoopForbidden, LeaveWith, At, history, breakers, RetryType, BodyReady, Waiting, Attempting
    <2>6. Settled(c)'
      BY <1>0, <1>4
      DEF LoopForbidden, LeaveWith, At, history, breakers, RetryType, Settled, Waiting, Attempting,
          Responses, Statuses503
    <2> QED
      BY <2>1, <2>2, <2>3, <2>4, <2>5, <2>6 DEF StepKeeps, OwnInv
  <1>5. ASSUME RetryAfterExceeded(c) PROVE StepKeeps(c)
    <2>1. RetryType'
      BY <1>0, <1>5
      DEF RetryAfterExceeded, LeaveWith, Lost, At, history, breakers, RetryType, Waiting, Attempting
    <2>2. OthersKept(c)
      BY <1>0, <1>5 DEF RetryAfterExceeded, LeaveWith, Lost, At, history, breakers, RetryType, OthersKept
    <2>3. TriesLeft(c)'
      BY <1>0, <1>5
      DEF RetryAfterExceeded, LeaveWith, Lost, At, history, breakers, RetryType, TriesLeft, MaxTries,
          Waiting, Attempting
    <2>4. Allowed(c)'
      BY <1>0, <1>5
      DEF RetryAfterExceeded, LeaveWith, Lost, At, history, breakers, RetryType, Allowed,
          AllowRetryForMethod, TriesLeft, Waiting, Attempting
    <2>5. BodyReady(c)'
      BY <1>0, <1>5
      DEF RetryAfterExceeded, LeaveWith, Lost, At, history, breakers, RetryType, BodyReady, Waiting,
          Attempting
    <2>6. Settled(c)'
      BY <1>0, <1>5
      DEF RetryAfterExceeded, LeaveWith, Lost, At, history, breakers, RetryType, Settled, Waiting,
          Attempting, Responses, Statuses503
    <2> QED
      BY <2>1, <2>2, <2>3, <2>4, <2>5, <2>6 DEF StepKeeps, OwnInv
  <1>6. ASSUME BeginSleep(c) PROVE StepKeeps(c)
    <2>1. RetryType'
      BY <1>0, <1>6 DEF BeginSleep, At, history, breakers, RetryType, Waiting, Attempting
    <2>2. OthersKept(c)
      BY <1>0, <1>6 DEF BeginSleep, At, history, breakers, RetryType, OthersKept
    <2>3. TriesLeft(c)'
      BY <1>0, <1>6
      DEF BeginSleep, At, history, breakers, RetryType, TriesLeft, MaxTries, Waiting, Attempting
    <2>4. Allowed(c)'
      BY <1>0, <1>6
      DEF BeginSleep, At, history, breakers, RetryType, Allowed, AllowRetryForMethod, TriesLeft,
          Waiting, Attempting
    <2>5. BodyReady(c)'
      BY <1>0, <1>6 DEF BeginSleep, At, history, breakers, RetryType, BodyReady, Waiting, Attempting
    <2>6. Settled(c)'
      BY <1>0, <1>6
      DEF BeginSleep, At, history, breakers, RetryType, Settled, Waiting, Attempting, Responses,
          Statuses503
    <2> QED
      BY <2>1, <2>2, <2>3, <2>4, <2>5, <2>6 DEF StepKeeps, OwnInv
  <1>7. ASSUME EndSleep(c) PROVE StepKeeps(c)
    <2>1. RetryType'
      BY <1>0, <1>7
      DEF EndSleep, LeaveWith, BeforeNext, At, history, breakers, RetryType, Waiting, Attempting
    <2>2. OthersKept(c)
      BY <1>0, <1>7 DEF EndSleep, LeaveWith, BeforeNext, At, history, breakers, RetryType, OthersKept
    <2>3. TriesLeft(c)'
      BY <1>0, <1>7
      DEF EndSleep, LeaveWith, BeforeNext, At, history, breakers, RetryType, TriesLeft, MaxTries,
          Waiting, Attempting
    <2>4. Allowed(c)'
      BY <1>0, <1>7
      DEF EndSleep, LeaveWith, BeforeNext, At, history, breakers, RetryType, Allowed,
          AllowRetryForMethod, TriesLeft, Waiting, Attempting
    <2>5. BodyReady(c)'
      BY <1>0, <1>7
      DEF EndSleep, LeaveWith, BeforeNext, At, history, breakers, RetryType, BodyReady, Waiting,
          Attempting
    <2>6. Settled(c)'
      BY <1>0, <1>7
      DEF EndSleep, LeaveWith, BeforeNext, At, history, breakers, RetryType, Settled, Waiting,
          Attempting, Responses, Statuses503
    <2> QED
      BY <2>1, <2>2, <2>3, <2>4, <2>5, <2>6 DEF StepKeeps, OwnInv
  <1>8. ASSUME LoadBreaker(c) PROVE StepKeeps(c)
    <2>1. RetryType'
      BY <1>0, <1>8 DEF LoadBreaker, At, history, breakers, RetryType, Waiting, Attempting
    <2>2. OthersKept(c)
      BY <1>0, <1>8 DEF LoadBreaker, At, history, breakers, RetryType, OthersKept
    <2>3. TriesLeft(c)'
      BY <1>0, <1>8
      DEF LoadBreaker, At, history, breakers, RetryType, TriesLeft, MaxTries, Waiting, Attempting
    <2>4. Allowed(c)'
      BY <1>0, <1>8
      DEF LoadBreaker, At, history, breakers, RetryType, Allowed, AllowRetryForMethod, TriesLeft,
          Waiting, Attempting
    <2>5. BodyReady(c)'
      BY <1>0, <1>8 DEF LoadBreaker, At, history, breakers, RetryType, BodyReady, Waiting, Attempting
    <2>6. Settled(c)'
      BY <1>0, <1>8
      DEF LoadBreaker, At, history, breakers, RetryType, Settled, Waiting, Attempting, Responses,
          Statuses503
    <2> QED
      BY <2>1, <2>2, <2>3, <2>4, <2>5, <2>6 DEF StepKeeps, OwnInv
  <1>9. ASSUME LockBreaker(c) PROVE StepKeeps(c)
    <2>1. RetryType'
      BY <1>0, <1>9 DEF LockBreaker, Missing, At, history, breakers, RetryType, Waiting, Attempting
    <2>2. OthersKept(c)
      BY <1>0, <1>9 DEF LockBreaker, Missing, At, history, breakers, RetryType, OthersKept
    <2>3. TriesLeft(c)'
      BY <1>0, <1>9
      DEF LockBreaker, Missing, At, history, breakers, RetryType, TriesLeft, MaxTries, Waiting,
          Attempting
    <2>4. Allowed(c)'
      BY <1>0, <1>9
      DEF LockBreaker, Missing, At, history, breakers, RetryType, Allowed, AllowRetryForMethod,
          TriesLeft, Waiting, Attempting
    <2>5. BodyReady(c)'
      BY <1>0, <1>9
      DEF LockBreaker, Missing, At, history, breakers, RetryType, BodyReady, Waiting, Attempting
    <2>6. Settled(c)'
      BY <1>0, <1>9
      DEF LockBreaker, Missing, At, history, breakers, RetryType, Settled, Waiting, Attempting,
          Responses, Statuses503
    <2> QED
      BY <2>1, <2>2, <2>3, <2>4, <2>5, <2>6 DEF StepKeeps, OwnInv
  <1>10. ASSUME PublishBreaker(c) PROVE StepKeeps(c)
    <2>1. RetryType'
      BY <1>0, <1>10 DEF PublishBreaker, At, history, breakers, RetryType, Waiting, Attempting
    <2>2. OthersKept(c)
      BY <1>0, <1>10 DEF PublishBreaker, At, history, breakers, RetryType, OthersKept
    <2>3. TriesLeft(c)'
      BY <1>0, <1>10
      DEF PublishBreaker, At, history, breakers, RetryType, TriesLeft, MaxTries, Waiting, Attempting
    <2>4. Allowed(c)'
      BY <1>0, <1>10
      DEF PublishBreaker, At, history, breakers, RetryType, Allowed, AllowRetryForMethod, TriesLeft,
          Waiting, Attempting
    <2>5. BodyReady(c)'
      BY <1>0, <1>10 DEF PublishBreaker, At, history, breakers, RetryType, BodyReady, Waiting, Attempting
    <2>6. Settled(c)'
      BY <1>0, <1>10
      DEF PublishBreaker, At, history, breakers, RetryType, Settled, Waiting, Attempting, Responses,
          Statuses503
    <2> QED
      BY <2>1, <2>2, <2>3, <2>4, <2>5, <2>6 DEF StepKeeps, OwnInv
  <1>11. ASSUME BreakerRefuses(c) PROVE StepKeeps(c)
    <2>0. Judge(c, "circuit open")
      BY <1>11 DEF BreakerRefuses
    <2>1. PICK o : Judge(c, o)
      BY <2>0
    <2>2. /\ rpc[c] = "enter"
          /\ UNCHANGED <<input, pos, keyed, sends, repeated, cut, ended, aborted, registry, chosen, made>>
      BY <1>11, Zenon DEF BreakerRefuses, history, breakers
    <2>3. RetryType' /\ OthersKept(c)
      BY <1>0, <2>1, <2>2, Judging DEF RetryType, OthersKept
    <2>4. TriesLeft(c)'
      <3>1. MaxTries(c)' = MaxTries(c) /\ rpc[c] \in Waiting /\ tries[c] \in Nat /\ sends[c] \in Nat
        BY <1>0, <2>2 DEF MaxTries, RetryType, Waiting, Attempting
      <3> QED
        BY <1>0, <2>1, <2>2, <3>1, Judging DEF TriesLeft, Waiting, Attempting
    <2>5. Allowed(c)'
      BY <1>0, <2>1, <2>2, Judging DEF Allowed, Attempting
    <2>6. BodyReady(c)'
      <3>1. tries[c] \in Nat /\ tries[c] >= 1
        BY <1>0 DEF RetryType, TriesLeft
      <3> QED
        BY <1>0, <2>1, <2>2, <3>1, Judging DEF BodyReady, Waiting, Attempting
    <2>7. Settled(c)'
      BY <1>0, <2>1, <2>2, Judging DEF Settled, Waiting, Attempting
    <2> QED
      BY <2>3, <2>4, <2>5, <2>6, <2>7 DEF StepKeeps, OwnInv
  <1>12. ASSUME BreakerAdmits(c) PROVE StepKeeps(c)
    <2>1. RetryType'
      BY <1>0, <1>12 DEF BreakerAdmits, At, history, breakers, RetryType, Waiting, Attempting
    <2>2. OthersKept(c)
      BY <1>0, <1>12 DEF BreakerAdmits, At, history, breakers, RetryType, OthersKept
    <2>3. TriesLeft(c)'
      BY <1>0, <1>12
      DEF BreakerAdmits, At, history, breakers, RetryType, TriesLeft, MaxTries, Waiting, Attempting
    <2>4. Allowed(c)'
      BY <1>0, <1>12
      DEF BreakerAdmits, At, history, breakers, RetryType, Allowed, AllowRetryForMethod, TriesLeft,
          Waiting, Attempting
    <2>5. BodyReady(c)'
      BY <1>0, <1>12 DEF BreakerAdmits, At, history, breakers, RetryType, BodyReady, Waiting, Attempting
    <2>6. Settled(c)'
      BY <1>0, <1>12
      DEF BreakerAdmits, At, history, breakers, RetryType, Settled, Waiting, Attempting, Responses,
          Statuses503
    <2> QED
      BY <2>1, <2>2, <2>3, <2>4, <2>5, <2>6 DEF StepKeeps, OwnInv
  <1>13. ASSUME LimitCancelled(c) PROVE StepKeeps(c)
    <2>0. Judge(c, "cancelled")
      BY <1>13 DEF LimitCancelled, Back
    <2>1. RetryType'
      BY <1>0, <1>13, <2>0, Judging
      DEF LimitCancelled, Back, At, history, breakers, RetryType, Waiting, Attempting
    <2>2. OthersKept(c)
      BY <1>0, <1>13, <2>0, Judging
      DEF LimitCancelled, Back, At, history, breakers, RetryType, OthersKept
    <2>3. TriesLeft(c)'
      <3>1. MaxTries(c)' = MaxTries(c) /\ sends'[c] \in Nat /\ sends'[c] <= sends[c] + 1 /\ rpc[c] \in Waiting
        BY <1>0, <1>13
        DEF LimitCancelled, Back, At, history, breakers, MaxTries, RetryType, Waiting, Attempting
      <3>2. tries[c] \in Nat /\ sends[c] \in Nat
        BY <1>0 DEF RetryType
      <3> QED
        BY <1>0, <2>0, <3>1, <3>2, Judging DEF TriesLeft, Waiting, Attempting
    <2>4. Allowed(c)'
      BY <1>0, <1>13, <2>0, Judging
      DEF LimitCancelled, Back, At, history, breakers, RetryType, Allowed, AllowRetryForMethod,
          TriesLeft, Waiting, Attempting
    <2>5. BodyReady(c)'
      <3>1. input' = input /\ (c \in cut' => c \in cut \/ (pos[c] # "whole" /\ rpc[c] = "send"))
        BY <1>13 DEF LimitCancelled, Back, At, history, breakers
      <3>2. tries[c] \in Nat /\ tries[c] >= 1
        BY <1>0 DEF RetryType, TriesLeft
      <3> QED
        BY <1>0, <2>0, <3>1, <3>2, Judging DEF BodyReady, Waiting, Attempting
    <2>6. Settled(c)'
      BY <1>0, <1>13, <2>0, Judging
      DEF LimitCancelled, Back, At, history, breakers, RetryType, Settled, Waiting, Attempting,
          Responses, Statuses503
    <2> QED
      BY <2>1, <2>2, <2>3, <2>4, <2>5, <2>6 DEF StepKeeps, OwnInv
  <1>14. ASSUME LimitAllows(c) PROVE StepKeeps(c)
    <2>1. RetryType'
      BY <1>0, <1>14 DEF LimitAllows, At, history, breakers, RetryType, Waiting, Attempting
    <2>2. OthersKept(c)
      BY <1>0, <1>14 DEF LimitAllows, At, history, breakers, RetryType, OthersKept
    <2>3. TriesLeft(c)'
      BY <1>0, <1>14
      DEF LimitAllows, At, history, breakers, RetryType, TriesLeft, MaxTries, Waiting, Attempting
    <2>4. Allowed(c)'
      BY <1>0, <1>14
      DEF LimitAllows, At, history, breakers, RetryType, Allowed, AllowRetryForMethod, TriesLeft,
          Waiting, Attempting
    <2>5. BodyReady(c)'
      BY <1>0, <1>14 DEF LimitAllows, At, history, breakers, RetryType, BodyReady, Waiting, Attempting
    <2>6. Settled(c)'
      BY <1>0, <1>14
      DEF LimitAllows, At, history, breakers, RetryType, Settled, Waiting, Attempting, Responses,
          Statuses503
    <2> QED
      BY <2>1, <2>2, <2>3, <2>4, <2>5, <2>6 DEF StepKeeps, OwnInv
  <1>15. ASSUME ChaosInjects(c) PROVE StepKeeps(c)
    <2>0. Judge(c, "503")
      BY <1>15 DEF ChaosInjects, Back
    <2>1. RetryType'
      BY <1>0, <1>15, <2>0, Judging
      DEF ChaosInjects, Back, At, history, breakers, RetryType, Waiting, Attempting
    <2>2. OthersKept(c)
      BY <1>0, <1>15, <2>0, Judging DEF ChaosInjects, Back, At, history, breakers, RetryType, OthersKept
    <2>3. TriesLeft(c)'
      <3>1. MaxTries(c)' = MaxTries(c) /\ sends'[c] \in Nat /\ sends'[c] <= sends[c] + 1 /\ rpc[c] \in Waiting
        BY <1>0, <1>15
        DEF ChaosInjects, Back, At, history, breakers, MaxTries, RetryType, Waiting, Attempting
      <3>2. tries[c] \in Nat /\ sends[c] \in Nat
        BY <1>0 DEF RetryType
      <3> QED
        BY <1>0, <2>0, <3>1, <3>2, Judging DEF TriesLeft, Waiting, Attempting
    <2>4. Allowed(c)'
      BY <1>0, <1>15, <2>0, Judging
      DEF ChaosInjects, Back, At, history, breakers, RetryType, Allowed, AllowRetryForMethod, TriesLeft,
          Waiting, Attempting
    <2>5. BodyReady(c)'
      <3>1. input' = input /\ (c \in cut' => c \in cut \/ (pos[c] # "whole" /\ rpc[c] = "send"))
        BY <1>15 DEF ChaosInjects, Back, At, history, breakers
      <3>2. tries[c] \in Nat /\ tries[c] >= 1
        BY <1>0 DEF RetryType, TriesLeft
      <3> QED
        BY <1>0, <2>0, <3>1, <3>2, Judging DEF BodyReady, Waiting, Attempting
    <2>6. Settled(c)'
      BY <1>0, <1>15, <2>0, Judging
      DEF ChaosInjects, Back, At, history, breakers, RetryType, Settled, Waiting, Attempting, Responses,
          Statuses503
    <2> QED
      BY <2>1, <2>2, <2>3, <2>4, <2>5, <2>6 DEF StepKeeps, OwnInv
  <1>16. ASSUME NEW got \in Responses \cup {"transient", "fatal"}, Send(c, got) PROVE StepKeeps(c)
    <2>0. Judge(c, got)
      BY <1>16 DEF Send, Back
    <2>1. RetryType'
      BY <1>0, <1>16, <2>0, Judging DEF Send, Back, At, history, breakers, RetryType, Waiting, Attempting
    <2>2. OthersKept(c)
      BY <1>0, <1>16, <2>0, Judging DEF Send, Back, At, history, breakers, RetryType, OthersKept
    <2>3. TriesLeft(c)'
      <3>1. MaxTries(c)' = MaxTries(c) /\ sends'[c] \in Nat /\ sends'[c] <= sends[c] + 1 /\ rpc[c] \in Waiting
        BY <1>0, <1>16 DEF Send, Back, At, history, breakers, MaxTries, RetryType, Waiting, Attempting
      <3>2. tries[c] \in Nat /\ sends[c] \in Nat
        BY <1>0 DEF RetryType
      <3> QED
        BY <1>0, <2>0, <3>1, <3>2, Judging DEF TriesLeft, Waiting, Attempting
    <2>4. Allowed(c)'
      BY <1>0, <1>16, <2>0, Judging
      DEF Send, Back, At, history, breakers, RetryType, Allowed, AllowRetryForMethod, TriesLeft,
          Waiting, Attempting
    <2>5. BodyReady(c)'
      <3>1. input' = input /\ (c \in cut' => c \in cut \/ (pos[c] # "whole" /\ rpc[c] = "send"))
        BY <1>16 DEF Send, Back, At, history, breakers
      <3>2. tries[c] \in Nat /\ tries[c] >= 1
        BY <1>0 DEF RetryType, TriesLeft
      <3> QED
        BY <1>0, <2>0, <3>1, <3>2, Judging DEF BodyReady, Waiting, Attempting
    <2>6. Settled(c)'
      BY <1>0, <1>16, <2>0, Judging
      DEF Send, Back, At, history, breakers, RetryType, Settled, Waiting, Attempting, Responses,
          Statuses503
    <2> QED
      BY <2>1, <2>2, <2>3, <2>4, <2>5, <2>6 DEF StepKeeps, OwnInv
  <1>17. ASSUME FallbackServes(c) PROVE StepKeeps(c)
    <2>1. RetryType'
      BY <1>0, <1>17 DEF FallbackServes, At, history, breakers, RetryType, Waiting, Attempting
    <2>2. OthersKept(c)
      BY <1>0, <1>17 DEF FallbackServes, At, history, breakers, RetryType, OthersKept
    <2>3. TriesLeft(c)'
      BY <1>0, <1>17
      DEF FallbackServes, At, history, breakers, RetryType, TriesLeft, MaxTries, Waiting, Attempting
    <2>4. Allowed(c)'
      BY <1>0, <1>17
      DEF FallbackServes, At, history, breakers, RetryType, Allowed, AllowRetryForMethod, TriesLeft,
          Waiting, Attempting
    <2>5. BodyReady(c)'
      BY <1>0, <1>17 DEF FallbackServes, At, history, breakers, RetryType, BodyReady, Waiting, Attempting
    <2>6. Settled(c)'
      BY <1>0, <1>17
      DEF FallbackServes, At, history, breakers, RetryType, Settled, Waiting, Attempting, Responses,
          Statuses503
    <2> QED
      BY <2>1, <2>2, <2>3, <2>4, <2>5, <2>6 DEF StepKeeps, OwnInv
  <1>18. ASSUME ChainReturns(c) PROVE StepKeeps(c)
    <2>1. RetryType'
      BY <1>0, <1>18 DEF ChainReturns, At, history, breakers, RetryType, Waiting, Attempting
    <2>2. OthersKept(c)
      BY <1>0, <1>18 DEF ChainReturns, At, history, breakers, RetryType, OthersKept
    <2>3. TriesLeft(c)'
      BY <1>0, <1>18
      DEF ChainReturns, At, history, breakers, RetryType, TriesLeft, MaxTries, Waiting, Attempting
    <2>4. Allowed(c)'
      BY <1>0, <1>18
      DEF ChainReturns, At, history, breakers, RetryType, Allowed, AllowRetryForMethod, TriesLeft,
          Waiting, Attempting
    <2>5. BodyReady(c)'
      BY <1>0, <1>18 DEF ChainReturns, At, history, breakers, RetryType, BodyReady, Waiting, Attempting
    <2>6. Settled(c)'
      BY <1>0, <1>18
      DEF ChainReturns, At, history, breakers, RetryType, Settled, Waiting, Attempting, Responses,
          Statuses503
    <2> QED
      BY <2>1, <2>2, <2>3, <2>4, <2>5, <2>6 DEF StepKeeps, OwnInv
  <1>19. ASSUME Abort(c) PROVE StepKeeps(c)
    <2>1. RetryType'
      BY <1>0, <1>19 DEF Abort, At, history, breakers, RetryType, Waiting, Attempting
    <2>2. OthersKept(c)
      BY <1>0, <1>19 DEF Abort, At, history, breakers, RetryType, OthersKept
    <2>3. TriesLeft(c)'
      BY <1>0, <1>19
      DEF Abort, At, history, breakers, RetryType, TriesLeft, MaxTries, Waiting, Attempting
    <2>4. Allowed(c)'
      BY <1>0, <1>19
      DEF Abort, At, history, breakers, RetryType, Allowed, AllowRetryForMethod, TriesLeft, Waiting,
          Attempting
    <2>5. BodyReady(c)'
      BY <1>0, <1>19 DEF Abort, At, history, breakers, RetryType, BodyReady, Waiting, Attempting
    <2>6. Settled(c)'
      BY <1>0, <1>19
      DEF Abort, At, history, breakers, RetryType, Settled, Waiting, Attempting, Responses, Statuses503
    <2> QED
      BY <2>1, <2>2, <2>3, <2>4, <2>5, <2>6 DEF StepKeeps, OwnInv
  <1> QED
    BY <1>1, <1>2, <1>3, <1>4, <1>5, <1>6, <1>7, <1>8, <1>9, <1>10, <1>11, <1>12, <1>13, <1>14, <1>15,
       <1>16, <1>17, <1>18, <1>19 DEF RetryStep

(* The breakers of the calls are touched by getBreaker only. *)
SameBreaker(c) ==
  /\ UNCHANGED <<registry, keyLock, chosen>>
  /\ rpc'[c] \in Through => rpc[c] \in Through
  /\ rpc'[c] = "publish" => rpc[c] = "publish"

LEMMA AgreedStays ==
  ASSUME RetryInv, NEW c \in Callers, StepKeeps(c), SameBreaker(c)
  PROVE  \A d \in Callers : Agreed(d)'
  BY DEF RetryInv, StepKeeps, OthersKept, SameBreaker, Agreed

LEMMA RetryStepAgreed ==
  ASSUME RetryInv, NEW c \in Callers, RetryStep(c) \/ Abort(c)
  PROVE  \A d \in Callers : Agreed(d)'
  <1>0. RetryType /\ StepKeeps(c) /\ (\A d \in Callers : Agreed(d)) /\ (\A d \in Callers \ {c} : rpc'[d] = rpc[d])
    BY RetryStepOwn DEF RetryInv, StepKeeps, OthersKept
  <1>1. ASSUME BeginRetry(c) PROVE SameBreaker(c)
    BY <1>0, <1>1 DEF BeginRetry, LeaveWith, At, breakers, RetryType, SameBreaker, Through
  <1>2. ASSUME LoopCancelled(c) PROVE SameBreaker(c)
    BY <1>0, <1>2 DEF LoopCancelled, LeaveWith, At, breakers, RetryType, SameBreaker, Through
  <1>3. ASSUME LoopRewind(c) PROVE SameBreaker(c)
    BY <1>0, <1>3 DEF LoopRewind, LeaveWith, At, breakers, RetryType, SameBreaker, Through
  <1>4. ASSUME LoopForbidden(c) PROVE SameBreaker(c)
    BY <1>0, <1>4 DEF LoopForbidden, LeaveWith, At, breakers, RetryType, SameBreaker, Through
  <1>5. ASSUME RetryAfterExceeded(c) PROVE SameBreaker(c)
    BY <1>0, <1>5 DEF RetryAfterExceeded, LeaveWith, At, breakers, RetryType, SameBreaker, Through
  <1>6. ASSUME BeginSleep(c) PROVE SameBreaker(c)
    BY <1>0, <1>6 DEF BeginSleep, LeaveWith, At, breakers, RetryType, SameBreaker, Through
  <1>7. ASSUME EndSleep(c) PROVE SameBreaker(c)
    BY <1>0, <1>7 DEF EndSleep, LeaveWith, At, breakers, RetryType, SameBreaker, Through
  <1>8. ASSUME BreakerAdmits(c) PROVE SameBreaker(c)
    BY <1>0, <1>8 DEF BreakerAdmits, LeaveWith, At, breakers, RetryType, SameBreaker, Through
  <1>9. ASSUME LimitAllows(c) PROVE SameBreaker(c)
    BY <1>0, <1>9 DEF LimitAllows, LeaveWith, At, breakers, RetryType, SameBreaker, Through
  <1>10. ASSUME FallbackServes(c) PROVE SameBreaker(c)
    BY <1>0, <1>10 DEF FallbackServes, LeaveWith, At, breakers, RetryType, SameBreaker, Through
  <1>11. ASSUME ChainReturns(c) PROVE SameBreaker(c)
    BY <1>0, <1>11 DEF ChainReturns, LeaveWith, At, breakers, RetryType, SameBreaker, Through
  <1>12. ASSUME Abort(c) PROVE SameBreaker(c)
    BY <1>0, <1>12 DEF Abort, LeaveWith, At, breakers, RetryType, SameBreaker, Through
  <1>13. ASSUME BreakerRefuses(c) PROVE SameBreaker(c)
    <2>1. (\E o : Judge(c, o)) /\ UNCHANGED <<registry, keyLock, chosen>>
      BY <1>13, Zenon DEF BreakerRefuses, breakers
    <2> QED
      BY <1>0, <2>1, Judging DEF SameBreaker, Through
  <1>14. ASSUME LimitCancelled(c) PROVE SameBreaker(c)
    <2>1. (\E o : Judge(c, o)) /\ UNCHANGED <<registry, keyLock, chosen>>
      BY <1>14, Zenon DEF LimitCancelled, Back
    <2> QED
      BY <1>0, <2>1, Judging DEF SameBreaker, Through
  <1>15. ASSUME ChaosInjects(c) PROVE SameBreaker(c)
    <2>1. (\E o : Judge(c, o)) /\ UNCHANGED <<registry, keyLock, chosen>>
      BY <1>15, Zenon DEF ChaosInjects, Back
    <2> QED
      BY <1>0, <2>1, Judging DEF SameBreaker, Through
  <1>16. ASSUME NEW got \in Responses \cup {"transient", "fatal"}, Send(c, got) PROVE SameBreaker(c)
    <2>1. (\E o : Judge(c, o)) /\ UNCHANGED <<registry, keyLock, chosen>>
      BY <1>16, Zenon DEF Send, Back
    <2> QED
      BY <1>0, <2>1, Judging DEF SameBreaker, Through
  <1>17. ASSUME LoadBreaker(c) PROVE \A d \in Callers : Agreed(d)'
    BY <1>0, <1>17 DEF LoadBreaker, At, RetryType, Agreed, Through
  <1>18. ASSUME LockBreaker(c) PROVE \A d \in Callers : Agreed(d)'
    <2>1. \A d \in Callers : rpc[d] # "publish"
      BY <1>0, <1>18, InputsAssumption DEF LockBreaker, Agreed
    <2>2. CASE registry = 0
      BY <1>0, <1>18, <2>1, <2>2 DEF LockBreaker, Missing, At, RetryType, Agreed, Through
    <2>3. CASE registry # 0
      BY <1>0, <1>18, <2>1, <2>3 DEF LockBreaker, Missing, At, RetryType, Agreed, Through
    <2> QED
      BY <2>2, <2>3
  <1>19. ASSUME PublishBreaker(c) PROVE \A d \in Callers : Agreed(d)'
    <2>1. /\ registry = 0 /\ chosen[c] # 0
          /\ \A d \in Callers : rpc[d] \notin Through
          /\ \A d \in Callers \ {c} : rpc[d] # "publish"
      BY <1>0, <1>19 DEF PublishBreaker, Agreed
    <2>2. registry' = chosen[c] /\ chosen' = chosen /\ rpc'[c] = "enter"
      BY <1>0, <1>19 DEF PublishBreaker, At, RetryType
    <2> QED
      BY <1>0, <2>1, <2>2 DEF Agreed, Through
  <1> QED
    BY <1>0, <1>1, <1>2, <1>3, <1>4, <1>5, <1>6, <1>7, <1>8, <1>9, <1>10, <1>11, <1>12, <1>13, <1>14,
       <1>15, <1>16, <1>17, <1>18, <1>19, AgreedStays DEF RetryStep

LEMMA RetryNextInv == RetryInv /\ [RetryNext]_retryVars => RetryInv'
  <1> SUFFICES ASSUME RetryInv, [RetryNext]_retryVars PROVE RetryInv'
    OBVIOUS
  <1>1. ASSUME NEW c \in Callers, RetryStep(c) \/ Abort(c) PROVE RetryInv'
    <2>1. StepKeeps(c) /\ \A d \in Callers : Agreed(d)'
      BY <1>1, RetryStepOwn, RetryStepAgreed
    <2>2. \A d \in Callers \ {c} : OwnInv(d)'
      BY <2>1, OthersOwnInv DEF StepKeeps, RetryInv
    <2> QED
      BY <2>1, <2>2 DEF StepKeeps, RetryInv
  <1>2. ASSUME UNCHANGED <<input, rpc, tries, last, unread, pos, keyed, sends, repeated, cut, ended, lost,
                           aborted, registry, keyLock, chosen, made>>
        PROVE  RetryInv'
    <2>1. RetryType'
      BY <1>2 DEF RetryInv, RetryType
    <2>2. ASSUME NEW c \in Callers PROVE OwnInv(c)' /\ Agreed(c)'
      BY <1>2
      DEF RetryInv, OwnInv, TriesLeft, MaxTries, Allowed, AllowRetryForMethod, BodyReady, Settled, Agreed
    <2> QED
      BY <2>1, <2>2 DEF RetryInv
  <1>3. ASSUME NEW b \in tripped, CoolDown(b) PROVE RetryInv'
    BY <1>2, <1>3 DEF CoolDown, history
  <1>4. CASE UNCHANGED retryVars
    BY <1>2, <1>4 DEF retryVars
  <1> QED
    BY <1>1, <1>3, <1>4 DEF RetryNext

(* What RetryInv says of the four promises. *)
LEMMA RetryPromises ==
  RetryInv => NoUnsafeResend /\ WholeBodySent /\ OneBreakerPerHost /\ ResponsesSettled
  <1> SUFFICES ASSUME RetryInv PROVE NoUnsafeResend /\ WholeBodySent /\ OneBreakerPerHost /\ ResponsesSettled
    OBVIOUS
  <1>1. \A c \in Callers : sends[c] <= MaxTries(c)
    <2> SUFFICES ASSUME NEW c \in Callers PROVE sends[c] <= MaxTries(c)
      OBVIOUS
    <2>1. sends[c] \in Nat /\ tries[c] \in Nat /\ MaxTries(c) \in Nat /\ TriesLeft(c)
      BY Tries DEF RetryInv, RetryType, OwnInv
    <2> QED
      BY <2>1 DEF TriesLeft
  <1>2. OneBreakerPerHost
    BY DEF RetryInv, Agreed, OneBreakerPerHost, Through
  <1>3. ResponsesSettled
    BY DEF RetryInv, OwnInv, Settled, ResponsesSettled
  <1>4. repeated \subseteq Callers /\ cut \subseteq Callers
    BY DEF RetryInv, RetryType
  <1> QED
    BY <1>1, <1>2, <1>3, <1>4 DEF RetryInv, OwnInv, Allowed, BodyReady, NoUnsafeResend, WholeBodySent

-----------------------------------------------------------------------------
(* The pipeline as a whole. *)

(* A step of one component is a step of none of the others. *)
LEMMA StepsApart ==
  [MCNext]_allVars => [Next]_vars /\ [PipeNext]_pipeVars /\ [RetryNext]_retryVars
  BY DEF MCNext, allVars

LEMMA PartsStart == MCInit => DispatchInv /\ PipeInv /\ CacheInv /\ RetryInv
  BY DispatchStarts, PipeStarts, CacheStarts, RetryStarts DEF MCInit, Only

LEMMA PartsNextInv ==
  DispatchInv /\ PipeInv /\ CacheInv /\ RetryInv /\ [MCNext]_allVars
    => (DispatchInv /\ PipeInv /\ CacheInv /\ RetryInv)'
  BY StepsApart, DispatchNextInv, PipeNextInv, CacheNextInv, RetryNextInv DEF PipeInv

(* The middlewares of retry.go and resilience.go alone, for any calls,       *)
(* requests and limits.                                                      *)
THEOREM RetriesAreSafe ==
  RetrySpec => [](NoUnsafeResend /\ WholeBodySent /\ OneBreakerPerHost /\ ResponsesSettled)
  BY RetryStarts, RetryNextInv, RetryPromises, PTL DEF RetrySpec

(* NothingLeaks for any calls, requests, proxies and answers: neither the    *)
(* failover loop of resilience.go, nor the stages of post.go, nor the        *)
(* middlewares of retry.go leave a response open, but for the paths each     *)
(* names; a body the pipeline returns is the stream or a whole copy.         *)
THEOREM PipelineLeaksNothing == MCSpec => []NothingLeaks
  <1>1. DispatchInv /\ PipeInv /\ CacheInv /\ RetryInv => NothingLeaks
    BY DispatchPromises, PipePromises, RetryPromises DEF NothingLeaks
  <1> QED
    BY <1>1, PartsStart, PartsNextInv, PTL DEF MCSpec

(* ResendsAreSafe for any mixture of faults, statuses, open breakers,        *)
(* injected answers and cancellations: attempts are bounded, an unsafe       *)
(* method is not repeated on the client's own account, every send has the    *)
(* whole body, and the calls of a host share one breaker.                    *)
THEOREM ResendingIsSafe == MCSpec => []ResendsAreSafe
  <1>1. DispatchInv /\ PipeInv /\ CacheInv /\ RetryInv => ResendsAreSafe
    BY DispatchPromises, RetryPromises DEF ResendsAreSafe
  <1> QED
    BY <1>1, PartsStart, PartsNextInv, PTL DEF MCSpec

(* CacheIsSound for any rules of the client and of the origin (cache.go): a  *)
(* hit agrees with its request in the header Vary names, the indexed cookies *)
(* and every query parameter that counts, and a lookup that begins after an  *)
(* unsafe call has returned finds nothing older, unless a GET that was in    *)
(* flight stored it late.                                                    *)
THEOREM CacheStaysSound == MCSpec => []CacheIsSound
  <1>1. DispatchInv /\ PipeInv /\ CacheInv /\ RetryInv => CacheIsSound
    BY DEF CacheInv, CacheIsSound
  <1> QED
    BY <1>1, PartsStart, PartsNextInv, PTL DEF MCSpec

(* BodyAsAnnounced for any answers, if every request has the guards of       *)
(* post.go or every answer is as long as it declares: no length the origin   *)
(* declares and no decompression passes the size limit, and a body is        *)
(* decoded with the dictionary its request advertised.  What transcoding to  *)
(* UTF-8 makes of the body comes on top of it (ReadsAreLimited).             *)
THEOREM BodyKeepsToAnnouncement ==
  ASSUME Framed
  PROVE  MCSpec => []BodyAsAnnounced
  <1>1. DispatchInv /\ PipeInv /\ CacheInv /\ RetryInv => BodyAsAnnounced
    BY PipePromises DEF BodyAsAnnounced
  <1> QED
    BY <1>1, PartsStart, PartsNextInv, PTL DEF MCSpec

-----------------------------------------------------------------------------
(* Positions that wrap. *)

(* Whole turns do not change a remainder. *)
LEMMA WholeTurns ==
  ASSUME NEW n \in Nat \ {0}, NEW f \in Nat, NEW x \in Nat, NEW y \in Nat, Turns(y, n, f, x)
  PROVE  y % n = x % n
  <1> DEFINE a == x \div n
  <1> DEFINE b == x % n
  <1>1. x = n * a + b /\ a \in Nat /\ b \in 0 .. n - 1
    BY Division
  <1> HIDE DEF a, b
  <1>2. n * (f + a) = n * f + n * a
    BY <1>1
  <1>3. PICK g \in Nat : g = f + a
    BY <1>1
  <1>4. Turns(y, n, g, b)
    BY <1>1, <1>2, <1>3 DEF Turns
  <1>5. y % n = b
    BY <1>1, <1>4, Remainder
  <1> QED
    BY <1>5 DEF b

(* Wrapping before or after an addition is the same, ... *)
LEMMA WrapsOnce ==
  ASSUME NEW w \in Nat \ {0}, NEW c \in Nat, NEW e \in Nat
  PROVE  ((c % w) + e) % w = (c + e) % w
  <1> DEFINE q == c \div w
  <1> DEFINE m == c % w
  <1>1. c = w * q + m /\ q \in Nat /\ m \in 0 .. w - 1
    BY Division
  <1> HIDE DEF q, m
  <1>2. PICK x \in Nat, y \in Nat : x = m + e /\ y = c + e
    BY <1>1
  <1>3. Turns(y, w, q, x)
    BY <1>1, <1>2 DEF Turns
  <1>4. y % w = x % w
    BY <1>1, <1>3, WholeTurns
  <1> QED
    BY <1>2, <1>4 DEF m

(* ... also when the width of the counter is a multiple of the size of the   *)
(* ring.                                                                     *)
LEMMA WrapsTwice ==
  ASSUME NEW n \in Nat \ {0}, NEW t \in Nat, NEW w \in Nat \ {0}, w = n * t, NEW c \in Nat, NEW e \in Nat
  PROVE  ((c % w) + e) % n = (c + e) % n
  <1> DEFINE q == c \div w
  <1> DEFINE m == c % w
  <1>1. c = w * q + m /\ q \in Nat /\ m \in 0 .. w - 1
    BY Division
  <1> HIDE DEF q, m
  <1>2. PICK x \in Nat, y \in Nat : x = m + e /\ y = c + e
    BY <1>1
  <1>3. w * q = n * (t * q) /\ t * q \in Nat
    BY <1>1
  <1>4. PICK f \in Nat : f = t * q
    BY <1>3
  <1>5. Turns(y, n, f, x)
    BY <1>1, <1>2, <1>3, <1>4 DEF Turns
  <1>6. y % n = x % n
    BY <1>5, WholeTurns
  <1> QED
    BY <1>2, <1>6 DEF m

(* The distance of two positions less than a turn apart. *)
LEMMA WrappedDistance ==
  ASSUME NEW w \in Nat \ {0}, NEW c \in Nat, NEW d \in 0 .. w - 1
  PROVE  (((c + d) % w) + w - (c % w)) % w = d
  <1> DEFINE m == c % w
  <1>1. m \in 0 .. w - 1
    BY Division
  <1>2. (c + d) % w = (m + d) % w
    <2>1. d \in Nat
      OBVIOUS
    <2>2. ((c % w) + d) % w = (c + d) % w
      BY <2>1, WrapsOnce, Zenon
    <2> QED
      BY <2>2
  <1> HIDE DEF m
  <1>3. CASE m + d < w
    <2>1. (m + d) % w = m + d
      BY <1>1, <1>3, Small
    <2>2. (m + d) + w - m = d + w
      BY <1>1
    <2> QED
      BY <1>2, <2>1, <2>2, Small DEF m
  <1>4. CASE m + d >= w
    <2>1. PICK b \in 0 .. w - 1 : m + d = b + w
      <3>1. m + d - w \in 0 .. w - 1 /\ m + d = (m + d - w) + w
        BY <1>1, <1>4
      <3> QED
        BY <3>1
    <2>2. (m + d) % w = b
      BY <2>1, Small
    <2>3. b + w - m = d
      BY <1>1, <2>1
    <2> QED
      BY <1>2, <2>2, <2>3, Small DEF m
  <1> QED
    BY <1>1, <1>3, <1>4

(* Positions less than a turn apart have different slots. *)
LEMMA SlotsDiffer ==
  ASSUME NEW n \in Nat \ {0}, NEW c \in Nat, NEW d \in 1 .. n - 1
  PROVE  (c + d) % n # c % n
  <1>1. c % n \in 0 .. n - 1 /\ d \in 0 .. n - 1 /\ 0 \in 0 .. n - 1
    BY Division
  <1>2. (((c + d) % n) + n - (c % n)) % n = d
    BY <1>1, WrappedDistance
  <1>3. ASSUME (c + d) % n = c % n PROVE FALSE
    <2>1. ((c + d) % n) + n - (c % n) = 0 + n
      BY <1>1, <1>3
    <2>2. (0 + n) % n = 0
      BY <1>1, Small
    <2> QED
      BY <1>2, <2>1, <2>2
  <1> QED
    BY <1>3

-----------------------------------------------------------------------------
(* The submission queue. *)

RingOps == (UringCalls \cup {Free}) \X Int

RingType ==
  /\ upc \in [UringCalls \cup {Closer} -> {"idle", "lock", "prepare", "submit", "wait", "done"}]
  /\ mu \in UringCalls \cup {Free} /\ left \in [UringCalls -> Int] /\ failures \in Nat
  /\ sqes \in [0 .. RingSize - 1 -> RingOps] /\ running \subseteq RingOps /\ cqes \in Seq(RingOps)
  /\ prepared \in Seq(RingOps) /\ consumed \in Seq(RingOps) /\ taken \in [UringCalls -> RingOps]

K == Len(consumed)
P == Len(prepared)

(* The entries of s hold operations k+1 to p of q. *)
Holds(s, q, k, p) == \A i \in k .. p - 1 : s[i % RingSize] = q[i + 1]

(* Head and tails are how many operations were taken, published and          *)
(* prepared, and the queue holds those between.                              *)
Queue ==
  /\ K <= P /\ P - K <= RingSize
  /\ khead = K % CounterWidth /\ sqeTail = P % CounterWidth
  /\ \E t \in K .. P : ktail = t % CounterWidth
  /\ Holds(sqes, prepared, K, P)
  /\ \A i \in 1 .. K : consumed[i] = prepared[i]

Locked == \A c \in UringCalls : upc[c] \in {"prepare", "submit", "wait"} <=> mu = c

(* Without a failure there is one operation at a time, of the call that      *)
(* holds the lock.                                                           *)
OneOperation ==
  failures = 0 =>
    /\ \A c \in UringCalls : taken[c] # NoOp => taken[c][1] = c
    /\ (\A c \in UringCalls : upc[c] # "submit") => P = K /\ ktail = P % CounterWidth
    /\ (\A c \in UringCalls : upc[c] # "wait") => running = {} /\ cqes = <<>>
    /\ \A c \in UringCalls : upc[c] = "submit" =>
         P = K + 1 /\ ktail = K % CounterWidth /\ prepared[P][1] = c
    /\ \A c \in UringCalls : upc[c] = "wait" =>
         /\ \A op \in running : op[1] = c /\ running = {op}
         /\ cqes # <<>> => Len(cqes) = 1 /\ cqes[1][1] = c /\ running = {}

RingInv == RingType /\ Queue /\ Locked /\ OneOperation

(* The widths. *)
LEMMA Widths ==
  /\ RingSize \in Nat \ {0} /\ CounterWidth \in Nat \ {0} /\ RingSize < CounterWidth
  /\ \A c, e \in Nat : ((c % CounterWidth) + e) % RingSize = (c + e) % RingSize
  /\ \A c, e \in Nat : ((c % CounterWidth) + e) % CounterWidth = (c + e) % CounterWidth
  /\ \A c \in Nat : c % RingSize \in 0 .. RingSize - 1 /\ c % CounterWidth \in Nat
  <1>1. RingSize \in Nat \ {0} /\ CounterWidth \in Nat \ {0} /\ RingSize < CounterWidth
    BY RingAssumption
  <1>2. PICK t \in Nat : CounterWidth = RingSize * t
    <2>1. CounterWidth = RingSize * (CounterWidth \div RingSize) + 0 /\ CounterWidth \div RingSize \in Nat
      BY <1>1, Division, RingAssumption
    <2> QED
      BY <1>1, <2>1
  <1>3. \A c, e \in Nat : ((c % CounterWidth) + e) % RingSize = (c + e) % RingSize
    BY <1>1, <1>2, WrapsTwice
  <1>4. \A c, e \in Nat : ((c % CounterWidth) + e) % CounterWidth = (c + e) % CounterWidth
    BY <1>1, WrapsOnce
  <1>5. \A c \in Nat : c % RingSize \in 0 .. RingSize - 1 /\ c % CounterWidth \in Nat
    <2>1. \A c \in Nat : c % RingSize \in 0 .. RingSize - 1 /\ c % CounterWidth \in 0 .. CounterWidth - 1
      BY <1>1, Division
    <2> QED
      BY <1>1, <2>1
  <1> QED
    BY <1>1, <1>3, <1>4, <1>5

(* The distance of the tail p from a position t behind it. *)
LEMMA Distances ==
  ASSUME NEW t \in Nat, NEW p \in Nat, t <= p, p - t <= RingSize
  PROVE  Distance(p % CounterWidth, t % CounterWidth) = p - t
  <1>1. p - t \in 0 .. CounterWidth - 1 /\ t + (p - t) = p
    BY Widths
  <1>2. PICK d \in 0 .. CounterWidth - 1 : d = p - t
    BY <1>1
  <1>3. (((t + d) % CounterWidth) + CounterWidth - (t % CounterWidth)) % CounterWidth = d
    BY Widths, WrappedDistance
  <1>4. t + d = p
    BY <1>1, <1>2
  <1> QED
    BY <1>2, <1>3, <1>4 DEF Distance

LEMMA RingStarts == UringInit => RingInv
  <1> SUFFICES ASSUME UringInit PROVE RingInv
    OBVIOUS
  <1>1. RingType
    BY RingAssumption, UringAssumption DEF UringInit, RingType, RingOps, NoOp
  <1>2. K = 0 /\ P = 0
    BY DEF UringInit, K, P
  <1>3. 0 % CounterWidth = 0
    BY Widths, Small
  <1>4. Queue
    BY <1>2, <1>3, Widths DEF UringInit, Queue, Holds
  <1>5. Locked /\ OneOperation
    BY <1>2, <1>3, UringAssumption DEF UringInit, Locked, OneOperation
  <1> QED
    BY <1>1, <1>4, <1>5 DEF RingInv

(* Filling the entry after p, in a ring that is not full, spares the others. *)
LEMMA FillingHolds ==
  ASSUME NEW k \in Nat, NEW p \in Nat, k <= p, p - k < RingSize, NEW s \in [0 .. RingSize - 1 -> RingOps],
         NEW q \in Seq(RingOps), Len(q) = p, NEW op \in RingOps, Holds(s, q, k, p)
  PROVE  Holds([s EXCEPT ![p % RingSize] = op], Append(q, op), k, p + 1)
  <1> SUFFICES ASSUME NEW i \in k .. p
               PROVE  [s EXCEPT ![p % RingSize] = op][i % RingSize] = Append(q, op)[i + 1]
    <2>1. (p + 1) - 1 = p
      OBVIOUS
    <2> QED
      BY <2>1, Zenon DEF Holds
  <1>1. i \in Nat /\ i <= p /\ i + 1 \in 1 .. p + 1
    OBVIOUS
  <1>2. PICK a \in 0 .. RingSize - 1 : a = p % RingSize
    BY Widths
  <1>3. PICK b \in 0 .. RingSize - 1 : b = i % RingSize
    BY <1>1, Widths
  <1>4. CASE i = p
    <2>1. Append(q, op)[p + 1] = op
      OBVIOUS
    <2> QED
      BY <1>2, <1>4, <2>1
  <1>5. CASE i < p
    <2>1. PICK d \in 1 .. RingSize - 1 : p = i + d
      <3>1. p - i \in 1 .. RingSize - 1 /\ p = i + (p - i)
        BY <1>1, <1>5, RingAssumption
      <3> QED
        BY <3>1
    <2>2. a # b
      BY <1>1, <1>2, <1>3, <2>1, SlotsDiffer, Widths
    <2>3. i \in k .. p - 1 /\ i + 1 \in 1 .. p
      BY <1>1, <1>5
    <2>4. s[b] = q[i + 1]
      BY <1>3, <2>3 DEF Holds
    <2>5. Append(q, op)[i + 1] = q[i + 1]
      BY <2>3
    <2>6. [s EXCEPT ![a] = op][b] = s[b]
      BY <2>2
    <2> QED
      BY <1>2, <1>3, <2>4, <2>5, <2>6
  <1> QED
    BY <1>1, <1>4, <1>5

(* A call that does not touch the queue: it comes, gets the lock or leaves.  *)
LEMMA PassingInv ==
  ASSUME RingInv, NEW c \in UringCalls \cup {Closer}, UNCHANGED <<ringVars, left, taken>>, failures' \in Nat,
         failures' = 0 => failures = 0,
         NEW l \in {"idle", "lock", "prepare", "done"}, upc' = [upc EXCEPT ![c] = l],
         \/ upc[c] \in {"idle", "lock"} /\ l # "prepare" /\ mu' = mu
         \/ c \in UringCalls /\ upc[c] = "lock" /\ l = "prepare" /\ mu = Free /\ mu' = c
         \/ c \in UringCalls /\ upc[c] = "prepare" /\ l = "done" /\ mu' = Free
         \/ c \in UringCalls /\ upc[c] = "wait" /\ l = "done" /\ mu' = Free /\ failures' # 0
  PROVE  RingInv'
  <1>1. RingType'
    BY DEF RingInv, RingType, ringVars
  <1>2. Queue'
    BY DEF RingInv, Queue, K, P, ringVars
  <1>3. Locked'
    BY UringAssumption DEF RingInv, RingType, Locked
  <1>4. OneOperation'
    <2>1. \A d \in UringCalls : d # c => upc'[d] = upc[d]
      BY DEF RingInv, RingType
    <2>2. upc'[c] = l
      BY DEF RingInv, RingType
    <2>3. failures' = 0 => upc[c] \notin {"submit", "wait"}
      OBVIOUS
    <2>4. K' = K /\ P' = P
      BY DEF K, P, ringVars
    <2> QED
      BY <2>1, <2>2, <2>3, <2>4 DEF RingInv, OneOperation, ringVars
  <1> QED
    BY <1>1, <1>2, <1>3, <1>4 DEF RingInv

(* The kernel, which takes n entries from its head, takes operations k+1 to  *)
(* k+n.                                                                      *)
LEMMA TakingHolds ==
  ASSUME NEW k \in Nat, NEW p \in Nat, NEW n \in Nat, k + n <= p, NEW s, NEW q, Holds(s, q, k, p)
  PROVE  \A j \in 1 .. n : s[((k % CounterWidth) + j - 1) % RingSize] = q[k + j]
  <1> TAKE j \in 1 .. n
  <1>1. PICK e \in Nat : e = j - 1 /\ k + e \in k .. p - 1 /\ (k + e) + 1 = k + j
    <2>1. j - 1 \in Nat /\ k + (j - 1) \in k .. p - 1 /\ (k + (j - 1)) + 1 = k + j
      OBVIOUS
    <2> QED
      BY <2>1
  <1>2. PICK m \in Nat : m = k % CounterWidth
    BY Widths, Zenon
  <1>3. m + j - 1 = m + e
    BY <1>1, <1>2
  <1>4. (m + e) % RingSize = (k + e) % RingSize
    BY <1>2, Widths, Zenon
  <1>5. s[(k + e) % RingSize] = q[k + j]
    BY <1>1, Zenon DEF Holds
  <1> QED
    BY <1>2, <1>3, <1>4, <1>5

(* GetSQE fills the next entry: the ring is not full, so it is none of those *)
(* the kernel has still to take.                                             *)
LEMMA FilledInv ==
  ASSUME RingInv, NEW c \in UringCalls, GetSQE(c), prepared' # prepared
  PROVE  RingInv'
  <1> PICK op \in RingOps : op = <<c, left[c]>>
    BY DEF RingInv, RingType, RingOps
  <1>1. /\ sqes' = [sqes EXCEPT ![sqeTail % RingSize] = op] /\ sqeTail' = (sqeTail + 1) % CounterWidth
        /\ prepared' = Append(prepared, op) /\ upc' = [upc EXCEPT ![c] = "submit"]
        /\ upc[c] = "prepare" /\ ~RingFull
    <2>1. ~UNCHANGED ringVars
      BY DEF ringVars
    <2>2. /\ sqes' = [sqes EXCEPT ![sqeTail % RingSize] = <<c, left[c]>>]
          /\ sqeTail' = (sqeTail + 1) % CounterWidth
          /\ prepared' = Append(prepared, <<c, left[c]>>) /\ UringGoes(c, "submit")
          /\ upc[c] = "prepare" /\ ~RingFull
      BY <2>1, Zenon DEF GetSQE
    <2> QED
      BY <2>2, Zenon DEF UringGoes
  <1>2. UNCHANGED <<mu, ktail, khead, running, cqes, consumed, left, taken, failures>>
    BY DEF GetSQE, ringVars
  <1>3. RingType /\ Queue /\ Locked /\ OneOperation
    BY DEF RingInv
  <1>4. PICK k \in Nat, p \in Nat : k = K /\ p = P
    BY <1>3 DEF RingType, K, P
  <1>5. K' = k /\ P' = p + 1 /\ prepared'[p + 1] = op /\ \A i \in 1 .. p : prepared'[i] = prepared[i]
    BY <1>1, <1>2, <1>3, <1>4 DEF RingType, K, P
  <1>6. k <= p /\ khead = k % CounterWidth /\ sqeTail = p % CounterWidth /\ p - k <= RingSize
    BY <1>3, <1>4 DEF Queue
  <1>7. p - k < RingSize
    <2>1. Distance(sqeTail, khead) = p - k
      BY <1>6, Distances
    <2> QED
      BY <1>1, <2>1, RingAssumption DEF RingFull
  <1>8. sqeTail' = (p + 1) % CounterWidth
    BY <1>1, <1>6, Widths
  <1>9. sqeTail % RingSize = p % RingSize
    <2>1. ((p % CounterWidth) + 0) % RingSize = (p + 0) % RingSize
      BY Widths
    <2>2. PICK m \in Nat : m = p % CounterWidth
      BY Widths, Zenon
    <2>3. m + 0 = m /\ p + 0 = p
      OBVIOUS
    <2> QED
      BY <1>6, <2>1, <2>2, <2>3
  <1>10. RingType'
    <2>1. prepared' \in Seq(RingOps)
      BY <1>1, <1>3 DEF RingType
    <2>2. sqes' \in [0 .. RingSize - 1 -> RingOps]
      BY <1>1, <1>3 DEF RingType
    <2>3. upc' \in [UringCalls \cup {Closer} -> {"idle", "lock", "prepare", "submit", "wait", "done"}]
      BY <1>1, <1>3 DEF RingType
    <2> QED
      BY <1>2, <1>3, <2>1, <2>2, <2>3 DEF RingType
  <1>11. Queue'
    <2>1. K' <= P' /\ P' - K' <= RingSize /\ khead' = K' % CounterWidth /\ sqeTail' = P' % CounterWidth
      <3>1. k <= p + 1 /\ (p + 1) - k <= RingSize
        BY <1>6, <1>7, RingAssumption
      <3> QED
        BY <1>2, <1>5, <1>6, <1>8, <3>1
    <2>2. \E t \in K' .. P' : ktail' = t % CounterWidth
      <3>1. PICK t \in k .. p : ktail = t % CounterWidth
        BY <1>3, <1>4 DEF Queue
      <3>2. t \in k .. p + 1
        OBVIOUS
      <3> QED
        BY <1>2, <1>5, <3>1, <3>2
    <2>3. Holds(sqes', prepared', k, p + 1)
      <3>1. Holds(sqes, prepared, k, p) /\ Len(prepared) = p /\ sqes \in [0 .. RingSize - 1 -> RingOps]
            /\ prepared \in Seq(RingOps)
        BY <1>3, <1>4 DEF Queue, RingType, P
      <3>2. Holds([sqes EXCEPT ![p % RingSize] = op], Append(prepared, op), k, p + 1)
        BY <1>6, <1>7, <3>1, FillingHolds
      <3> QED
        BY <1>1, <1>9, <3>2
    <2>4. \A i \in 1 .. K' : consumed'[i] = prepared'[i]
      <3>1. \A i \in 1 .. k : consumed[i] = prepared[i] /\ i \in 1 .. p
        BY <1>3, <1>4, <1>6 DEF Queue
      <3> QED
        BY <1>2, <1>5, <3>1
    <2> QED
      BY <1>5, <2>1, <2>2, <2>3, <2>4 DEF Queue
  <1>12. Locked'
    BY <1>1, <1>2, <1>3 DEF RingType, Locked
  <1>13. OneOperation'
    <2>1. \A d \in UringCalls : upc[d] \notin {"submit", "wait"}
      BY <1>1, <1>3 DEF Locked
    <2>2. upc'[c] = "submit" /\ \A d \in UringCalls : d # c => upc'[d] = upc[d]
      BY <1>1, <1>3 DEF RingType
    <2>3. prepared'[P'][1] = c
      BY <1>5
    <2>4. failures = 0 => p = k /\ ktail = p % CounterWidth /\ running = {} /\ cqes = <<>>
                          /\ \A d \in UringCalls : taken[d] # NoOp => taken[d][1] = d
      BY <1>3, <1>4, <2>1 DEF OneOperation
    <2> QED
      BY <1>2, <1>5, <2>1, <2>2, <2>3, <2>4 DEF OneOperation
  <1> QED
    BY <1>10, <1>11, <1>12, <1>13 DEF RingInv

(* Two sequences of operations, one after the other. *)
LEMMA Joined ==
  \A s, t \in Seq(RingOps) :
    /\ s \o t \in Seq(RingOps) /\ Len(s \o t) = Len(s) + Len(t)
    /\ \A i \in 1 .. Len(s) : (s \o t)[i] = s[i]
    /\ \A j \in 1 .. Len(t) : (s \o t)[Len(s) + j] = t[j]
  OBVIOUS

(* Submit takes as many entries as were published since the last time, which *)
(* are the oldest: the kernel goes on where it stopped, also when a failure  *)
(* has left entries behind.                                                  *)
LEMMA SubmittedInv ==
  ASSUME RingInv, NEW c \in UringCalls, Submit(c, TRUE)
  PROVE  RingInv'
  <1>1. RingType /\ Queue /\ Locked /\ OneOperation /\ upc[c] = "submit"
    BY DEF RingInv, Submit
  <1>2. PICK k \in Nat, p \in Nat : k = K /\ p = P
    BY <1>1 DEF RingType, K, P
  <1>3. /\ k <= p /\ p - k <= RingSize /\ khead = k % CounterWidth /\ sqeTail = p % CounterWidth
        /\ Holds(sqes, prepared, k, p) /\ (\A i \in 1 .. k : consumed[i] = prepared[i])
    BY <1>1, <1>2 DEF Queue
  <1>4. PICK t \in k .. p : ktail = t % CounterWidth
    BY <1>1, <1>2 DEF Queue
  <1>5. PICK n \in Nat : n = p - t /\ k + n \in k .. p /\ n = Distance(sqeTail, ktail)
    <2>1. t \in Nat /\ t <= p /\ p - t <= RingSize /\ p - t \in Nat /\ k + (p - t) \in k .. p
      BY <1>3, RingAssumption
    <2>2. Distance(p % CounterWidth, t % CounterWidth) = p - t
      BY <2>1, Distances
    <2> QED
      BY <1>3, <1>4, <2>1, <2>2
  <1>6. PICK ops : ops = TakenBy(n) /\ consumed' = consumed \o ops /\ running' = running \cup ToSet(ops)
                   /\ khead' = (khead + n) % CounterWidth
    BY <1>5, Zenon DEF Submit
  <1>7. ktail' = sqeTail /\ upc' = [upc EXCEPT ![c] = "wait"]
        /\ UNCHANGED <<mu, failures, left, taken, sqeTail, sqes, cqes, prepared>>
    BY DEF Submit, UringGoes
  <1>8. ops \in Seq(RingOps) /\ Len(ops) = n /\ \A j \in 1 .. n : ops[j] = prepared[k + j]
    <2>1. \A j \in 1 .. n : sqes[((k % CounterWidth) + j - 1) % RingSize] = prepared[k + j]
      <3>1. k + n <= p
        BY <1>5
      <3> QED
        BY <1>3, <3>1, TakingHolds
    <2>2. ops = [j \in 1 .. n |-> sqes[((k % CounterWidth) + j - 1) % RingSize]]
      BY <1>3, <1>6 DEF TakenBy
    <2>3. ops = [j \in 1 .. n |-> prepared[k + j]]
      BY <2>1, <2>2, Zenon
    <2>4. \A j \in 1 .. n : k + j \in 1 .. p
      BY <1>5
    <2>5. prepared \in Seq(RingOps) /\ Len(prepared) = p
      BY <1>1, <1>2 DEF RingType, P
    <2> QED
      BY <2>3, <2>4, <2>5
  <1>9. /\ consumed' \in Seq(RingOps) /\ K' = k + n /\ P' = p /\ \A i \in 1 .. k : consumed'[i] = consumed[i]
        /\ \A j \in 1 .. n : consumed'[k + j] = ops[j]
    <2>1. consumed \in Seq(RingOps) /\ Len(consumed) = k /\ P' = p
      BY <1>1, <1>2, <1>7 DEF RingType, K, P
    <2>2. /\ consumed \o ops \in Seq(RingOps) /\ Len(consumed \o ops) = k + n
          /\ \A i \in 1 .. k : (consumed \o ops)[i] = consumed[i]
          /\ \A j \in 1 .. n : (consumed \o ops)[k + j] = ops[j]
      <3>1. ops \in Seq(RingOps) /\ Len(ops) = n
        BY <1>8
      <3>2. /\ consumed \o ops \in Seq(RingOps) /\ Len(consumed \o ops) = Len(consumed) + Len(ops)
            /\ \A i \in 1 .. Len(consumed) : (consumed \o ops)[i] = consumed[i]
            /\ \A j \in 1 .. Len(ops) : (consumed \o ops)[Len(consumed) + j] = ops[j]
        <4>1. consumed \in Seq(RingOps)
          BY <2>1
        <4> QED
          BY <3>1, <4>1, Joined, Zenon
      <3> QED
        BY <2>1, <3>1, <3>2, Zenon
    <2> QED
      BY <1>6, <2>1, <2>2 DEF K
  <1>10. ToSet(ops) = {ops[j] : j \in 1 .. n}
    BY <1>8 DEF ToSet
  <1>11. RingType'
    <2>1. running' \subseteq RingOps
      BY <1>1, <1>6, <1>8, <1>10 DEF RingType
    <2> QED
      BY <1>1, <1>7, <1>9, <2>1 DEF RingType
  <1>12. Queue'
    <2>1. K' <= P' /\ P' - K' <= RingSize
      BY <1>3, <1>5, <1>9, RingAssumption
    <2>2. khead' = K' % CounterWidth
      BY <1>3, <1>6, <1>9, Widths
    <2>3. sqeTail' = P' % CounterWidth /\ ktail' = P' % CounterWidth /\ P' \in K' .. P'
      BY <1>3, <1>5, <1>7, <1>9
    <2>4. Holds(sqes, prepared, k + n, p)
      <3>1. \A i \in (k + n) .. p - 1 : i \in k .. p - 1
        OBVIOUS
      <3> QED
        BY <1>3, <3>1 DEF Holds
    <2>5. ASSUME NEW i \in 1 .. k + n PROVE consumed'[i] = prepared[i]
      <3>1. CASE i <= k
        BY <1>3, <1>9, <3>1
      <3>2. CASE i > k
        <4>1. PICK j \in 1 .. n : i = k + j
          <5>1. i - k \in 1 .. n /\ i = k + (i - k)
            BY <3>2
          <5> QED
            BY <5>1
        <4> QED
          BY <1>8, <1>9, <4>1
      <3> QED
        BY <3>1, <3>2
    <2> QED
      BY <1>7, <1>9, <2>1, <2>2, <2>3, <2>4, <2>5 DEF Queue
  <1>13. Locked'
    BY <1>1, <1>7 DEF RingType, Locked
  <1>14. ASSUME failures = 0 PROVE k + n = p /\ \E op : running' = {op} /\ op[1] = c
    <2>1. p = k + 1 /\ ktail = k % CounterWidth /\ prepared[p][1] = c
      BY <1>1, <1>2, <1>14 DEF OneOperation
    <2>2. Distance(p % CounterWidth, k % CounterWidth) = p - k
      BY <1>3, Distances
    <2>3. n = 1
      BY <1>3, <1>5, <2>1, <2>2
    <2>4. ToSet(ops) = {prepared[p]}
      BY <1>8, <1>10, <2>1, <2>3
    <2>5. running = {}
      BY <1>1, <1>14 DEF OneOperation, Locked
    <2> QED
      BY <1>6, <2>1, <2>3, <2>4, <2>5
  <1>15. OneOperation'
    <2>1. upc'[c] = "wait" /\ \A d \in UringCalls : d # c => upc[d] \notin {"submit", "wait"} /\ upc'[d] = upc[d]
      BY <1>1, <1>7 DEF RingType, Locked
    <2>2. failures = 0 => cqes = <<>> /\ \A d \in UringCalls : taken[d] # NoOp => taken[d][1] = d
      BY <1>1, <2>1 DEF OneOperation
    <2>3. ktail' = p % CounterWidth
      BY <1>3, <1>7
    <2> QED
      BY <1>7, <1>9, <1>14, <2>1, <2>2, <2>3 DEF OneOperation
  <1> QED
    BY <1>11, <1>12, <1>13, <1>15 DEF RingInv

(* When io_uring_enter fails the entry stays, published and not taken. *)
LEMMA UnsubmittedInv ==
  ASSUME RingInv, NEW c \in UringCalls, Submit(c, FALSE)
  PROVE  RingInv'
  <1>1. RingType /\ Queue /\ Locked /\ upc[c] = "submit"
    BY DEF RingInv, Submit
  <1>2. /\ ktail' = sqeTail /\ failures' = failures + 1 /\ mu' = Free /\ upc' = [upc EXCEPT ![c] = "done"]
        /\ UNCHANGED <<khead, consumed, running, left, taken, sqeTail, sqes, cqes, prepared>>
    BY DEF Submit, UringGoes, Refuses
  <1>3. RingType'
    BY <1>1, <1>2 DEF RingType
  <1>4. K' = K /\ P' = P /\ P \in K .. P
    BY <1>1, <1>2 DEF RingType, Queue, K, P
  <1>5. Queue'
    BY <1>1, <1>2, <1>4 DEF Queue
  <1>6. Locked'
    BY <1>1, <1>2, UringAssumption DEF RingType, Locked
  <1>7. OneOperation'
    BY <1>1, <1>2 DEF RingType, OneOperation
  <1> QED
    BY <1>3, <1>5, <1>6, <1>7 DEF RingInv

(* The kernel completes an operation. *)
LEMMA CompletedInv ==
  ASSUME RingInv, NEW op \in running, Completes(op)
  PROVE  RingInv'
  <1>1. RingType /\ Queue /\ Locked /\ OneOperation
    BY DEF RingInv
  <1>2. /\ running' = running \ {op} /\ cqes' = Append(cqes, op)
        /\ UNCHANGED <<upc, mu, left, taken, failures, sqeTail, ktail, khead, sqes, prepared, consumed>>
    BY DEF Completes
  <1>3. RingType'
    BY <1>1, <1>2 DEF RingType
  <1>4. Queue' /\ Locked'
    BY <1>1, <1>2 DEF Queue, Locked, K, P
  <1>5. OneOperation'
    <2> SUFFICES ASSUME failures = 0 PROVE OneOperation'
      BY <1>2 DEF OneOperation
    <2>1. PICK c \in UringCalls : upc[c] = "wait" /\ running = {op} /\ op[1] = c
      BY <1>1 DEF OneOperation
    <2>2. cqes = <<>>
      BY <1>1, <2>1 DEF OneOperation
    <2>3. running' = {} /\ Len(cqes') = 1 /\ cqes'[1] = op
      BY <1>2, <2>1, <2>2
    <2>4. \A d \in UringCalls : upc[d] = "wait" => d = c
      BY <1>1, <2>1 DEF Locked
    <2>5. K' = K /\ P' = P
      BY <1>2 DEF K, P
    <2> QED
      BY <1>1, <1>2, <2>1, <2>3, <2>4, <2>5 DEF OneOperation
  <1> QED
    BY <1>3, <1>4, <1>5 DEF RingInv

(* WaitCQE takes the oldest completion, which is the only one as long as     *)
(* nothing has failed.                                                       *)
LEMMA AwaitedInv ==
  ASSUME RingInv, NEW c \in UringCalls, NEW res, WaitCQE(c, res)
  PROVE  RingInv'
  <1>1. RingType /\ Queue /\ Locked /\ OneOperation /\ upc[c] = "wait" /\ cqes # <<>>
    BY DEF RingInv, WaitCQE
  <1>2. /\ cqes' = Tail(cqes) /\ taken' = [taken EXCEPT ![c] = Head(cqes)]
        /\ left' = [left EXCEPT ![c] = IF res = "ok" THEN @ - 1 ELSE @]
        /\ UNCHANGED <<failures, sqeTail, ktail, khead, sqes, running, prepared, consumed>>
    BY DEF WaitCQE
  <1>3. \/ upc' = [upc EXCEPT ![c] = "prepare"] /\ mu' = mu
        \/ upc' = [upc EXCEPT ![c] = "done"] /\ mu' = Free
    BY Zenon DEF WaitCQE, UringGoes, Refuses
  <1>4. RingType'
    <2>1. cqes' \in Seq(RingOps) /\ Head(cqes) \in RingOps
      BY <1>1, <1>2 DEF RingType
    <2>2. taken' \in [UringCalls -> RingOps] /\ left' \in [UringCalls -> Int]
      BY <1>1, <1>2, <2>1 DEF RingType
    <2>3. upc' \in [UringCalls \cup {Closer} -> {"idle", "lock", "prepare", "submit", "wait", "done"}]
          /\ mu' \in UringCalls \cup {Free}
      BY <1>1, <1>3 DEF RingType
    <2> QED
      BY <1>1, <1>2, <2>1, <2>2, <2>3 DEF RingType
  <1>5. Queue'
    BY <1>1, <1>2 DEF Queue, K, P
  <1>6. Locked'
    BY <1>1, <1>3, UringAssumption DEF RingType, Locked
  <1>7. OneOperation'
    <2> SUFFICES ASSUME failures = 0 PROVE OneOperation'
      BY <1>2 DEF OneOperation
    <2>1. cqes' = <<>> /\ Head(cqes)[1] = c /\ running = {}
      BY <1>1, <1>2 DEF OneOperation, RingType
    <2>2. ASSUME NEW d \in UringCalls PROVE taken'[d] # NoOp => taken'[d][1] = d
      <3>1. taken \in [UringCalls -> RingOps]
        BY <1>1 DEF RingType
      <3>2. CASE d = c
        BY <1>2, <2>1, <3>1, <3>2
      <3>3. CASE d # c
        BY <1>1, <1>2, <3>1, <3>3 DEF OneOperation
      <3> QED
        BY <3>2, <3>3
    <2>3. \A d \in UringCalls : upc'[d] \notin {"submit", "wait"} /\ (d # c => upc[d] \notin {"submit", "wait"})
      BY <1>1, <1>3 DEF Locked, RingType
    <2>4. P = K /\ ktail = P % CounterWidth
      BY <1>1, <2>3 DEF OneOperation
    <2>5. K' = K /\ P' = P
      BY <1>2 DEF K, P
    <2> QED
      BY <1>2, <2>1, <2>2, <2>3, <2>4, <2>5 DEF OneOperation
  <1> QED
    BY <1>4, <1>5, <1>6, <1>7 DEF RingInv

LEMMA RingNextInv == RingInv /\ [UringNext]_uringVars => RingInv'
  <1> SUFFICES ASSUME RingInv, [UringNext]_uringVars PROVE RingInv'
    OBVIOUS
  <1>1. CASE UNCHANGED uringVars
    BY <1>1 DEF uringVars, ringVars, RingInv, RingType, Queue, Locked, OneOperation, K, P
  <1>2. ASSUME NEW c \in UringCalls, UringEnter(c) PROVE RingInv'
    BY <1>2, PassingInv DEF UringEnter, UringGoes, RingInv, RingType
  <1>3. ASSUME NEW c \in UringCalls, UringLock(c) PROVE RingInv'
    BY <1>3, PassingInv DEF UringLock, UringGoes, RingInv, RingType
  <1>4. ASSUME NEW c \in UringCalls, GetSQE(c) PROVE RingInv'
    <2>1. CASE prepared' # prepared
      BY <1>4, <2>1, FilledInv
    <2>2. CASE prepared' = prepared
      <3>1. prepared # Append(prepared, <<c, left[c]>>)
        BY DEF RingInv, RingType, RingOps
      <3>2. Refuses(c) /\ UNCHANGED ringVars /\ upc[c] = "prepare" /\ UNCHANGED <<left, taken, failures>>
        BY <1>4, <2>2, <3>1, Zenon DEF GetSQE
      <3> QED
        BY <3>2, PassingInv DEF Refuses, UringGoes, RingInv, RingType
    <2> QED
      BY <2>1, <2>2
  <1>5. ASSUME NEW c \in UringCalls, WaitFails(c) PROVE RingInv'
    <2>1. /\ upc[c] = "wait" /\ mu' = Free /\ upc' = [upc EXCEPT ![c] = "done"]
          /\ UNCHANGED <<ringVars, left, taken>>
      BY <1>5 DEF WaitFails, Refuses, UringGoes
    <2>2. failures' \in Nat /\ failures' # 0
      BY <1>5 DEF WaitFails, RingInv, RingType
    <2> QED
      BY <2>1, <2>2, PassingInv
  <1>6. ASSUME CloseConn \/ FreeRing PROVE RingInv'
    BY <1>6, PassingInv DEF CloseConn, FreeRing, UringGoes, RingInv, RingType
  <1> QED
    BY <1>1, <1>2, <1>3, <1>4, <1>5, <1>6, SubmittedInv, UnsubmittedInv, CompletedInv, AwaitedInv
    DEF UringNext, UringStep

(* RingKeepsOrder for any number of calls, any size of the ring that divides *)
(* the width of its counters, and any number of failures: through            *)
(* wrap-around and entries left behind the kernel takes what Read and Write  *)
(* prepared, in order and once, and without failures a completion goes to    *)
(* the call it belongs to.                                                   *)
THEOREM RingOrderKept == UringSpec => []RingKeepsOrder
  <1>1. RingInv => RingKeepsOrder
    <2> SUFFICES ASSUME RingInv PROVE RingKeepsOrder
      OBVIOUS
    <2>1. IsPrefix(consumed, prepared)
      <3>1. K \in Nat /\ P \in Nat /\ K <= P /\ \A i \in 1 .. K : consumed[i] = prepared[i]
        BY DEF RingInv, RingType, Queue, K, P
      <3>2. consumed = SubSeq(prepared, 1, Len(consumed))
        BY <3>1 DEF RingInv, RingType, K, P
      <3> QED
        BY <3>1, <3>2 DEF IsPrefix, K, P
    <2>2. failures = 0 => Len(cqes) <= 1
      <3>1. failures = 0 => cqes = <<>> \/ Len(cqes) = 1
        BY DEF RingInv, OneOperation
      <3>2. Len(<<>>) = 0
        OBVIOUS
      <3>3. CASE cqes = <<>>
        BY <3>2, <3>3
      <3>4. CASE Len(cqes) = 1
        BY <3>4
      <3> QED
        BY <3>1, <3>3, <3>4
    <2> QED
      BY <2>1, <2>2 DEF RingInv, OneOperation, RingKeepsOrder
  <1> QED
    BY <1>1, RingStarts, RingNextInv, PTL DEF UringSpec
=============================================================================
