--------------------------- MODULE Storage_proofs ---------------------------
(***************************************************************************)
(* Proofs about what outlives a call: the caches of StaleResolver for any  *)
(* number of callers and every choice of the durations, a download for any *)
(* sequence of versions, request bodies for any number of requests,        *)
(* modifiers and pooled buffers, cookies for any number of calls, proxies  *)
(* and restarts.                                                           *)
(***************************************************************************)
EXTENDS MCStorage, SequenceTheorems, TLAPS

(* The two caches of a host. *)

Entries == [kind : {"none", "pos", "neg"}, ips : Nat, freshUntil : Nat, lastFailure : Nat]
Flights == [stage : {"none", "begin", "records", "query"}, start : Nat, entry : Entries, late : BOOLEAN]

Verdicts == {"", "heeded", "ignored"}

CacheType ==
  /\ extended \in BOOLEAN /\ entry \in Entries /\ flight \in Flights /\ now \in Nat
  /\ pc \in [Callers -> {"idle", "ancestors", "do", "wait", "ret"}]
  /\ answer \in [Callers -> Nat] /\ early \subseteq Callers /\ denied \in Verdicts

Longest == IF TTL > RecordTTL THEN TTL ELSE RecordTTL

(* The addresses of an entry were fresh for the longest TTL at most. *)
Young(e) == e.ips # 0 => e.kind = "pos" /\ e.freshUntil <= e.ips + Longest

Asking == flight.stage \in {"records", "query"}

(* What the cache holds or returns is recent. *)
Recent ==
  /\ Young(entry) /\ Young(flight.entry)
  /\ flight.start <= now
  /\ Asking /\ InReserve => now <= flight.start + ClientTimeout
  /\ \A t \in Callers : pc[t] # "ret" => answer[t] = 0
  /\ AnswersAreRecent

(* A shared lookup holds the entry it found, or the purge has taken it; one *)
(* that could bring back the addresses of a name that was denied does not   *)
(* hold them.                                                               *)
Gone ==
  /\ Asking => entry \in {flight.entry, NoEntry}
  /\ denied = "heeded" => ~Stale(entry, now) /\ (Asking => ~InReserve)

(* Who is about to ask upstream has not seen a failure that forbids it,     *)
(* unless it was noted after the look.                                      *)
Rechecks ==
  /\ \A t \in Callers : pc[t] \in {"ancestors", "do"} /\ t \notin early => ~InRecheck(entry, now)
  /\ flight.stage = "begin" /\ ~flight.late => ~InRecheck(entry, now)
  /\ RecheckKept

CacheInv == CacheType /\ Recent /\ Gone /\ Rechecks

(* The durations are at least 1. *)
LEMMA Durations ==
  /\ {TTL, NegativeTTL, MaxStale, ClientTimeout, RecordTTL, Recheck} \subseteq Nat \ {0}
  /\ {Longest, MaxAge} \subseteq Nat \ {0} /\ TTL <= Longest /\ RecordTTL <= Longest
  /\ MaxAge = Longest + MaxStale + ClientTimeout
  BY DurationsAssumption DEF Longest, MaxAge

(* An entry that may be served stale could be before. *)
LEMMA StaleEnds ==
  ASSUME NEW e \in Entries, NEW m \in Nat, NEW n \in Nat, m <= n, Stale(e, n)
  PROVE  Stale(e, m)
  BY Durations DEF Stale, StaleUntil, Entries

(* An entry that may be served holds addresses that are recent. *)
LEMMA ServedIsRecent ==
  ASSUME NEW e \in Entries, Young(e), NEW n \in Nat, e.ips # 0
  PROVE  /\ Fresh(e, n) \/ InRecheck(e, n) => n - e.ips < MaxAge
         /\ \A k \in Nat : Stale(e, n) /\ k <= n + ClientTimeout => k - e.ips < MaxAge
  <1>1. e.ips \in Nat /\ e.freshUntil \in Nat /\ e.lastFailure \in Nat /\ e.kind = "pos" /\ e.freshUntil <= e.ips + Longest
    BY DEF Entries, Young
  <1>2. Stale(e, n) => n < e.ips + Longest + MaxStale
    BY <1>1, Durations DEF Stale, StaleUntil
  <1>3. Fresh(e, n) => n < e.ips + Longest
    BY <1>1, Durations DEF Fresh
  <1> QED
    BY <1>1, <1>2, <1>3, Durations DEF InRecheck

(* A failure recheck window does not open again by itself. *)
LEMMA WindowCloses ==
  ASSUME NEW e \in Entries, NEW n \in Nat, ~InRecheck(e, n)
  PROVE  ~InRecheck(e, n + 1)
  <1>1. e.freshUntil \in Nat /\ e.lastFailure \in Nat
    BY DEF Entries
  <1> QED
    BY <1>1, Durations DEF InRecheck, Stale, StaleUntil

(* The entries that the lookups store. *)
LEMMA NewEntries ==
  /\ NoEntry \in Entries /\ NoEntry.kind = "none" /\ NoEntry.ips = 0 /\ NoEntry.lastFailure = 0
  /\ \A ips \in Nat, until \in Nat :
       LET e == Positive(ips, until)
       IN e \in Entries /\ e.kind = "pos" /\ e.ips = ips /\ e.freshUntil = until /\ e.lastFailure = 0
  <1>1. NoEntry \in Entries /\ NoEntry.kind = "none" /\ NoEntry.ips = 0 /\ NoEntry.lastFailure = 0
    BY DEF NoEntry, Entries
  <1>2. ASSUME NEW ips \in Nat, NEW until \in Nat
        PROVE  LET e == Positive(ips, until)
               IN e \in Entries /\ e.kind = "pos" /\ e.ips = ips /\ e.freshUntil = until /\ e.lastFailure = 0
    BY DEF Positive, Entries
  <1> QED
    BY <1>1, <1>2

(* A caller looks up the host. *)
LEMMA LookupInv ==
  ASSUME CacheInv, NEW t \in Callers, Lookup(t)
  PROVE  CacheInv'
  <1>1. UNCHANGED <<extended, entry, flight, now, doomed, early, denied>> /\ pc[t] = "idle"
    BY DEF Lookup
  <1>2. CacheType /\ Recent /\ Gone /\ Rechecks
    BY DEF CacheInv
  <1>3. CASE Fresh(entry, now) \/ InRecheck(entry, now)
    <2>1. pc' = [pc EXCEPT ![t] = "ret"] /\ answer' = [answer EXCEPT ![t] = entry.ips]
      BY <1>3 DEF Lookup
    <2>2. entry.ips \in Nat /\ (entry.ips # 0 => now - entry.ips < MaxAge)
      BY <1>2, <1>3, ServedIsRecent DEF CacheType, Recent, Entries
    <2>3. CacheType'
      BY <1>1, <1>2, <2>1, <2>2 DEF CacheType
    <2>4. Recent'
      BY <1>1, <1>2, <2>1, <2>2 DEF CacheType, Recent, AnswersAreRecent, InReserve, Asking
    <2>5. Gone' /\ Rechecks'
      BY <1>1, <1>2, <2>1 DEF CacheType, Gone, Rechecks, RecheckKept, InReserve, Asking
    <2> QED
      BY <2>3, <2>4, <2>5 DEF CacheInv
  <1>4. CASE ~(Fresh(entry, now) \/ InRecheck(entry, now))
    <2>1. pc' = [pc EXCEPT ![t] = "ancestors"] /\ answer' = answer
      BY <1>4 DEF Lookup
    <2>2. CacheType'
      BY <1>1, <1>2, <2>1 DEF CacheType
    <2>3. Recent'
      BY <1>1, <1>2, <2>1 DEF CacheType, Recent, AnswersAreRecent, InReserve, Asking
    <2>4. Gone' /\ Rechecks'
      BY <1>1, <1>2, <1>4, <2>1 DEF CacheType, Gone, Rechecks, RecheckKept, InReserve, Asking
    <2> QED
      BY <2>2, <2>3, <2>4 DEF CacheInv
  <1> QED
    BY <1>3, <1>4

(* A caller meets an ancestor's NXDOMAIN, joins the shared lookup, gives up  *)
(* waiting or goes on with its answer.                                       *)
LEMMA CallerInv ==
  ASSUME CacheInv, NEW t \in Callers, CheckAncestors(t) \/ Do(t) \/ WaitCancelled(t) \/ Return(t)
  PROVE  CacheInv'
  <1>1. CacheType /\ Recent /\ Gone /\ Rechecks
    BY DEF CacheInv
  <1>2. CASE CheckAncestors(t) \/ WaitCancelled(t) \/ Return(t)
    <2>1. /\ UNCHANGED <<extended, entry, flight, now, early, denied>>
          /\ answer' \in [Callers -> Nat]
          /\ \A u \in Callers : answer'[u] = answer[u] \/ answer'[u] = 0
          /\ \A u \in Callers : pc'[u] # "ret" => answer'[u] = 0
          /\ \A u \in Callers : pc'[u] = "ret" => answer'[u] = 0 \/ (pc[u] = "ret" /\ answer'[u] = answer[u])
      BY <1>1, <1>2 DEF CheckAncestors, WaitCancelled, Return, CacheType, Recent
    <2>2. /\ pc' \in [Callers -> {"idle", "ancestors", "do", "wait", "ret"}]
          /\ \A u \in Callers : pc'[u] \in {"ancestors", "do"} => pc[u] \in {"ancestors", "do"}
      BY <1>1, <1>2 DEF CheckAncestors, WaitCancelled, Return, CacheType
    <2>3. CacheType'
      BY <1>1, <2>1, <2>2 DEF CacheType
    <2>4. Recent'
      BY <1>1, <2>1 DEF Recent, AnswersAreRecent, InReserve, Asking
    <2>5. Gone' /\ Rechecks'
      BY <1>1, <2>1, <2>2 DEF Gone, Rechecks, RecheckKept, InReserve, Asking
    <2> QED
      BY <2>3, <2>4, <2>5 DEF CacheInv
  <1>3. CASE Do(t)
    <2> DEFINE new == [stage |-> "begin", start |-> 0, entry |-> NoEntry, late |-> t \in early]
    <2>1. /\ UNCHANGED <<extended, entry, now, answer, denied>> /\ pc[t] = "do"
          /\ pc' = [pc EXCEPT ![t] = "wait"] /\ early' = early \ {t}
          /\ flight' = flight \/ flight' = new
      BY <1>3 DEF Do
    <2>2. /\ new.stage = "begin" /\ new.start = 0 /\ new.entry = NoEntry /\ (new.late <=> t \in early)
          /\ new \in Flights
      <3>1. (t \in early) \in BOOLEAN
        OBVIOUS
      <3> QED
        BY <3>1, NewEntries DEF Flights
    <2> HIDE DEF new
    <2>3. CacheType'
      BY <1>1, <2>1, <2>2 DEF CacheType
    <2>4. Young(flight'.entry)
      BY <1>1, <2>1, <2>2, NewEntries DEF Recent, Young
    <2>5. Recent'
      <3>1. flight'.start <= now'
        BY <1>1, <2>1, <2>2 DEF Recent, CacheType
      <3>2. Asking' /\ InReserve' => now' <= flight'.start + ClientTimeout
        BY <1>1, <2>1, <2>2 DEF Recent, InReserve, Asking
      <3>3. \A u \in Callers : (pc'[u] # "ret" => answer'[u] = 0) /\ (pc'[u] = "ret" => pc[u] = "ret")
        BY <1>1, <2>1 DEF Recent, CacheType
      <3> QED
        BY <1>1, <2>1, <2>4, <3>1, <3>2, <3>3 DEF Recent, AnswersAreRecent
    <2>6. Gone'
      BY <1>1, <2>1, <2>2 DEF Gone, Asking, InReserve
    <2>7. Rechecks'
      <3>1. \A u \in Callers : pc'[u] \in {"ancestors", "do"} /\ u \notin early' => ~InRecheck(entry, now)
        BY <1>1, <2>1 DEF Rechecks, CacheType
      <3>2. flight'.stage = "begin" /\ ~flight'.late => ~InRecheck(entry, now)
        BY <1>1, <2>1, <2>2 DEF Rechecks
      <3>3. RecheckKept'
        BY <1>1, <2>1, <2>2 DEF Rechecks, RecheckKept, InReserve
      <3> QED
        BY <2>1, <3>1, <3>2, <3>3 DEF Rechecks
    <2> QED
      BY <2>3, <2>5, <2>6, <2>7 DEF CacheInv
  <1> QED
    BY <1>2, <1>3

(* What the shared lookup leaves when it returns ips to those who wait:      *)
(* it is recent, and so is the entry it stores.                              *)
LEMMA SettleInv ==
  ASSUME CacheInv, NEW ips \in Nat, Settle(ips), ips # 0 => now - ips < MaxAge,
         entry' \in Entries, Young(entry'), denied' \in Verdicts, denied' = "heeded" => ~Stale(entry', now),
         early' \in SUBSET Callers,
         \A t \in Callers : pc[t] \in {"ancestors", "do"} /\ t \notin early' => ~InRecheck(entry', now)
  PROVE  CacheInv'
  <1>1. CacheType /\ Recent /\ Gone /\ Rechecks
    BY DEF CacheInv
  <1>2. /\ flight' = NoFlight /\ UNCHANGED <<extended, now>>
        /\ pc' = [t \in Callers |-> IF pc[t] = "wait" THEN "ret" ELSE pc[t]]
        /\ answer' = [t \in Callers |-> IF pc[t] = "wait" THEN ips ELSE answer[t]]
    BY DEF Settle
  <1>3. /\ NoFlight \in Flights /\ NoFlight.stage = "none" /\ NoFlight.start = 0
        /\ NoFlight.entry = NoEntry /\ Young(NoEntry)
    BY NewEntries DEF NoFlight, Flights, Young
  <1>4. /\ pc' \in [Callers -> {"idle", "ancestors", "do", "wait", "ret"}] /\ answer' \in [Callers -> Nat]
        /\ \A t \in Callers : pc'[t] # "ret" => answer'[t] = 0
        /\ \A t \in Callers : pc'[t] = "ret" => answer'[t] = ips \/ (pc[t] = "ret" /\ answer'[t] = answer[t])
        /\ \A t \in Callers : pc'[t] \in {"ancestors", "do"} => pc[t] \in {"ancestors", "do"}
    BY <1>1, <1>2 DEF CacheType, Recent
  <1>5. CacheType'
    BY <1>1, <1>2, <1>3, <1>4 DEF CacheType
  <1>6. Recent'
    <2>1. AnswersAreRecent'
      BY <1>1, <1>2, <1>4 DEF Recent, AnswersAreRecent
    <2>2. flight'.start <= now' /\ ~Asking'
      BY <1>1, <1>2, <1>3 DEF CacheType, Asking
    <2>3. Young(flight'.entry)
      BY <1>2, <1>3
    <2> QED
      BY <1>4, <2>1, <2>2, <2>3 DEF Recent
  <1>7. Gone'
    <2>1. ~Asking' /\ (denied' = "heeded" => ~Stale(entry', now'))
      BY <1>2, <1>3 DEF Asking
    <2> QED
      BY <2>1 DEF Gone
  <1>8. Rechecks'
    BY <1>2, <1>3, <1>4 DEF Rechecks, RecheckKept
  <1> QED
    BY <1>5, <1>6, <1>7, <1>8 DEF CacheInv

(* The lookup is answered from the cache, by an ancestor's NXDOMAIN, by      *)
(* upstream, or from the stale entry it holds in reserve.                    *)
LEMMA SettledInv ==
  ASSUME CacheInv,
         \/ FlightHit \/ FlightCut \/ RecordsAnswered \/ QueryDenied
         \/ \E ips \in {0, now} : QueryAnswered(ips)
         \/ Asking /\ ServeStale /\ denied' \in {denied, "ignored"}
         \/ QueryFailed
  PROVE  CacheInv'
  <1>1. CacheType /\ Recent /\ Gone /\ Rechecks
    BY DEF CacheInv
  <1>2. /\ entry \in Entries /\ flight.entry \in Entries /\ flight.start \in Nat /\ now \in Nat
        /\ flight.start <= now /\ early \subseteq Callers /\ denied \in Verdicts
    BY <1>1 DEF CacheType, Flights, Recent
  <1>3. CASE FlightHit
    <2>1. Fresh(entry, now) /\ Settle(entry.ips) /\ UNCHANGED <<entry, early, denied>>
      BY <1>3 DEF FlightHit
    <2>2. entry.ips \in Nat /\ (entry.ips # 0 => now - entry.ips < MaxAge)
      BY <1>1, <1>2, <2>1, ServedIsRecent DEF Recent, Entries
    <2>3. Young(entry) /\ (denied = "heeded" => ~Stale(entry, now))
      BY <1>1 DEF Recent, Gone
    <2>4. \A t \in Callers : pc[t] \in {"ancestors", "do"} /\ t \notin early => ~InRecheck(entry, now)
      BY <1>1 DEF Rechecks
    <2> QED
      BY <1>2, <2>1, <2>2, <2>3, <2>4, SettleInv
  <1>4. CASE FlightCut \/ (Settle(0) /\ UNCHANGED <<entry, early, denied>>)
    <2>1. Settle(0) /\ UNCHANGED <<entry, early, denied>>
      BY <1>4 DEF FlightCut
    <2>2. Young(entry) /\ (denied = "heeded" => ~Stale(entry, now))
      BY <1>1 DEF Recent, Gone
    <2>3. \A t \in Callers : pc[t] \in {"ancestors", "do"} /\ t \notin early => ~InRecheck(entry, now)
      BY <1>1 DEF Rechecks
    <2> QED
      BY <1>2, <2>1, <2>2, <2>3, SettleInv
  <1>5. ASSUME NEW ips \in {0, now}, NEW until \in Nat, until <= now + Longest, entry' = Positive(ips, until),
               denied' = "", Settle(ips), UNCHANGED early
        PROVE  CacheInv'
    <2>1. ips \in Nat /\ (ips # 0 => now - ips < MaxAge)
      BY <1>2, Durations
    <2>2. entry' \in Entries /\ entry'.ips = ips /\ entry'.kind = "pos" /\ entry'.freshUntil = until
          /\ entry'.lastFailure = 0
      BY <1>5, <2>1, NewEntries
    <2>3. Young(entry')
      BY <1>2, <1>5, <2>2 DEF Young
    <2>4. ~InRecheck(entry', now) /\ denied' \in Verdicts /\ denied' # "heeded"
      BY <1>5, <2>2 DEF InRecheck, Verdicts
    <2> QED
      BY <1>2, <1>5, <2>1, <2>2, <2>3, <2>4, SettleInv
  <1>6. CASE RecordsAnswered
    <2>1. now + RecordTTL \in Nat /\ now + RecordTTL <= now + Longest
      BY <1>2, Durations
    <2> QED
      BY <1>5, <1>6, <2>1 DEF RecordsAnswered
  <1>7. ASSUME NEW ips \in {0, now}, QueryAnswered(ips) PROVE CacheInv'
    <2>1. flight.start + TTL \in Nat /\ flight.start + TTL <= now + Longest
      BY <1>2, Durations
    <2> QED
      BY <1>5, <1>7, <2>1 DEF QueryAnswered
  <1>8. CASE QueryDenied
    <2>1. entry' = Negative /\ denied' = "heeded" /\ Settle(0) /\ UNCHANGED early
      BY <1>8 DEF QueryDenied
    <2>2. entry' \in Entries /\ entry'.kind = "neg" /\ entry'.ips = 0 /\ entry'.lastFailure = 0
      BY <1>2, <2>1, Durations DEF Negative, Entries
    <2>3. Young(entry') /\ ~InRecheck(entry', now) /\ ~Stale(entry', now) /\ denied' \in Verdicts
      BY <2>1, <2>2 DEF Young, InRecheck, Stale, Verdicts
    <2> QED
      BY <1>2, <2>1, <2>2, <2>3, SettleInv
  <1>9. CASE Asking /\ ServeStale /\ denied' \in {denied, "ignored"}
    <2> DEFINE e == flight.entry
    <2>1. /\ Stale(e, flight.start) /\ entry' = [e EXCEPT !.lastFailure = flight.start]
          /\ early' = early \cup {t \in Callers : pc[t] \in {"ancestors", "do"}} /\ Settle(e.ips)
      BY <1>9 DEF ServeStale, InReserve, FailureNoted
    <2>2. e \in Entries /\ Young(e) /\ e.kind = "pos" /\ denied # "heeded" /\ now <= flight.start + ClientTimeout
      BY <1>1, <1>2, <1>9, <2>1 DEF Recent, Gone, InReserve, Stale
    <2>6. denied' \in Verdicts /\ denied' # "heeded"
      BY <1>2, <1>9, <2>2 DEF Verdicts
    <2> HIDE DEF e
    <2>3. e.ips \in Nat /\ (e.ips # 0 => now - e.ips < MaxAge)
      BY <1>2, <2>1, <2>2, ServedIsRecent DEF Entries
    <2>4. entry' \in Entries /\ entry'.ips = e.ips /\ entry'.kind = "pos" /\ entry'.freshUntil = e.freshUntil
      BY <1>2, <2>1, <2>2 DEF Entries
    <2>5. Young(entry')
      BY <2>2, <2>4 DEF Young
    <2> QED
      BY <1>2, <2>6, <2>1, <2>2, <2>3, <2>4, <2>5, SettleInv
  <1>10. CASE QueryFailed
    <2>1. Asking
      BY <1>10 DEF QueryFailed, Asking
    <2> QED
      BY <1>4, <1>9, <1>10, <2>1 DEF QueryFailed
  <1> QED
    BY <1>3, <1>4, <1>6, <1>7, <1>8, <1>9, <1>10

(* The lookup asks upstream, or asks it again without records. *)
LEMMA AskingInv ==
  ASSUME CacheInv, FlightQuery \/ \E why \in {"empty", "error", "denied"} : RecordsFailed(why)
  PROVE  CacheInv'
  <1>1. CacheType /\ Recent /\ Gone /\ Rechecks
    BY DEF CacheInv
  <1>2. entry \in Entries /\ flight \in Flights /\ flight.entry \in Entries /\ now \in Nat /\ flight.late \in BOOLEAN
    BY <1>1 DEF CacheType, Flights
  <1>3. CASE FlightQuery
    <2> DEFINE new == [stage |-> IF extended THEN "records" ELSE "query",
                       start |-> now, entry |-> entry, late |-> flight.late]
    <2>1. /\ flight.stage = "begin" /\ flight' = new /\ UNCHANGED <<extended, entry, now, pc, answer, early, denied>>
      BY <1>3 DEF FlightQuery
    <2>2. /\ new.stage \in {"records", "query"} /\ new.start = now /\ new.entry = entry /\ new.late = flight.late
          /\ new \in Flights
      BY <1>2 DEF Flights
    <2> HIDE DEF new
    <2>3. CacheType'
      BY <1>1, <2>1, <2>2 DEF CacheType
    <2>4. Recent'
      BY <1>1, <1>2, <2>1, <2>2, Durations DEF Recent, AnswersAreRecent
    <2>5. Gone'
      BY <1>1, <2>1, <2>2 DEF Gone, InReserve
    <2>6. RecheckKept'
      <3>1. ~flight.late => ~InRecheck(entry, now)
        BY <1>1, <2>1 DEF Rechecks
      <3>2. entry.lastFailure \in Nat
        BY <1>2 DEF Entries
      <3>3. ~flight.late /\ Stale(entry, now) /\ entry.lastFailure # 0 => now - entry.lastFailure >= Recheck
        BY <1>2, <3>1, <3>2, Durations DEF InRecheck
      <3> QED
        BY <2>1, <2>2, <3>3 DEF RecheckKept, InReserve
    <2>7. Rechecks'
      BY <1>1, <2>1, <2>2, <2>6 DEF Rechecks
    <2> QED
      BY <2>3, <2>4, <2>5, <2>7 DEF CacheInv
  <1>4. ASSUME NEW why \in {"empty", "error", "denied"}, RecordsFailed(why) PROVE CacheInv'
    <2>1. CASE ServeStale
      <3>1. Asking /\ denied' \in {denied, "ignored"}
        BY <1>4, <2>1 DEF RecordsFailed, Asking, ServeStale
      <3> QED
        BY <2>1, <3>1, SettledInv
    <2>2. CASE ~ServeStale
      <3>1. /\ flight.stage = "records" /\ flight' = [flight EXCEPT !.stage = "query"]
            /\ UNCHANGED <<extended, entry, now, pc, answer, early>>
            /\ denied' = denied \/ (denied' = "heeded" /\ ~InReserve) \/ denied' = "ignored"
        BY <1>4, <2>2 DEF RecordsFailed
      <3>2. /\ flight'.stage = "query" /\ flight'.start = flight.start /\ flight'.entry = flight.entry
            /\ flight'.late = flight.late /\ flight' \in Flights
        BY <1>2, <3>1 DEF Flights
      <3>3. CacheType'
        BY <1>1, <3>1, <3>2 DEF CacheType, Verdicts
      <3>4. Gone'
        <4>1. Asking /\ entry \in {flight.entry, NoEntry} /\ flight.start <= now /\ flight.start \in Nat
          BY <1>1, <3>1 DEF Gone, Asking, Recent, CacheType, Flights
        <4>2. ~InReserve => ~Stale(entry, now)
          <5>1. ~Stale(NoEntry, now)
            BY NewEntries DEF Stale
          <5>2. Stale(flight.entry, now) => Stale(flight.entry, flight.start)
            BY <1>2, <4>1, StaleEnds
          <5> QED
            BY <4>1, <5>1, <5>2 DEF InReserve
        <4>3. Asking' /\ entry' \in {flight'.entry, NoEntry} /\ (InReserve' <=> InReserve)
          BY <3>1, <3>2, <4>1 DEF Asking, InReserve
        <4>4. denied' = "heeded" => ~InReserve /\ ~Stale(entry', now')
          BY <1>1, <3>1, <4>1, <4>2 DEF Gone
        <4> QED
          BY <4>3, <4>4 DEF Gone
      <3>5. Recent'
        BY <1>1, <3>1, <3>2 DEF Recent, AnswersAreRecent, Asking, InReserve
      <3>6. Rechecks'
        BY <1>1, <3>1, <3>2 DEF Rechecks, RecheckKept, InReserve
      <3> QED
        BY <3>3, <3>4, <3>5, <3>6 DEF CacheInv
    <2> QED
      BY <2>1, <2>2
  <1> QED
    BY <1>3, <1>4

(* The purge looks, and deletes what is there when it comes to it. *)
LEMMA PurgeInv ==
  ASSUME CacheInv, PurgeSees \/ PurgeDeletes
  PROVE  CacheInv'
  <1>1. CacheType /\ Recent /\ Gone /\ Rechecks
    BY DEF CacheInv
  <1>2. /\ UNCHANGED <<extended, flight, now, pc, answer, early, denied>>
        /\ entry' = entry \/ entry' = NoEntry
    BY DEF PurgeSees, PurgeDeletes
  <1>3. entry' \in Entries /\ Young(entry') /\ (Stale(entry', now) => Stale(entry, now))
    BY <1>1, <1>2, NewEntries DEF CacheType, Recent, Young, Stale
  <1>4. InRecheck(entry', now) => InRecheck(entry, now)
    BY <1>2, NewEntries DEF InRecheck
  <1>5. CacheType' /\ Gone'
    BY <1>1, <1>2, <1>3 DEF CacheType, Gone, Asking, InReserve
  <1>6. Recent'
    BY <1>1, <1>2, <1>3 DEF Recent, AnswersAreRecent, Asking, InReserve
  <1>7. Rechecks'
    BY <1>1, <1>2, <1>4 DEF Rechecks, RecheckKept, InReserve
  <1> QED
    BY <1>5, <1>6, <1>7 DEF CacheInv

(* The clock advances. *)
LEMMA CacheTickInv ==
  ASSUME CacheInv, CacheTick
  PROVE  CacheInv'
  <1>1. CacheType /\ Recent /\ Gone /\ Rechecks
    BY DEF CacheInv
  <1>2. /\ now' = now + 1 /\ UNCHANGED <<extended, entry, flight, pc, answer, early, denied>>
        /\ Asking /\ InReserve => now < flight.start + ClientTimeout
        /\ \A t \in Callers : pc[t] # "ret"
    BY DEF CacheTick, Asking
  <1>3. now \in Nat /\ entry \in Entries /\ flight.start \in Nat
    BY <1>1 DEF CacheType, Flights
  <1>4. CacheType' /\ Gone'
    <2>1. Stale(entry, now + 1) => Stale(entry, now)
      BY <1>3, StaleEnds
    <2> QED
      BY <1>1, <1>2, <1>3, <2>1 DEF CacheType, Gone, Asking, InReserve
  <1>5. Recent'
    BY <1>1, <1>2, <1>3, Durations DEF Recent, AnswersAreRecent, Asking, InReserve
  <1>6. ~InRecheck(entry, now) => ~InRecheck(entry, now + 1)
    BY <1>3, WindowCloses
  <1>7. Rechecks'
    BY <1>1, <1>2, <1>6 DEF Rechecks, RecheckKept, InReserve
  <1> QED
    BY <1>4, <1>5, <1>7 DEF CacheInv

(* In the beginning the cache is empty. *)
LEMMA CacheInitInv ==
  ASSUME CacheInit
  PROVE  CacheInv
  <1>1. /\ NoFlight \in Flights /\ NoFlight.stage = "none" /\ NoFlight.start = 0 /\ NoFlight.entry = NoEntry
        /\ NoFlight.late = FALSE
    BY NewEntries DEF NoFlight, Flights
  <1>2. CacheType
    <2>1. now \in Nat /\ extended \in BOOLEAN
      <3>1. MaxTime \in Nat
        BY DurationsAssumption
      <3>2. now \in 1 .. MaxTime /\ extended \in BOOLEAN
        BY DEF CacheInit
      <3> QED
        BY <3>1, <3>2
    <2>2. entry \in Entries /\ flight \in Flights /\ denied \in Verdicts /\ early \subseteq Callers
      BY <1>1, NewEntries DEF CacheInit, Verdicts
    <2>3. pc \in [Callers -> {"idle", "ancestors", "do", "wait", "ret"}] /\ answer \in [Callers -> Nat]
      BY DEF CacheInit
    <2> QED
      BY <2>1, <2>2, <2>3 DEF CacheType
  <1>3. Recent
    <2>1. entry = NoEntry /\ flight = NoFlight /\ \A t \in Callers : pc[t] = "idle" /\ answer[t] = 0
      BY DEF CacheInit
    <2> QED
      BY <1>1, <1>2, <2>1, NewEntries DEF CacheType, Recent, Young, Asking, AnswersAreRecent
  <1>4. Gone /\ Rechecks
    BY <1>1 DEF CacheInit, Gone, Asking, Rechecks, RecheckKept
  <1> QED
    BY <1>2, <1>3, <1>4 DEF CacheInv

(* The cache at rest. *)
LEMMA CacheSame ==
  ASSUME CacheInv, UNCHANGED cacheVars
  PROVE  CacheInv'
  <1>1. CacheType /\ Recent /\ Gone /\ Rechecks
    BY DEF CacheInv
  <1>2. CacheType' /\ Gone'
    BY <1>1 DEF CacheType, Gone, Asking, InReserve, cacheVars
  <1>3. Recent'
    BY <1>1 DEF Recent, AnswersAreRecent, Asking, InReserve, cacheVars
  <1>4. Rechecks'
    BY <1>1 DEF Rechecks, RecheckKept, InReserve, cacheVars
  <1> QED
    BY <1>2, <1>3, <1>4 DEF CacheInv

(* The addresses in the resolver's record, and those a delayed lookup holds, *)
(* were recent when the resolver stored them.                                *)
ResolverInv ==
  /\ CacheInv
  /\ staleDelay \in Nat /\ stage \in [Callers -> {"idle", "start", "delayed", "fetch", "refresh"}]
  /\ record \in [addrs : Nat, expiresAt : Nat] /\ saved \in [Lookups -> [addrs : Nat, since : Nat]]
  /\ record # NoRecord => record.expiresAt < record.addrs + MaxAge + DefaultTTL
  /\ \A l \in Lookups : stage[l] = "delayed" =>
       /\ saved[l].since < saved[l].addrs + MaxAge + DefaultTTL + MaxExpired
       /\ now <= saved[l].since + staleDelay

(* In the beginning the resolver has no record. *)
LEMMA ResolverInit ==
  ASSUME Init
  PROVE  ResolverInv
  <1>1. CacheInv
    BY CacheInitInv DEF Init
  <1>2. NoRecord \in [addrs : Nat, expiresAt : Nat] /\ NotSaved \in [addrs : Nat, since : Nat]
    BY DEF NoRecord, NotSaved
  <1> QED
    BY <1>1, <1>2, StaleAssumption, CallersAssumption DEF Init, ResolverInv

(* The resolver stores what the cache returned. *)
LEMMA StoredIsRecent ==
  ASSUME ResolverInv, NEW t \in Callers, pc[t] = "ret", answer[t] # 0, Store(answer[t])
  PROVE  /\ record' \in [addrs : Nat, expiresAt : Nat]
         /\ record'.expiresAt < record'.addrs + MaxAge + DefaultTTL
  <1>1. now - answer[t] < MaxAge /\ now \in Nat /\ answer[t] \in Nat
    BY DEF ResolverInv, CacheInv, CacheType, Recent, AnswersAreRecent
  <1>2. record' = [addrs |-> answer[t], expiresAt |-> now + DefaultTTL] /\ DefaultTTL \in Nat
    BY StaleAssumption DEF Store
  <1> QED
    BY <1>1, <1>2, Durations

(* Every step of the lookups, the background refresh, the cache, the purge   *)
(* and the clock.                                                            *)
LEMMA ResolverStep ==
  ASSUME ResolverInv, [Next]_vars
  PROVE  ResolverInv'
  <1> DEFINE Records == [addrs : Nat, expiresAt : Nat]
             Stages == {"idle", "start", "delayed", "fetch", "refresh"}
  <1>1. /\ CacheInv /\ staleDelay \in Nat /\ stage \in [Callers -> Stages]
        /\ record \in Records /\ saved \in [Lookups -> [addrs : Nat, since : Nat]]
        /\ record # NoRecord => record.expiresAt < record.addrs + MaxAge + DefaultTTL
        /\ \A l \in Lookups : stage[l] = "delayed" =>
             /\ saved[l].since < saved[l].addrs + MaxAge + DefaultTTL + MaxExpired
             /\ now <= saved[l].since + staleDelay
    BY DEF ResolverInv
  <1>2. Refresher \in Callers /\ Lookups \subseteq Callers /\ Refresher \notin Lookups
    BY CallersAssumption
  <1>3. now \in Nat /\ {DefaultTTL, MaxExpired, MaxAge} \subseteq Nat \ {0}
    BY <1>1, StaleAssumption, Durations DEF CacheInv, CacheType
  (* What has to be shown of a step that leaves the clock and the delays alone. *)
  <1>4. ASSUME CacheInv', UNCHANGED <<now, staleDelay, saved>>, stage' \in [Callers -> Stages], record' \in Records,
               record' # NoRecord => record'.expiresAt < record'.addrs + MaxAge + DefaultTTL,
               \A l \in Lookups : stage'[l] = "delayed" => stage[l] = "delayed"
        PROVE  ResolverInv'
    BY <1>1, <1>4 DEF ResolverInv
  <1>5. ASSUME NEW s \in [Callers -> Stages]
        PROVE  Triggered(s) \in [Callers -> Stages] /\ \A l \in Lookups : Triggered(s)[l] = s[l]
    BY <1>2, <1>5 DEF Triggered
  <1>6. ASSUME NEW l \in Lookups, ServeExpired(l) PROVE ResolverInv'
    <2>1. stage' = Triggered(stage) /\ UNCHANGED <<cacheVars, staleDelay, record, saved>>
      BY <1>6 DEF ServeExpired
    <2>2. CacheInv' /\ now' = now
      BY <1>1, <2>1, CacheSame DEF cacheVars
    <2> QED
      BY <1>1, <1>4, <1>5, <2>1, <2>2
  <1>7. ASSUME NEW l \in Lookups, LookUpDelayed(l) PROVE ResolverInv'
    <2>1. /\ Expired /\ Lookup(l) /\ UNCHANGED <<staleDelay, record, inflight>>
          /\ stage' = [stage EXCEPT ![l] = "delayed"]
          /\ saved' = [saved EXCEPT ![l] = [addrs |-> record.addrs, since |-> now]]
      BY <1>7 DEF LookUpDelayed
    <2>2. CacheInv' /\ now' = now
      BY <1>1, <1>2, <2>1, LookupInv DEF Lookup
    <2>3. /\ stage' \in [Callers -> Stages] /\ saved' \in [Lookups -> [addrs : Nat, since : Nat]]
          /\ saved'[l].addrs = record.addrs /\ saved'[l].since = now
          /\ \A m \in Lookups : m # l => stage'[m] = stage[m] /\ saved'[m] = saved[m]
      BY <1>1, <1>2, <1>3, <2>1
    <2>4. now < record.addrs + MaxAge + DefaultTTL + MaxExpired
      BY <1>1, <1>3, <2>1 DEF Expired, IsUsableStale
    <2>5. \A m \in Lookups : stage'[m] = "delayed" =>
            /\ saved'[m].since < saved'[m].addrs + MaxAge + DefaultTTL + MaxExpired
            /\ now' <= saved'[m].since + staleDelay'
      BY <1>1, <1>3, <2>1, <2>2, <2>3, <2>4
    <2> QED
      BY <1>1, <2>1, <2>2, <2>3, <2>5 DEF ResolverInv
  <1>8. ASSUME NEW l \in Lookups, EndDelayed(l) PROVE ResolverInv'
    <2> DEFINE s == [stage EXCEPT ![l] = "idle"]
    <2>1. /\ Return(l) /\ UNCHANGED <<staleDelay, record>> /\ (stage' = s \/ stage' = Triggered(s))
          /\ saved' = [saved EXCEPT ![l] = NotSaved]
      BY <1>8 DEF EndDelayed
    <2>2. CacheInv' /\ now' = now
      BY <1>1, <1>2, <2>1, CallerInv DEF Return
    <2>3. s \in [Callers -> Stages] /\ s[l] = "idle" /\ \A m \in Lookups : m # l => s[m] = stage[m]
      BY <1>1, <1>2
    <2> HIDE DEF s
    <2>4. stage' \in [Callers -> Stages] /\ \A m \in Lookups : stage'[m] = s[m]
      BY <1>5, <2>1, <2>3
    <2>5. saved' \in [Lookups -> [addrs : Nat, since : Nat]] /\ \A m \in Lookups : m # l => saved'[m] = saved[m]
      BY <1>1, <2>1 DEF NotSaved
    <2>6. \A m \in Lookups : stage'[m] = "delayed" => stage[m] = "delayed" /\ saved'[m] = saved[m]
      BY <2>3, <2>4, <2>5
    <2> QED
      BY <1>1, <2>1, <2>2, <2>4, <2>5, <2>6 DEF ResolverInv
  <1>9. ASSUME NEW l \in Lookups, LookUpMissing(l) PROVE ResolverInv'
    <2>1. Lookup(l) /\ UNCHANGED <<staleDelay, record, saved>> /\ stage' = [stage EXCEPT ![l] = "fetch"]
      BY <1>9 DEF LookUpMissing
    <2>2. CacheInv' /\ now' = now
      BY <1>1, <1>2, <2>1, LookupInv DEF Lookup
    <2> QED
      BY <1>1, <1>2, <1>4, <2>1, <2>2
  <1>10. ASSUME NEW t \in Callers, Return(t), stage' = [stage EXCEPT ![t] = "idle"],
                IF answer[t] # 0 THEN Store(answer[t]) ELSE UNCHANGED record, UNCHANGED <<staleDelay, saved>>
         PROVE  ResolverInv'
    <2>1. CacheInv' /\ now' = now /\ pc[t] = "ret"
      BY <1>1, <1>10, CallerInv DEF Return
    <2>2. record' \in Records /\ (record' # NoRecord => record'.expiresAt < record'.addrs + MaxAge + DefaultTTL)
      BY <1>1, <1>10, <2>1, StoredIsRecent
    <2> QED
      BY <1>1, <1>2, <1>4, <1>10, <2>1, <2>2
  <1>11. ASSUME NEW l \in Lookups, EndFetch(l) PROVE ResolverInv'
    BY <1>2, <1>10, <1>11 DEF EndFetch
  <1>12. CASE StartRefresh
    <2>1. Lookup(Refresher) /\ UNCHANGED <<staleDelay, record, saved>> /\ stage' = [stage EXCEPT ![Refresher] = "refresh"]
      BY <1>12 DEF StartRefresh
    <2>2. CacheInv' /\ now' = now
      BY <1>1, <1>2, <2>1, LookupInv DEF Lookup
    <2> QED
      BY <1>1, <1>2, <1>4, <2>1, <2>2
  <1>13. CASE EndRefresh
    BY <1>2, <1>10, <1>13 DEF EndRefresh
  <1>14. CASE CacheStep /\ UNCHANGED staleVars
    <2>1. CacheInv'
      <3>1. CASE \E t \in Callers : CheckAncestors(t) \/ Do(t) \/ WaitCancelled(t)
        BY <1>1, <3>1, CallerInv
      <3>2. CASE FlightQuery \/ \E why \in {"empty", "error", "denied"} : RecordsFailed(why)
        BY <1>1, <3>2, AskingInv
      <3>3. CASE \/ FlightHit \/ FlightCut \/ RecordsAnswered \/ QueryDenied \/ QueryFailed
                 \/ \E ips \in {0, now} : QueryAnswered(ips)
        BY <1>1, <3>3, SettledInv
      <3>4. CASE PurgeSees \/ PurgeDeletes
        BY <1>1, <3>4, PurgeInv
      <3> QED
        BY <1>14, <3>1, <3>2, <3>3, <3>4 DEF CacheStep, FlightStep
    <2>2. now' = now
      BY <1>14 DEF CacheStep, FlightStep, CheckAncestors, Do, WaitCancelled, FlightHit, FlightCut, FlightQuery,
                   RecordsAnswered, RecordsFailed, ServeStale, QueryAnswered, QueryDenied, QueryFailed, Settle,
                   PurgeSees, PurgeDeletes
    <2> QED
      BY <1>1, <1>4, <1>14, <2>1, <2>2 DEF staleVars
  <1>15. CASE Tick
    <2>1. CacheInv' /\ now' = now + 1 /\ UNCHANGED <<staleDelay, record, stage, saved>>
      BY <1>1, <1>15, CacheTickInv DEF Tick, CacheTick, staleVars
    <2>2. \A l \in Lookups : stage[l] = "delayed" => now + 1 <= saved[l].since + staleDelay
      <3> SUFFICES ASSUME NEW l \in Lookups, stage[l] = "delayed" PROVE now + 1 <= saved[l].since + staleDelay
        OBVIOUS
      <3>1. now < saved[l].since + staleDelay /\ saved[l].since \in Nat
        BY <1>1, <1>15 DEF Tick
      <3> QED
        BY <1>1, <1>3, <3>1
    <2> QED
      BY <1>1, <2>1, <2>2 DEF ResolverInv
  <1>16. CASE UNCHANGED vars
    <2>1. CacheInv' /\ now' = now /\ UNCHANGED staleVars
      BY <1>1, <1>16, CacheSame DEF vars, cacheVars
    <2> QED
      BY <1>1, <1>4, <2>1 DEF staleVars
  <1> QED
    BY <1>6, <1>7, <1>8, <1>9, <1>11, <1>12, <1>13, <1>14, <1>15, <1>16 DEF Next

(* Whatever expires, fails or is purged while a shared lookup runs: an       *)
(* address that the cache returns is younger than MaxAge, one that the       *)
(* resolver in front of it serves is older by its own TTL, stale time and    *)
(* delay at most, and upstream is spared in the recheck window of a failure. *)
THEOREM ServedStayRecent == Spec => []ServedAreRecent
  <1>1. Init => ResolverInv
    BY ResolverInit
  <1>2. ResolverInv /\ [Next]_vars => ResolverInv'
    BY ResolverStep
  <1>3. ResolverInv => ServedAreRecent
    <2> SUFFICES ASSUME ResolverInv PROVE ServedAreRecent
      OBVIOUS
    <2>1. now \in Nat /\ {DefaultTTL, MaxExpired, MaxAge} \subseteq Nat \ {0} /\ AnswersAreRecent /\ RecheckKept
      BY StaleAssumption, Durations DEF ResolverInv, CacheInv, CacheType, Recent, Rechecks
    <2>2. record # NoRecord /\ IsUsableStale => now - record.addrs < MaxAge + DefaultTTL + MaxExpired
      BY <2>1 DEF ResolverInv, IsUsableStale
    <2>3. ASSUME NEW l \in Lookups, stage[l] = "delayed"
          PROVE  now - saved[l].addrs < MaxAge + DefaultTTL + MaxExpired + staleDelay
      <3>1. /\ saved[l].since \in Nat /\ saved[l].addrs \in Nat /\ staleDelay \in Nat
            /\ saved[l].since < saved[l].addrs + MaxAge + DefaultTTL + MaxExpired
            /\ now <= saved[l].since + staleDelay
        BY <2>3 DEF ResolverInv
      <3> QED
        BY <2>1, <3>1
    <2> QED
      BY <2>1, <2>2, <2>3 DEF ServedAreRecent
  <1> QED
    BY <1>1, <1>2, <1>3, PTL DEF Spec

(* Once upstream has denied a name, the addresses it had are not served      *)
(* again: neither a failed lookup that holds the stale entry nor the purge   *)
(* nor a late store revives them.  It says nothing of a denial that          *)
(* LookupDNSRecords brings while a stale entry is in reserve, which the      *)
(* cache takes for a failure.                                                *)
THEOREM DeniedStaysGone == Spec => []NoResurrection
  <1>1. Init => ResolverInv
    BY ResolverInit
  <1>2. ResolverInv /\ [Next]_vars => ResolverInv'
    BY ResolverStep
  <1>3. ResolverInv => NoResurrection
    BY DEF ResolverInv, CacheInv, Gone, NoResurrection
  <1> QED
    BY <1>1, <1>2, <1>3, PTL DEF Spec
-----------------------------------------------------------------------------
(* The files of a download. *)

Versions == 1 .. Len(SizeOf)

(* The first n blocks of version v. *)
First(n, v) == [i \in 1 .. n |-> <<v, i>>]

TaskType ==
  /\ current \in Versions /\ checkpoint \in [etag : Nat, bytes : Nat, there : BOOLEAN]
  /\ dpc \in {"idle", "probe", "fetch", "copy"} /\ hurt \in BOOLEAN
  /\ tag \in Nat /\ start \in Nat /\ source \in Nat /\ offset \in Nat /\ done \in Nat

(* A checkpoint that may still count has the ETag of the current version,   *)
(* and then the file holds as much of that version as it says.              *)
CheckpointHolds ==
  dpc # "copy" /\ checkpoint.there =>
    /\ checkpoint.etag <= current
    /\ checkpoint.etag = current => checkpoint.bytes <= SizeOf[current] /\ file = First(checkpoint.bytes, current)

(* Behind the probe the file holds what the GET is to continue, ...         *)
ProbeHolds ==
  dpc = "fetch" =>
    /\ tag <= current
    /\ IF start = 0 THEN file = <<>>
                     ELSE tag # NoTag /\ start <= SizeOf[tag] /\ file = First(start, tag)

(* ... and during the copy what has been read of the response, which is not *)
(* older than the probe.                                                    *)
CopyHolds ==
  dpc = "copy" =>
    /\ source \in Versions /\ tag <= source /\ source <= current
    /\ done = offset /\ offset <= SizeOf[source] /\ file = First(offset, source)

TaskInv ==
  /\ TaskType
  /\ result = "ok" => dpc = "idle"
  /\ ~hurt => /\ CheckpointHolds /\ ProbeHolds /\ CopyHolds
              /\ result = "ok" => \E v \in Versions : file = Whole(v)

JobInv ==
  /\ job = "ok" => \E v \in Versions : copy = Whole(v)
  /\ reply = "open" => job = "refused"

DownloadInv == TaskInv /\ JobInv

(* The versions and the pieces of one. *)
LEMMA Pieces ==
  /\ DOMAIN SizeOf = Versions /\ 1 \in Versions /\ \A v \in Versions : SizeOf[v] \in Nat /\ v \in Nat \ {0}
  /\ \A v : First(0, v) = <<>>
  /\ \A v : Whole(v) = First(SizeOf[v], v)
  /\ \A n \in Nat : \A v : Append(First(n, v), <<v, n + 1>>) = First(n + 1, v)
  <1>1. Len(SizeOf) \in Nat \ {0} /\ DOMAIN SizeOf = 1 .. Len(SizeOf) /\ \A v \in 1 .. Len(SizeOf) : SizeOf[v] \in Nat
    BY DownloadAssumption
  <1>2. ASSUME NEW n \in Nat, NEW v PROVE Append(First(n, v), <<v, n + 1>>) = First(n + 1, v)
    BY DEF First
  <1>3. \A v : First(0, v) = <<>>
    BY DEF First
  <1>4. \A v : Whole(v) = First(SizeOf[v], v)
    BY DEF Whole, First
  <1> QED
    BY <1>1, <1>2, <1>3, <1>4 DEF Versions

(* The resource changes: no checkpoint has the new ETag. *)
LEMMA PublishInv ==
  ASSUME TaskInv, Publish
  PROVE  TaskInv'
  <1>1. current' = current + 1 /\ current < Len(SizeOf) /\ current \in Versions
        /\ UNCHANGED <<file, checkpoint, dpc, tag, start, source, offset, done, result, hurt>>
    BY DEF Publish, TaskInv, TaskType
  <1>2. current' \in Versions
    BY <1>1, DownloadAssumption DEF Versions
  <1>3. TaskType'
    BY <1>1, <1>2 DEF TaskInv, TaskType
  <1>4. checkpoint.etag \in Nat /\ tag \in Nat /\ source \in Nat /\ current \in Nat
    BY <1>1, Pieces DEF TaskInv, TaskType
  <1>5. ~hurt => (CheckpointHolds /\ ProbeHolds /\ CopyHolds)'
    BY <1>1, <1>4 DEF TaskInv, CheckpointHolds, ProbeHolds, CopyHolds
  <1> QED
    BY <1>1, <1>3, <1>5 DEF TaskInv

(* A new execution begins, and probes. *)
LEMMA ProbeInv ==
  ASSUME TaskInv, BeginTask \/ \E found \in Probes : Probe(found)
  PROVE  TaskInv'
  <1>1. TaskType /\ current \in Nat \ {0} /\ SizeOf[current] \in Nat
        /\ checkpoint.etag \in Nat /\ checkpoint.bytes \in Nat
    BY Pieces DEF TaskInv, TaskType
  <1>2. CASE BeginTask
    <2>1. dpc = "idle" /\ dpc' = "probe" /\ result' = "none"
          /\ UNCHANGED <<current, file, checkpoint, tag, start, source, offset, done, hurt>>
      BY <1>2 DEF BeginTask
    <2>2. TaskType'
      BY <1>1, <2>1 DEF TaskType
    <2>3. ~hurt => (CheckpointHolds /\ ProbeHolds /\ CopyHolds)'
      BY <2>1 DEF TaskInv, CheckpointHolds, ProbeHolds, CopyHolds
    <2> QED
      BY <2>1, <2>2, <2>3 DEF TaskInv
  <1>3. ASSUME NEW found, Probe(found), found = "error" PROVE TaskInv'
    <2>1. dpc = "probe" /\ dpc' = "idle" /\ result' = "error"
          /\ UNCHANGED <<current, file, checkpoint, tag, start, source, offset, done, hurt>>
      BY <1>3 DEF Probe
    <2>2. TaskType'
      BY <1>1, <2>1 DEF TaskType
    <2>3. ~hurt => (CheckpointHolds /\ ProbeHolds /\ CopyHolds)'
      BY <2>1 DEF TaskInv, CheckpointHolds, ProbeHolds, CopyHolds
    <2> QED
      BY <2>1, <2>2, <2>3 DEF TaskInv
  <1>4. ASSUME NEW found, Probe(found), found # "error" PROVE TaskInv'
    <2> DEFINE etag == IF found = "etag" THEN current ELSE NoTag
               from == IF Trusts(etag) THEN checkpoint.bytes ELSE 0
    <2>1. /\ dpc = "probe" /\ dpc' = "fetch" /\ tag' = etag /\ start' = from
          /\ file' = (IF from > 0 THEN file ELSE <<>>) /\ hurt' = (hurt \/ (from > 0 /\ etag = NoTag))
          /\ UNCHANGED <<current, checkpoint, source, offset, done, result>>
      BY <1>4 DEF Probe
    <2>2. etag \in Nat /\ from \in Nat /\ etag <= current /\ (from > 0 => checkpoint.there /\ from = checkpoint.bytes)
          /\ (etag = NoTag \/ etag = current) /\ (checkpoint.there /\ etag = NoTag => from = checkpoint.bytes)
          /\ (checkpoint.there /\ checkpoint.etag = etag => from = checkpoint.bytes)
          /\ (from > 0 => etag = NoTag \/ checkpoint.etag = etag)
      BY <1>1 DEF NoTag, Trusts
    <2> HIDE DEF etag, from
    <2>3. TaskType'
      BY <1>1, <2>1, <2>2 DEF TaskType
    <2>4. ASSUME ~hurt' PROVE (CheckpointHolds /\ ProbeHolds /\ CopyHolds)'
      <3>1. ~hurt /\ (from > 0 => etag # NoTag)
        BY <1>1, <2>1, <2>4 DEF TaskType
      <3>2. CheckpointHolds
        BY <3>1 DEF TaskInv
      <3>3. from > 0 => checkpoint.etag = current /\ etag = current /\ file = First(from, current) /\ from <= SizeOf[current]
        BY <2>1, <2>2, <3>1, <3>2 DEF CheckpointHolds
      <3>4. checkpoint.there /\ checkpoint.etag = current => from = checkpoint.bytes
        BY <2>2
      <3>5. file' = First(from, current)
        BY <2>1, <2>2, <3>3, Pieces
      <3>6. CheckpointHolds'
        BY <1>1, <2>1, <3>2, <3>4, <3>5 DEF CheckpointHolds
      <3>7. ProbeHolds'
        <4>1. tag' = etag /\ start' = from /\ current' = current /\ etag <= current
          BY <2>1, <2>2
        <4>2. CASE from = 0
          <5>1. file' = <<>>
            BY <3>5, <4>2, Pieces
          <5> QED
            BY <4>1, <4>2, <5>1 DEF ProbeHolds
        <4>3. CASE from # 0
          <5>1. etag = current /\ from <= SizeOf[current] /\ etag # NoTag
            BY <2>2, <3>1, <3>3, <4>3
          <5> QED
            BY <3>5, <4>1, <4>3, <5>1 DEF ProbeHolds
        <4> QED
          BY <4>2, <4>3
      <3> QED
        BY <2>1, <3>6, <3>7 DEF CopyHolds
    <2>5. result # "ok"
      BY <2>1 DEF TaskInv
    <2> QED
      BY <2>1, <2>3, <2>4, <2>5 DEF TaskInv
  <1> QED
    BY <1>2, <1>3, <1>4

(* The answers to the GET. *)
LEMMA AnswerInv ==
  ASSUME TaskInv, AnswerPartial \/ AnswerWhole \/ AnswerUnsatisfiable \/ AnswerError \/ FetchFails
  PROVE  TaskInv'
  <1>1. TaskType /\ current \in Nat \ {0} /\ SizeOf[current] \in Nat
    BY Pieces DEF TaskInv, TaskType
  <1>2. dpc = "fetch" /\ result # "ok" /\ UNCHANGED checkpoint
    BY DEF TaskInv, AnswerPartial, AnswerWhole, AnswerUnsatisfiable, AnswerError, FetchFails
  <1>3. CASE AnswerPartial
    <2>1. /\ start > 0 /\ start < SizeOf[current] /\ tag \in {NoTag, current}
          /\ source' = current /\ offset' = start /\ done' = start /\ dpc' = "copy"
          /\ UNCHANGED <<current, file, checkpoint, tag, start, result, hurt>>
      BY <1>3 DEF AnswerPartial
    <2>2. TaskType'
      BY <1>1, <2>1 DEF TaskType
    <2>3. ASSUME ~hurt PROVE (CheckpointHolds /\ ProbeHolds /\ CopyHolds)'
      <3>1. tag = current /\ file = First(start, current)
        BY <1>1, <1>2, <2>1, <2>3 DEF TaskInv, TaskType, ProbeHolds
      <3>2. CheckpointHolds' /\ ProbeHolds'
        BY <2>1 DEF CheckpointHolds, ProbeHolds
      <3>3. CopyHolds'
        BY <1>1, <2>1, <3>1 DEF TaskType, CopyHolds
      <3> QED
        BY <3>2, <3>3
    <2> QED
      BY <1>2, <2>1, <2>2, <2>3 DEF TaskInv
  <1>4. CASE AnswerWhole
    <2>1. /\ source' = current /\ offset' = 0 /\ done' = 0 /\ start' = 0 /\ dpc' = "copy"
          /\ file' = (IF start > 0 THEN <<>> ELSE file) /\ UNCHANGED <<current, checkpoint, tag, result, hurt>>
      BY <1>4 DEF AnswerWhole
    <2>2. TaskType'
      BY <1>1, <2>1 DEF TaskType
    <2>3. ASSUME ~hurt PROVE (CheckpointHolds /\ ProbeHolds /\ CopyHolds)'
      <3>1. tag <= current /\ file' = <<>>
        BY <1>1, <1>2, <2>1, <2>3 DEF TaskInv, TaskType, ProbeHolds
      <3>2. CheckpointHolds' /\ ProbeHolds'
        BY <2>1 DEF CheckpointHolds, ProbeHolds
      <3>3. current \in Versions /\ current \in Nat /\ First(0, current) = <<>>
        BY <1>1, Pieces DEF TaskType
      <3>4. /\ source' = current /\ current' = current /\ tag' = tag /\ offset' = 0 /\ done' = 0
            /\ 0 <= SizeOf[current]
        BY <1>1, <2>1
      <3>5. CopyHolds'
        BY <3>1, <3>3, <3>4 DEF CopyHolds
      <3> QED
        BY <3>2, <3>5
    <2> QED
      BY <1>2, <2>1, <2>2, <2>3 DEF TaskInv
  <1>5. CASE AnswerUnsatisfiable \/ FetchFails
    <2>1. /\ dpc' = "idle" /\ result' # "ok"
          /\ UNCHANGED <<current, file, checkpoint, tag, start, source, offset, done, hurt>>
      BY <1>5 DEF AnswerUnsatisfiable, FetchFails
    <2>2. TaskType'
      BY <1>1, <2>1 DEF TaskType
    <2>3. ~hurt => (CheckpointHolds /\ ProbeHolds /\ CopyHolds)'
      BY <1>2, <2>1 DEF TaskInv, CheckpointHolds, ProbeHolds, CopyHolds
    <2> QED
      BY <2>1, <2>2, <2>3 DEF TaskInv
  <1>6. CASE AnswerError
    <2>1. /\ source' = 0 /\ offset' = 0 /\ done' = start /\ dpc' = "copy" /\ hurt' = TRUE
          /\ UNCHANGED <<current, file, checkpoint, tag, start, result>>
      BY <1>6 DEF AnswerError
    <2>2. TaskType'
      BY <1>1, <2>1 DEF TaskType
    <2> QED
      BY <1>2, <2>1, <2>2 DEF TaskInv
  <1> QED
    BY <1>3, <1>4, <1>5, <1>6

(* The copy goes on, ends or breaks off. *)
LEMMA CopyInv ==
  ASSUME TaskInv, Interrupted \/ WriteFails \/ CopyEnds \/ \E b \in BOOLEAN : CopyBlock(b) \/ Crash(b)
  PROVE  TaskInv'
  <1>1. TaskType /\ current \in Nat \ {0} /\ tag \in Nat /\ source \in Nat /\ offset \in Nat /\ done \in Nat
    BY Pieces DEF TaskInv, TaskType
  <1> DEFINE Checkpoints == [etag : Nat, bytes : Nat, there : BOOLEAN]
  <1>0. NoCheckpoint \in Checkpoints /\ checkpoint \in Checkpoints
    BY DEF NoCheckpoint, NoTag, TaskInv, TaskType
  <1>2. result # "ok"
    BY DEF TaskInv, Interrupted, WriteFails, CopyEnds, CopyBlock, Crash
  <1>3. ASSUME dpc = "copy", ~hurt
        PROVE  /\ source \in Versions /\ source \in Nat \ {0} /\ SizeOf[source] \in Nat /\ tag <= source
               /\ source <= current /\ done = offset /\ offset <= SizeOf[source] /\ file = First(offset, source)
               /\ Remaining = SizeOf[source] - offset
    BY <1>1, <1>3, Pieces DEF TaskInv, CopyHolds, Remaining
  <1>4. CASE Interrupted
    <2>1. /\ dpc = "copy" /\ checkpoint' = [etag |-> tag, bytes |-> done, there |-> TRUE]
          /\ dpc' = "idle" /\ result' = "error"
          /\ UNCHANGED <<current, file, tag, start, source, offset, done, hurt>>
      BY <1>4 DEF Interrupted, SaveCheckpoint
    <2>2. TaskType'
      BY <1>1, <2>1 DEF TaskType
    <2>3. ASSUME ~hurt PROVE (CheckpointHolds /\ ProbeHolds /\ CopyHolds)'
      <3>1. tag <= current /\ (tag = current => source = current)
        BY <1>1, <1>3, <2>1, <2>3
      <3> QED
        BY <1>1, <1>3, <2>1, <2>3, <3>1 DEF CheckpointHolds, ProbeHolds, CopyHolds
    <2> QED
      BY <2>1, <2>2, <2>3 DEF TaskInv
  <1>5. CASE CopyEnds
    <2>1. /\ dpc = "copy" /\ Remaining = 0 /\ checkpoint' = NoCheckpoint /\ dpc' = "idle" /\ result' = "ok"
          /\ UNCHANGED <<current, file, tag, start, source, offset, done, hurt>>
      BY <1>5 DEF CopyEnds
    <2>2. TaskType'
      BY <1>1, <1>0, <2>1 DEF TaskType
    <2>3. ASSUME ~hurt PROVE (CheckpointHolds /\ ProbeHolds /\ CopyHolds)'
      BY <2>1 DEF CheckpointHolds, ProbeHolds, CopyHolds, NoCheckpoint
    <2>4. ASSUME ~hurt PROVE \E v \in Versions : file = Whole(v)
      <3>1. offset = SizeOf[source]
        BY <1>1, <1>3, <2>1, <2>4
      <3> QED
        BY <1>3, <2>1, <2>4, <3>1, Pieces
    <2> QED
      BY <2>1, <2>2, <2>3, <2>4 DEF TaskInv
  <1>6. CASE WriteFails \/ \E b \in BOOLEAN : Crash(b)
    <2>1. /\ dpc' = "idle" /\ result' # "ok" /\ hurt' = TRUE /\ checkpoint' \in {checkpoint, NoCheckpoint}
          /\ UNCHANGED <<current, file, tag, start, source, offset, done>>
      BY <1>6 DEF WriteFails, Crash
    <2>2. checkpoint' \in Checkpoints /\ hurt' \in BOOLEAN
      BY <1>0, <2>1
    <2> HIDE DEF Checkpoints
    <2>3. TaskType'
      BY <1>1, <2>1, <2>2 DEF TaskType, Checkpoints
    <2> QED
      BY <2>1, <2>3 DEF TaskInv
  <1>7. ASSUME NEW b \in BOOLEAN, CopyBlock(b) PROVE TaskInv'
    <2>1. /\ dpc = "copy" /\ Remaining > 0 /\ file' = Append(file, <<source, offset + 1>>)
          /\ offset' = offset + 1 /\ done' = done + 1
          /\ checkpoint' = checkpoint \/ checkpoint' = [etag |-> tag, bytes |-> done + 1, there |-> TRUE]
          /\ UNCHANGED <<current, dpc, tag, start, source, result, hurt>>
      BY <1>7 DEF CopyBlock, SaveCheckpoint
    <2>2. TaskType'
      <3>1. checkpoint' \in Checkpoints
        <4>1. [etag |-> tag, bytes |-> done + 1, there |-> TRUE] \in Checkpoints
          BY <1>1
        <4> HIDE DEF Checkpoints
        <4> QED
          BY <1>0, <2>1, <4>1
      <3> HIDE DEF Checkpoints
      <3> QED
        BY <1>1, <2>1, <3>1 DEF TaskType, Checkpoints
    <2>3. ASSUME ~hurt PROVE (CheckpointHolds /\ ProbeHolds /\ CopyHolds)'
      <3>1. file' = First(offset + 1, source)
        BY <1>1, <1>3, <2>1, <2>3, Pieces
      <3>2. offset + 1 <= SizeOf[source]
        BY <1>1, <1>3, <2>1, <2>3
      <3> QED
        BY <1>3, <2>1, <2>3, <3>1, <3>2 DEF CheckpointHolds, ProbeHolds, CopyHolds
    <2> QED
      BY <1>2, <2>1, <2>2, <2>3 DEF TaskInv
  <1> QED
    BY <1>4, <1>5, <1>6, <1>7

(* Downloader tries again, refuses, sleeps or saves. *)
LEMMA JobStepInv ==
  ASSUME JobInv, JobStep
  PROVE  JobInv'
  <1>1. ASSUME NEW r, job = "request", Retried(r), r # "open" PROVE job' # "ok" /\ reply' # "open"
    BY <1>1 DEF Retried
  <1>2. ASSUME NEW status, JobFails(status) PROVE JobInv'
    <2>1. job = "request" /\ reply # "open" /\ Retried(IF status = "5xx" THEN "closed" ELSE reply)
      BY <1>2 DEF JobFails, JobInv
    <2> QED
      BY <1>1, <2>1 DEF JobInv
  <1>3. CASE JobRefused \/ JobSleeps \/ JobCancelled
    BY <1>3 DEF JobRefused, JobSleeps, JobCancelled, JobInv
  <1>4. ASSUME NEW v \in Versions, NEW n, JobSaves(v, n) PROVE JobInv'
    <2>1. CASE n = SizeOf[v]
      BY <1>4, <2>1 DEF JobSaves, Written, JobInv
    <2>2. CASE n # SizeOf[v]
      <3>1. job = "request" /\ reply # "open" /\ Retried(reply)
        BY <1>4, <2>2 DEF JobSaves, JobInv
      <3> QED
        BY <1>1, <3>1 DEF JobInv
    <2> QED
      BY <2>1, <2>2
  <1> QED
    BY <1>2, <1>3, <1>4, Pieces DEF JobStep

(* A download that reports success has one version of the resource in the    *)
(* file, whole and once: through any number of executions that are cancelled *)
(* or break off and are resumed while the resource changes, and through the  *)
(* retries of Downloader.  It is not said of one that crashed, whose write   *)
(* failed, that took an error status for data or was resumed without an ETag *)
(* (download.go, 218 and 266).                                               *)
THEOREM OneVersionSaved == DownloadSpec => []OneVersionInFile
  <1>1. DownloadInit => DownloadInv
    <2> SUFFICES ASSUME DownloadInit PROVE DownloadInv
      OBVIOUS
    <2>1. TaskType
      BY Pieces DEF DownloadInit, TaskType, NoCheckpoint, NoTag
    <2> QED
      BY <2>1 DEF DownloadInit, DownloadInv, TaskInv, JobInv, CheckpointHolds, ProbeHolds, CopyHolds, NoCheckpoint
  <1>2. DownloadInv /\ [DownloadNext]_downloadVars => DownloadInv'
    <2> SUFFICES ASSUME TaskInv, JobInv, [DownloadNext]_downloadVars PROVE TaskInv' /\ JobInv'
      BY DEF DownloadInv
    <2>1. CASE TaskStep /\ UNCHANGED jobVars
      <3>1. TaskInv'
        BY <2>1, PublishInv, ProbeInv, AnswerInv, CopyInv DEF TaskStep
      <3>2. JobInv'
        BY <2>1 DEF JobInv, jobVars
      <3> QED
        BY <3>1, <3>2
    <2>2. CASE (JobStep \/ UNCHANGED jobVars) /\ UNCHANGED taskVars
      <3>1. TaskInv'
        <4>1. TaskType'
          BY <2>2 DEF TaskInv, TaskType, taskVars
        <4>2. ~hurt => (CheckpointHolds /\ ProbeHolds /\ CopyHolds)'
          BY <2>2 DEF TaskInv, CheckpointHolds, ProbeHolds, CopyHolds, taskVars
        <4> QED
          BY <2>2, <4>1, <4>2 DEF TaskInv, taskVars
      <3>2. JobInv'
        BY <2>2, JobStepInv DEF JobInv, jobVars
      <3> QED
        BY <3>1, <3>2
    <2> QED
      BY <2>1, <2>2 DEF DownloadNext, downloadVars
  <1>3. DownloadInv => OneVersionInFile
    BY Pieces DEF DownloadInv, TaskInv, JobInv, OneVersionInFile
  <1> QED
    BY <1>1, <1>2, <1>3, PTL DEF DownloadSpec
-----------------------------------------------------------------------------
(* The bodies of requests. *)

Contents == [kind : BodyKinds \cup {"none"}, of : Nat, left : {"whole", "part", "none"}, tail : BOOLEAN,
             buf : Buffers \cup {NoBuffer}]
Sends == [post : Posts, of : Nat, again : BOOLEAN, own : BOOLEAN, cut : BOOLEAN]

BodiesType ==
  /\ plan \in [Posts -> Seq(BodyKinds)] /\ way \in [Posts -> Ways]
  /\ bodyPc \in [Posts -> {"apply", "ready", "sending", "rewind", "done", "failed"}]
  /\ applied \in [Posts -> Nat] /\ posted \in [Posts -> Nat]
  /\ content \in [Posts -> Contents]
  /\ getBody \in [Posts -> [how : {"none", "fresh", "seek"}, body : Contents]]
  /\ bytesOf \in [Buffers -> Seq(Nat \cup Posts)] /\ inPool \in [Buffers -> Nat]
  /\ wire \subseteq Sends

(* How far a request has come. *)
Progress(p) ==
  /\ applied[p] <= Len(plan[p])
  /\ bodyPc[p] = "apply" => applied[p] < Len(plan[p]) /\ posted[p] = 0
  /\ bodyPc[p] \notin {"apply", "failed"} => applied[p] = Len(plan[p]) /\ applied[p] > 0
  /\ bodyPc[p] = "rewind" =>
       posted[p] > 0 /\ (ClosesStream(content[p].kind) => <<p, content[p].of>> \in shut)

(* A body b that a modifier of p gave, or what is left of it after a send.  *)
FromPlan(p, b) ==
  /\ b.of >= 1 /\ b.of <= applied[p]
  /\ b.of # applied[p] => way[p] = "std"
  /\ b.kind = "multipart" => plan[p][b.of] = "multipart"
  /\ b.tail => posted[p] > 0 /\ plan[p][b.of] \in {"reader", "seeker"}

(* What is to be sent now, and what a rewind would send.  Without a GetBody  *)
(* the body is one that a stream modifier gave last.                        *)
BodyGiven(p) ==
  applied[p] > 0 =>
    /\ FromPlan(p, content[p])
    /\ posted[p] = 0 => content[p].of = applied[p]
    /\ bodyPc[p] \in {"apply", "ready", "sending"} => content[p].left = "whole"
    /\ getBody[p].how = "none" =>
         content[p].kind = plan[p][content[p].of] /\ content[p].kind \notin {"bytes", "multipart"}

GetBodyGiven(p) ==
  getBody[p].how # "none" => FromPlan(p, getBody[p].body) /\ getBody[p].body.left = "whole"

(* The buffer of a form that has not been sent is in nobody else's hands.   *)
Holds(p) ==
  posted[p] = 0 /\ content[p].kind = "multipart" =>
    LET b == content[p].buf IN b \in Buffers /\ inPool[b] = 0 /\ bytesOf[b] = <<p, content[p].of>>

PoolKept == ~Replayed => (\A b \in Buffers : inPool[b] <= 1) /\ \A p \in Posts : Holds(p)

PostKept(p) == Progress(p) /\ BodyGiven(p) /\ GetBodyGiven(p)

BodiesInv == BodiesType /\ (\A p \in Posts : PostKept(p)) /\ PoolKept /\ BodiesAreOwn

(* The plans. *)
LEMMA PlansAreKinds == Plans \subseteq Seq(BodyKinds) \ {<<>>}
  <1>1. ASSUME NEW a \in Arguments PROVE Marshalled(a) \in Seq(BodyKinds)
    <2>1. a \in {"none", "null", "value", "buffer", "provider"} \cup BodyKinds
      BY BodiesAssumption
    <2>2. \A k \in BodyKinds : <<k>> \in Seq(BodyKinds)
      OBVIOUS
    <2>3. "bytes" \in BodyKinds /\ "reader" \in BodyKinds
      BY DEF BodyKinds
    <2>4. \/ Marshalled(a) = <<>> \/ Marshalled(a) = <<"bytes">> \/ Marshalled(a) = <<"reader">>
          \/ a \in BodyKinds /\ Marshalled(a) = <<a>>
      BY <2>1 DEF Marshalled
    <2>5. <<>> \in Seq(BodyKinds) /\ <<"bytes">> \in Seq(BodyKinds) /\ <<"reader">> \in Seq(BodyKinds)
      BY <2>2, <2>3
    <2>6. a \in BodyKinds => <<a>> \in Seq(BodyKinds)
      BY <2>2
    <2> QED
      BY <2>4, <2>5, <2>6, Zenon
  <1>2. \A mods \in Modifiers : mods \in Seq(BodyKinds)
    BY BodiesAssumption
  <1>3. ASSUME NEW a \in Arguments, NEW mods \in Modifiers PROVE PrepareBodyMods(a, mods) \in Seq(BodyKinds)
    BY <1>1, <1>2 DEF PrepareBodyMods
  <1> QED
    BY <1>3 DEF Plans

(* The records the steps are made of. *)
LEMMA BodyRecords ==
  /\ NoBody \in Contents /\ NoBody.kind = "none" /\ NoBody.of = 0
  /\ NoGetBody \in [how : {"none", "fresh", "seek"}, body : Contents] /\ NoGetBody.how = "none"
  /\ \A kind \in BodyKinds, i \in Nat :
       LET b == Unread(kind, i)
       IN b \in Contents /\ b.kind = kind /\ b.of = i /\ b.left = "whole" /\ b.tail = FALSE
  <1>1. NoBody \in Contents /\ NoBody.kind = "none" /\ NoBody.of = 0
    BY DEF NoBody, Contents
  <1>2. NoGetBody \in [how : {"none", "fresh", "seek"}, body : Contents] /\ NoGetBody.how = "none"
    <2> HIDE DEF Contents
    <2> QED
      BY <1>1 DEF NoGetBody
  <1>3. \A kind \in BodyKinds, i \in Nat :
       LET b == Unread(kind, i)
       IN b \in Contents /\ b.kind = kind /\ b.of = i /\ b.left = "whole" /\ b.tail = FALSE
    BY DEF Unread, Contents
  <1> QED
    BY <1>1, <1>2, <1>3

(* Nothing changes for the request q. *)
SamePost(q) ==
  /\ plan' = plan /\ way' = way /\ applied'[q] = applied[q] /\ bodyPc'[q] = bodyPc[q]
  /\ content'[q] = content[q] /\ getBody'[q] = getBody[q] /\ posted'[q] = posted[q]
  /\ shut \subseteq shut'

(* What holds of a request holds while the steps of others leave it alone. *)
LEMMA OtherPosts ==
  ASSUME NEW q, PostKept(q), SamePost(q)
  PROVE  PostKept(q)'
  <1>1. Progress(q)'
    BY DEF PostKept, Progress, SamePost
  <1>2. BodyGiven(q)'
    BY DEF PostKept, BodyGiven, FromPlan, SamePost
  <1>3. GetBodyGiven(q)'
    BY DEF PostKept, GetBodyGiven, FromPlan, SamePost
  <1> QED
    BY <1>1, <1>2, <1>3 DEF PostKept

(* A modifier gives the body b and leaves the GetBody g: its own, none, or   *)
(* the one it found.                                                         *)
Leaves(p, b, g) ==
  /\ b \in Contents /\ b.of = applied[p] + 1 /\ b.kind = plan[p][b.of] /\ b.left = "whole" /\ ~b.tail
  /\ g \in [how : {"none", "fresh", "seek"}, body : Contents]
  /\ \/ g.how # "none" /\ g.body = b
     \/ g.how = "none" /\ b.kind \notin {"bytes", "multipart"}
     \/ g = getBody[p] /\ way[p] = "std" /\ b.kind \notin {"bytes", "multipart"}

(* Applying any body modifier keeps what is known of the bodies. *)
LEMMA ModifierInv ==
  ASSUME BodiesType, NEW p \in Posts, PostKept(p), NEW b, NEW g, Leaves(p, b, g), Advance(p),
         UNCHANGED <<unsent, shut>>, content' = Ent(content, p, b), getBody' = Ent(getBody, p, g),
         bytesOf' \in [Buffers -> Seq(Nat \cup Posts)], inPool' \in [Buffers -> Nat]
  PROVE  BodiesType' /\ PostKept(p)' /\ \A q \in Posts \ {p} : SamePost(q)
  <1> DEFINE N == Len(plan[p])
             A == applied[p]
  <1>1. /\ bodyPc[p] = "apply" /\ applied' = [applied EXCEPT ![p] = A + 1]
        /\ bodyPc' = (IF A + 1 = N THEN [bodyPc EXCEPT ![p] = "ready"] ELSE bodyPc)
        /\ content' = [content EXCEPT ![p] = b] /\ getBody' = [getBody EXCEPT ![p] = g]
        /\ UNCHANGED <<plan, way, posted, wire, shut>>
    BY DEF Advance, Ent, unsent
  <1>2. /\ A \in Nat /\ N \in Nat /\ A < N /\ posted[p] = 0 /\ plan[p] \in Seq(BodyKinds)
        /\ way[p] \in Ways
    BY <1>1 DEF BodiesType, PostKept, Progress
  <1>3. /\ applied' \in [Posts -> Nat] /\ applied'[p] = A + 1
        /\ content' \in [Posts -> Contents] /\ content'[p] = b
        /\ getBody' \in [Posts -> [how : {"none", "fresh", "seek"}, body : Contents]] /\ getBody'[p] = g
    BY <1>1, <1>2 DEF BodiesType, Leaves
  <1>4. /\ bodyPc' \in [Posts -> {"apply", "ready", "sending", "rewind", "done", "failed"}]
        /\ bodyPc'[p] = (IF A + 1 = N THEN "ready" ELSE "apply")
    BY <1>1 DEF BodiesType
  <1>5. BodiesType'
    BY <1>1, <1>3, <1>4 DEF BodiesType
  <1>6. \A q \in Posts \ {p} : SamePost(q)
    BY <1>1 DEF BodiesType, SamePost
  <1>7. Progress(p)'
    BY <1>1, <1>2, <1>3, <1>4 DEF Progress
  <1>8. FromPlan(p, b)'
    BY <1>1, <1>2, <1>3 DEF FromPlan, Leaves
  <1>9. ASSUME g.how # "none" PROVE FromPlan(p, g.body)' /\ g.body.left = "whole"
    <2>1. CASE g.body = b
      BY <1>8, <2>1 DEF Leaves
    <2>2. CASE g = getBody[p] /\ way[p] = "std"
      <3>1. FromPlan(p, g.body) /\ g.body.left = "whole" /\ g.body.of \in Nat
        BY <1>9, <2>2 DEF PostKept, GetBodyGiven, Leaves, Contents
      <3> QED
        BY <1>1, <1>2, <1>3, <2>2, <3>1 DEF FromPlan
    <2> QED
      BY <1>9, <2>1, <2>2 DEF Leaves
  <1>10. GetBodyGiven(p)'
    BY <1>3, <1>9 DEF GetBodyGiven, FromPlan
  <1>11. BodyGiven(p)'
    <2>1. g.how = "none" => b.kind = plan[p][b.of] /\ b.kind \notin {"bytes", "multipart"}
      BY DEF Leaves
    <2>2. b.of = A + 1 /\ b.left = "whole"
      BY DEF Leaves
    <2> QED
      BY <1>1, <1>3, <1>8, <2>1, <2>2 DEF BodyGiven, FromPlan
  <1> QED
    BY <1>5, <1>6, <1>7, <1>10, <1>11 DEF PostKept

(* The pool and the sends at rest. *)
LEMMA PoolSame ==
  ASSUME PoolKept, BodiesAreOwn, UNCHANGED <<plan, way, wire, inPool, bytesOf, posted>>,
         NEW p \in Posts, posted[p] > 0 \/ content'[p].kind # "multipart" \/ content'[p] = content[p],
         \A q \in Posts \ {p} : content'[q] = content[q]
  PROVE  PoolKept' /\ BodiesAreOwn'
  <1>1. BodiesAreOwn' /\ (Replayed' <=> Replayed)
    BY DEF BodiesAreOwn, Replayed, Several
  <1>2. ASSUME ~Replayed, NEW q \in Posts PROVE Holds(q)'
    <2>1. Holds(q)
      BY <1>2 DEF PoolKept
    <2>2. CASE content'[q] = content[q]
      BY <2>1, <2>2 DEF Holds
    <2>3. CASE content'[q] # content[q]
      BY <2>3 DEF Holds
    <2> QED
      BY <2>2, <2>3
  <1>3. ~Replayed => \A b \in Buffers : inPool'[b] <= 1
    BY DEF PoolKept
  <1> QED
    BY <1>1, <1>2, <1>3 DEF PoolKept

(* SetBodyBytes, WithBody of a stream and WithStreamingMultipart. *)
LEMMA ModifiersInv ==
  ASSUME BodiesInv, NEW p \in Posts, SetBodyBytes(p) \/ SetBodyStream(p) \/ WithStreamingMultipart(p)
  PROVE  BodiesInv'
  <1> DEFINE k == Upcoming(p)
             b == Unread(k, applied[p] + 1)
             GetBodies == [how : {"none", "fresh", "seek"}, body : Contents]
  <1>1. BodiesType /\ (\A q \in Posts : PostKept(q)) /\ PoolKept /\ BodiesAreOwn
    BY DEF BodiesInv
  <1>2. Advance(p) /\ UNCHANGED <<unsent, shut, bytesOf, inPool>>
    BY DEF SetBodyBytes, SetBodyStream, WithStreamingMultipart
  <1>3. applied[p] + 1 \in 1 .. Len(plan[p]) /\ plan[p] \in Seq(BodyKinds) /\ applied[p] + 1 \in Nat
    <2>1. bodyPc[p] = "apply" /\ Progress(p)
      BY <1>1, <1>2 DEF PostKept, Advance
    <2>2. applied[p] \in Nat /\ plan[p] \in Seq(BodyKinds)
      BY <1>1 DEF BodiesType
    <2>3. Len(plan[p]) \in Nat /\ applied[p] < Len(plan[p])
      BY <2>1, <2>2 DEF Progress
    <2> QED
      BY <2>2, <2>3
  <1>4. k \in BodyKinds /\ k = plan[p][applied[p] + 1]
    BY <1>3 DEF Upcoming
  <1>5. /\ b \in Contents /\ b.kind = k /\ b.of = applied[p] + 1 /\ b.left = "whole" /\ b.tail = FALSE
    BY <1>3, <1>4, BodyRecords
  <1>6. getBody[p] \in GetBodies /\ getBody = [getBody EXCEPT ![p] = getBody[p]]
    BY <1>1 DEF BodiesType
  <1>7. k # "multipart"
    BY <1>5 DEF SetBodyBytes, SetBodyStream, WithStreamingMultipart
  <1>8. \E g : Leaves(p, b, g) /\ content' = Ent(content, p, b) /\ getBody' = Ent(getBody, p, g)
    <2>1. CASE SetBodyBytes(p)
      <3> DEFINE g == [how |-> "fresh", body |-> b]
      <3>1. k = "bytes" /\ content' = Ent(content, p, b) /\ getBody' = Ent(getBody, p, g)
        BY <2>1 DEF SetBodyBytes
      <3> HIDE DEF b
      <3>2. g \in GetBodies /\ g.how = "fresh" /\ g.body = b
        BY <1>5
      <3> HIDE DEF g
      <3>3. Leaves(p, b, g)
        BY <1>4, <1>5, <3>2 DEF Leaves
      <3> QED
        BY <3>1, <3>3
    <2>2. CASE SetBodyStream(p)
      <3> DEFINE g == IF way[p] = "std" THEN getBody[p] ELSE StreamGetBody(p, b)
      <3>1. /\ k \in {"reader", "seeker", "file", "rewinder"} /\ content' = Ent(content, p, b)
            /\ getBody' = (IF way[p] = "std" THEN getBody ELSE Ent(getBody, p, StreamGetBody(p, b)))
        BY <1>5, <2>2 DEF SetBodyStream
      <3> HIDE DEF b
      <3>2. getBody' = Ent(getBody, p, g)
        BY <1>6, <3>1 DEF Ent
      <3>3. \/ way[p] = "std" /\ g = getBody[p]
            \/ g = NoGetBody
            \/ g = [how |-> "seek", body |-> b]
            \/ g = [how |-> "fresh", body |-> b]
        BY DEF StreamGetBody, Cleared
      <3> HIDE DEF g
      <3>4. Leaves(p, b, g)
        <4>1. CASE g = getBody[p] /\ way[p] = "std"
          BY <1>4, <1>5, <1>6, <3>1, <4>1 DEF Leaves
        <4>2. CASE g = NoGetBody
          BY <1>4, <1>5, <3>1, <4>2, BodyRecords DEF Leaves
        <4>3. ASSUME NEW how \in {"seek", "fresh"}, g = [how |-> how, body |-> b] PROVE Leaves(p, b, g)
          <5>1. g \in GetBodies /\ g.how # "none" /\ g.body = b
            BY <1>5, <4>3
          <5> QED
            BY <1>4, <1>5, <5>1 DEF Leaves
        <4> QED
          BY <3>3, <4>1, <4>2, <4>3
      <3> QED
        BY <3>1, <3>2, <3>4
    <2>3. CASE WithStreamingMultipart(p)
      <3> DEFINE g == IF way[p] = "std" THEN getBody[p] ELSE NoGetBody
      <3>1. /\ k = "piped" /\ content' = Ent(content, p, Unread("piped", applied[p] + 1))
            /\ getBody' = Ent(getBody, p, IF way[p] = "std" THEN AdapterGetBody(p, Unread("piped", applied[p] + 1))
                                          ELSE StreamGetBody(p, Unread("piped", applied[p] + 1)))
        BY <2>3 DEF WithStreamingMultipart
      <3>2. b.kind = "piped" /\ content' = Ent(content, p, b)
            /\ getBody' = Ent(getBody, p, IF way[p] = "std" THEN AdapterGetBody(p, b) ELSE StreamGetBody(p, b))
        BY <1>5, <3>1
      <3> HIDE DEF b
      <3>3. AdapterGetBody(p, b) = getBody[p] /\ StreamGetBody(p, b) = NoGetBody
        BY <3>2 DEF AdapterGetBody, StreamGetBody, Cleared
      <3>4. getBody' = Ent(getBody, p, g)
        BY <3>2, <3>3
      <3>5. Leaves(p, b, g)
        BY <1>4, <1>5, <1>6, <3>2, BodyRecords DEF Leaves
      <3> QED
        BY <3>2, <3>4, <3>5
    <2> QED
      BY <2>1, <2>2, <2>3
  <1> HIDE DEF b, k
  <1>9. BodiesType' /\ PostKept(p)' /\ \A q \in Posts \ {p} : SamePost(q)
    <2>1. UNCHANGED <<unsent, shut>> /\ bytesOf' \in [Buffers -> Seq(Nat \cup Posts)] /\ inPool' \in [Buffers -> Nat]
      BY <1>1, <1>2 DEF BodiesType
    <2> QED
      BY <1>1, <1>2, <1>8, <2>1, ModifierInv
  <1>10. \A q \in Posts : PostKept(q)'
    BY <1>1, <1>9, OtherPosts
  <1>11. PoolKept' /\ BodiesAreOwn'
    <2>1. UNCHANGED <<plan, way, wire, inPool, bytesOf, posted>>
      BY <1>2 DEF unsent
    <2>2. content'[p].kind # "multipart" /\ \A q \in Posts \ {p} : content'[q] = content[q]
      BY <1>1, <1>5, <1>7, <1>8 DEF BodiesType, Ent
    <2> QED
      BY <1>1, <2>1, <2>2, PoolSame
  <1> QED
    BY <1>9, <1>10, <1>11 DEF BodiesInv

(* WithMultipart and WithMultipartFields take a buffer that nobody holds. *)
LEMMA BufferTaken ==
  ASSUME BodiesType, PoolKept, ~Replayed, NEW b \in Buffers, Takes(b), NEW q \in Posts,
         posted[q] = 0, content[q].kind = "multipart"
  PROVE  content[q].buf # b
  <1>1. Holds(q)
    BY DEF PoolKept
  <1>2. content[q].buf = b => inPool[b] = 0 /\ bytesOf[b] = <<q, content[q].of>>
    BY <1>1 DEF Holds
  <1>3. <<q, content[q].of>> # <<>>
    OBVIOUS
  <1>4. content[q].buf = b => ~(inPool[b] > 0) /\ bytesOf[b] # <<>>
    <2>1. ASSUME content[q].buf = b PROVE inPool[b] = 0 /\ bytesOf[b] # <<>>
      <3>1. bytesOf[b] = <<q, content[q].of>>
        BY <1>2, <2>1
      <3> QED
        BY <1>2, <1>3, <2>1, <3>1, Zenon
    <2> QED
      BY <2>1
  <1> QED
    BY <1>4 DEF Takes

(* The form that fills it is the request's body. *)
LEMMA MultipartInv ==
  ASSUME BodiesInv, NEW p \in Posts, NEW b \in Buffers, WithMultipart(p, b)
  PROVE  BodiesInv'
  <1> DEFINE first == Unread("multipart", applied[p] + 1)
             stream == [first EXCEPT !.buf = b]
             g == [how |-> "seek", body |-> stream]
  <1>1. BodiesType /\ (\A q \in Posts : PostKept(q)) /\ PoolKept /\ BodiesAreOwn
    BY DEF BodiesInv
  <1>2. /\ Advance(p) /\ Upcoming(p) = "multipart" /\ Takes(b) /\ UNCHANGED <<unsent, shut>>
        /\ inPool' = Ent(inPool, b, IF inPool[b] > 0 THEN inPool[b] - 1 ELSE 0)
        /\ bytesOf' = Ent(bytesOf, b, <<p, stream.of>>) /\ content' = Ent(content, p, stream)
        /\ getBody' = Ent(getBody, p, StreamGetBody(p, stream))
    BY DEF WithMultipart
  <1>3. applied[p] \in Nat /\ plan[p] \in Seq(BodyKinds) /\ posted[p] = 0
    BY <1>1, <1>2 DEF BodiesType, PostKept, Progress, Advance
  <1>4. first \in Contents /\ first.kind = "multipart" /\ first.of = applied[p] + 1 /\ first.left = "whole"
        /\ first.tail = FALSE
    BY <1>3, BodyRecords DEF BodyKinds
  <1>5. /\ stream \in Contents /\ stream.kind = "multipart" /\ stream.of = applied[p] + 1
        /\ stream.left = "whole" /\ stream.tail = FALSE /\ stream.buf = b
    <2> HIDE DEF first
    <2> QED
      BY <1>4 DEF Contents
  <1>6. inPool' \in [Buffers -> Nat] /\ bytesOf' \in [Buffers -> Seq(Nat \cup Posts)]
        /\ bytesOf'[b] = <<p, stream.of>> /\ inPool'[b] = (IF inPool[b] > 0 THEN inPool[b] - 1 ELSE 0)
        /\ \A c \in Buffers \ {b} : inPool'[c] = inPool[c] /\ bytesOf'[c] = bytesOf[c]
    <2>1. inPool \in [Buffers -> Nat] /\ bytesOf \in [Buffers -> Seq(Nat \cup Posts)]
      BY <1>1 DEF BodiesType
    <2>2. <<p, stream.of>> \in Seq(Nat \cup Posts)
      <3>1. p \in Nat \cup Posts /\ stream.of \in Nat \cup Posts
        BY <1>3, <1>5
      <3> QED
        BY <3>1
    <2> HIDE DEF stream
    <2>3. bytesOf' \in [Buffers -> Seq(Nat \cup Posts)] /\ bytesOf'[b] = <<p, stream.of>>
          /\ \A c \in Buffers \ {b} : bytesOf'[c] = bytesOf[c]
      BY <1>2, <2>1, <2>2 DEF Ent
    <2>4. inPool' \in [Buffers -> Nat] /\ inPool'[b] = (IF inPool[b] > 0 THEN inPool[b] - 1 ELSE 0)
          /\ \A c \in Buffers \ {b} : inPool'[c] = inPool[c]
      BY <1>2, <2>1 DEF Ent
    <2> QED
      BY <2>3, <2>4
  <1> HIDE DEF stream
  <1>7. StreamGetBody(p, stream) = g
    BY <1>5 DEF StreamGetBody
  <1>8. Leaves(p, stream, g)
    <2>1. g \in [how : {"none", "fresh", "seek"}, body : Contents] /\ g.how # "none" /\ g.body = stream
      BY <1>5
    <2> HIDE DEF g
    <2> QED
      BY <1>2, <1>5, <2>1 DEF Leaves, Upcoming
  <1> HIDE DEF g
  <1>9. BodiesType' /\ PostKept(p)' /\ \A q \in Posts \ {p} : SamePost(q)
    BY <1>1, <1>2, <1>6, <1>7, <1>8, ModifierInv
  <1>10. \A q \in Posts : PostKept(q)'
    BY <1>1, <1>9, OtherPosts
  <1>11. BodiesAreOwn' /\ (Replayed' <=> Replayed)
    BY <1>1, <1>2 DEF BodiesAreOwn, Replayed, Several, unsent
  <1>12. content'[p] = stream /\ posted' = posted
    BY <1>1, <1>2 DEF BodiesType, Ent, unsent
  <1>13. ASSUME ~Replayed PROVE (\A c \in Buffers : inPool'[c] <= 1) /\ \A q \in Posts : Holds(q)'
    <2>1. \A c \in Buffers : inPool[c] <= 1 /\ inPool[c] \in Nat
      BY <1>1, <1>13 DEF PoolKept, BodiesType
    <2>2. inPool'[b] = 0
      BY <1>6, <2>1
    <2>3. \A c \in Buffers : inPool'[c] <= 1
      BY <1>6, <2>1, <2>2
    <2>4. Holds(p)'
      BY <1>5, <1>6, <1>12, <2>2 DEF Holds
    <2>5. ASSUME NEW q \in Posts \ {p} PROVE Holds(q)'
      <3>1. Holds(q) /\ content'[q] = content[q] /\ posted'[q] = posted[q]
        BY <1>1, <1>9, <1>13 DEF PoolKept, SamePost
      <3>2. posted[q] = 0 /\ content[q].kind = "multipart" => content[q].buf # b
        BY <1>1, <1>2, <1>13, BufferTaken
      <3> QED
        BY <1>6, <3>1, <3>2 DEF Holds
    <2> QED
      BY <2>3, <2>4, <2>5
  <1> QED
    BY <1>9, <1>10, <1>11, <1>13 DEF BodiesInv, PoolKept

(* A form with a part that cannot be read keeps the buffer it took. *)
LEMMA MultipartFailsInv ==
  ASSUME BodiesInv, NEW p \in Posts, NEW b \in Buffers, MultipartFails(p, b)
  PROVE  BodiesInv'
  <1>1. BodiesType /\ (\A q \in Posts : PostKept(q)) /\ PoolKept /\ BodiesAreOwn
    BY DEF BodiesInv
  <1>2. /\ bodyPc[p] = "apply" /\ Takes(b) /\ bodyPc' = [bodyPc EXCEPT ![p] = "failed"]
        /\ inPool' = [inPool EXCEPT ![b] = IF inPool[b] > 0 THEN inPool[b] - 1 ELSE 0]
        /\ bytesOf' = [bytesOf EXCEPT ![b] = <<p, 0>>]
        /\ UNCHANGED <<plan, way, posted, wire, applied, content, getBody, shut>>
    BY DEF MultipartFails, Ent, unsent
  <1>3. inPool' \in [Buffers -> Nat] /\ inPool'[b] = (IF inPool[b] > 0 THEN inPool[b] - 1 ELSE 0)
        /\ \A c \in Buffers \ {b} : inPool'[c] = inPool[c]
    BY <1>1, <1>2 DEF BodiesType
  <1>4. bytesOf' \in [Buffers -> Seq(Nat \cup Posts)] /\ \A c \in Buffers \ {b} : bytesOf'[c] = bytesOf[c]
    <2>1. <<p, 0>> \in Seq(Nat \cup Posts)
      OBVIOUS
    <2> QED
      BY <1>1, <1>2, <2>1 DEF BodiesType
  <1>5. bodyPc' \in [Posts -> {"apply", "ready", "sending", "rewind", "done", "failed"}] /\ bodyPc'[p] = "failed"
        /\ \A q \in Posts \ {p} : bodyPc'[q] = bodyPc[q]
    BY <1>1, <1>2 DEF BodiesType
  <1>6. BodiesType'
    BY <1>1, <1>2, <1>3, <1>4, <1>5 DEF BodiesType
  <1>7. PostKept(p)'
    <2>1. PostKept(p)
      BY <1>1
    <2>2. Progress(p)'
      BY <1>2, <1>5, <2>1 DEF PostKept, Progress
    <2>3. BodyGiven(p)'
      BY <1>2, <1>5, <2>1 DEF PostKept, BodyGiven, FromPlan
    <2>4. GetBodyGiven(p)'
      BY <1>2, <2>1 DEF PostKept, GetBodyGiven, FromPlan
    <2> QED
      BY <2>2, <2>3, <2>4 DEF PostKept
  <1>8. \A q \in Posts \ {p} : SamePost(q)
    BY <1>2, <1>5 DEF SamePost
  <1>9. \A q \in Posts : PostKept(q)'
    BY <1>1, <1>7, <1>8, OtherPosts
  <1>10. BodiesAreOwn' /\ (Replayed' <=> Replayed)
    BY <1>1, <1>2 DEF BodiesAreOwn, Replayed, Several
  <1>11. ASSUME ~Replayed PROVE (\A c \in Buffers : inPool'[c] <= 1) /\ \A q \in Posts : Holds(q)'
    <2>1. \A c \in Buffers : inPool[c] <= 1 /\ inPool[c] \in Nat
      BY <1>1, <1>11 DEF PoolKept, BodiesType
    <2>2. \A c \in Buffers : inPool'[c] <= 1
      BY <1>3, <2>1
    <2>3. ASSUME NEW q \in Posts PROVE Holds(q)'
      <3>1. Holds(q)
        BY <1>1, <1>11 DEF PoolKept
      <3>2. posted[q] = 0 /\ content[q].kind = "multipart" => content[q].buf # b
        BY <1>1, <1>2, <1>11, BufferTaken
      <3> QED
        BY <1>2, <1>3, <1>4, <3>1, <3>2 DEF Holds
    <2> QED
      BY <2>2, <2>3
  <1> QED
    BY <1>6, <1>9, <1>10, <1>11 DEF BodiesInv, PoolKept

(* The engine takes the body as it stands. *)
LEMMA BeginSendInv ==
  ASSUME BodiesInv, NEW p \in Posts, BeginSend(p)
  PROVE  BodiesInv'
  <1>1. BodiesType /\ (\A q \in Posts : PostKept(q)) /\ PoolKept /\ BodiesAreOwn
    BY DEF BodiesInv
  <1>2. /\ bodyPc[p] = "ready" /\ bodyPc' = [bodyPc EXCEPT ![p] = "sending"]
        /\ UNCHANGED <<plan, way, posted, wire, applied, content, getBody, shut, bytesOf, inPool>>
    BY DEF BeginSend, Ent, unsent
  <1>3. bodyPc' \in [Posts -> {"apply", "ready", "sending", "rewind", "done", "failed"}] /\ bodyPc'[p] = "sending"
        /\ \A q \in Posts \ {p} : bodyPc'[q] = bodyPc[q]
    BY <1>1, <1>2 DEF BodiesType
  <1>4. BodiesType'
    BY <1>1, <1>2, <1>3 DEF BodiesType
  <1>5. PostKept(p)'
    <2>1. PostKept(p)
      BY <1>1
    <2>2. Progress(p)'
      BY <1>2, <1>3, <2>1 DEF PostKept, Progress
    <2>3. BodyGiven(p)'
      BY <1>2, <1>3, <2>1 DEF PostKept, BodyGiven, FromPlan
    <2>4. GetBodyGiven(p)'
      BY <1>2, <2>1 DEF PostKept, GetBodyGiven, FromPlan
    <2> QED
      BY <2>2, <2>3, <2>4 DEF PostKept
  <1>6. \A q \in Posts \ {p} : SamePost(q)
    BY <1>2, <1>3 DEF SamePost
  <1>7. \A q \in Posts : PostKept(q)'
    BY <1>1, <1>5, <1>6, OtherPosts
  <1>8. PoolKept' /\ BodiesAreOwn'
    BY <1>1, <1>2, PoolSame
  <1> QED
    BY <1>4, <1>7, <1>8 DEF BodiesInv

(* What is sent is a modifier's body, and a buffer that is put back had no   *)
(* other holder.                                                             *)
LEMMA EndSendInv ==
  ASSUME BodiesInv, NEW p \in Posts, NEW left \in {"part", "none"}, NEW outcome \in {"answered", "broken"},
         EndSend(p, left, outcome)
  PROVE  BodiesInv'
  <1> DEFINE b == content[p]
             id == <<p, b.of>>
             s == [post |-> p, of |-> b.of, again |-> posted[p] > 0,
                   own |-> b.kind = "multipart" => bytesOf[b.buf] = id,
                   cut |-> b.left # "whole" \/ b.tail]
             after == CASE outcome = "answered" -> "done"
                        [] outcome # "answered" /\ posted[p] + 1 < MaxSends -> "rewind"
                        [] OTHER -> "failed"
  <1>1. BodiesType /\ (\A q \in Posts : PostKept(q)) /\ PoolKept /\ BodiesAreOwn
    BY DEF BodiesInv
  <1>2. /\ bodyPc[p] = "sending" /\ posted' = [posted EXCEPT ![p] = posted[p] + 1]
        /\ wire' = wire \cup {s} /\ content' = [content EXCEPT ![p].left = left] /\ inPool' = PutBack(p)
        /\ shut' = (IF ClosesStream(b.kind) THEN shut \cup {id} ELSE shut)
        /\ bodyPc' = [bodyPc EXCEPT ![p] = after]
        /\ UNCHANGED <<plan, way, applied, getBody, bytesOf>>
    <2>1. /\ bodyPc[p] = "sending" /\ posted' = Ent(posted, p, posted[p] + 1)
          /\ wire' = wire \cup {s} /\ content' = [content EXCEPT ![p].left = left] /\ inPool' = PutBack(p)
          /\ shut' = (IF ClosesStream(b.kind) THEN shut \cup {id} ELSE shut)
          /\ bodyPc' = Ent(bodyPc, p, after)
          /\ UNCHANGED <<plan, way, applied, getBody, bytesOf>>
      BY Zenon DEF EndSend
    <2> HIDE DEF s, after
    <2> QED
      BY <2>1 DEF Ent
  <1>3. PostKept(p) /\ applied[p] = Len(plan[p]) /\ applied[p] > 0 /\ FromPlan(p, b) /\ b.left = "whole"
        /\ (posted[p] = 0 => b.of = applied[p])
    <2>1. PostKept(p)
      BY <1>1
    <2>2. applied[p] = Len(plan[p]) /\ applied[p] > 0
      BY <1>2, <2>1 DEF PostKept, Progress
    <2> QED
      BY <1>2, <2>1, <2>2 DEF PostKept, BodyGiven
  <1>4. b \in Contents /\ posted[p] \in Nat /\ applied[p] \in Nat /\ b.of \in Nat /\ b.tail \in BOOLEAN
    BY <1>1 DEF BodiesType, Contents
  <1>5. s.post = p /\ s.of = b.of /\ (s.again <=> posted[p] > 0) /\ (s.cut <=> b.left # "whole" \/ b.tail)
        /\ (s.own <=> (b.kind = "multipart" => bytesOf[b.buf] = id)) /\ s \in Sends
    <2> DEFINE again == posted[p] > 0
               own == b.kind = "multipart" => bytesOf[b.buf] = id
               cut == b.left # "whole" \/ b.tail
    <2>1. s = [post |-> p, of |-> b.of, again |-> again, own |-> own, cut |-> cut]
      OBVIOUS
    <2>2. b.of \in Nat /\ again \in BOOLEAN /\ own \in BOOLEAN /\ cut \in BOOLEAN
      BY <1>4
    <2> HIDE DEF s, again, own, cut
    <2>3. s \in Sends /\ s.post = p /\ s.of = b.of /\ s.again = again /\ s.own = own /\ s.cut = cut
      BY <2>1, <2>2, Zenon DEF Sends
    <2> QED
      BY <2>3 DEF again, own, cut
  <1> HIDE DEF s
  <1>6. /\ bodyPc' \in [Posts -> {"apply", "ready", "sending", "rewind", "done", "failed"}]
        /\ bodyPc'[p] \in {"done", "rewind", "failed"}
        /\ \A q \in Posts \ {p} : bodyPc'[q] = bodyPc[q]
    <2>1. after \in {"done", "rewind", "failed"}
      OBVIOUS
    <2> HIDE DEF after
    <2> QED
      BY <1>1, <1>2, <2>1 DEF BodiesType
  <1>7. /\ content' \in [Posts -> Contents] /\ content'[p].kind = b.kind /\ content'[p].of = b.of
        /\ content'[p].tail = b.tail /\ content'[p].buf = b.buf
        /\ \A q \in Posts \ {p} : content'[q] = content[q]
    BY <1>1, <1>2, <1>4 DEF BodiesType, Contents
  <1>8. /\ posted' \in [Posts -> Nat] /\ posted'[p] = posted[p] + 1 /\ posted'[p] > 0
        /\ \A q \in Posts \ {p} : posted'[q] = posted[q]
    BY <1>1, <1>2, <1>4 DEF BodiesType
  <1>9. inPool' \in [Buffers -> Nat] /\ bytesOf' = bytesOf
    <2>1. inPool \in [Buffers -> Nat] /\ bytesOf' = bytesOf
      BY <1>1, <1>2 DEF BodiesType
    <2>2. ASSUME NEW c PROVE [inPool EXCEPT ![c] = inPool[c] + 1] \in [Buffers -> Nat]
      <3>1. CASE c \in Buffers
        BY <2>1, <3>1
      <3>2. CASE c \notin Buffers
        <4>1. [inPool EXCEPT ![c] = inPool[c] + 1] = inPool
          BY <2>1, <3>2
        <4> QED
          BY <2>1, <4>1
      <3> QED
        BY <3>1, <3>2
    <2> QED
      BY <1>2, <2>1, <2>2 DEF PutBack
  <1>10. BodiesType'
    BY <1>1, <1>2, <1>5, <1>6, <1>7, <1>8, <1>9 DEF BodiesType
  <1>11. \A q \in Posts \ {p} : SamePost(q)
    BY <1>2, <1>6, <1>7, <1>8 DEF SamePost
  <1> HIDE DEF after
  <1>12. PostKept(p)'
    <2>1. Progress(p)'
      <3>1. ClosesStream(b.kind) => id \in shut'
        BY <1>2
      <3> QED
        BY <1>2, <1>3, <1>6, <1>7, <1>8, <3>1 DEF PostKept, Progress
    <2>2. ASSUME NEW c, FromPlan(p, c) PROVE FromPlan(p, c)'
      BY <1>2, <1>8, <2>2 DEF FromPlan
    <2>3. FromPlan(p, content[p])'
      BY <1>2, <1>3, <1>7, <1>8 DEF FromPlan
    <2>4. BodyGiven(p)'
      <3>1. getBody[p].how = "none" => b.kind = plan[p][b.of] /\ b.kind \notin {"bytes", "multipart"}
        BY <1>3 DEF PostKept, BodyGiven
      <3> QED
        BY <1>2, <1>6, <1>7, <1>8, <2>3, <3>1 DEF BodyGiven
    <2>5. GetBodyGiven(p)'
      <3>1. GetBodyGiven(p)
        BY <1>3 DEF PostKept
      <3> QED
        BY <1>2, <1>8, <3>1 DEF GetBodyGiven, FromPlan
    <2> QED
      BY <2>1, <2>4, <2>5 DEF PostKept
  <1>13. \A q \in Posts : PostKept(q)'
    BY <1>1, <1>11, <1>12, OtherPosts
  <1>14. Replayed => Replayed'
    BY <1>2 DEF Replayed
  <1>15. ~Replayed' /\ b.kind = "multipart" => posted[p] = 0
    <2>1. b.kind = "multipart" => plan[p][b.of] = "multipart"
      BY <1>3 DEF FromPlan
    <2>2. s \in wire' /\ plan' = plan
      BY <1>2
    <2>3. s.again /\ plan[s.post][s.of] = "multipart" => Replayed'
      BY <2>2 DEF Replayed
    <2> QED
      BY <1>4, <1>5, <2>1, <2>3
  <1>16. ~Replayed' /\ b.kind = "multipart" =>
           b.buf \in Buffers /\ inPool[b.buf] = 0 /\ bytesOf[b.buf] = id
    BY <1>1, <1>14, <1>15 DEF PoolKept, Holds
  <1>17. PoolKept'
    <2> SUFFICES ASSUME ~Replayed'
                 PROVE  (\A c \in Buffers : inPool'[c] <= 1) /\ \A q \in Posts : Holds(q)'
      BY DEF PoolKept
    <2>1. (\A c \in Buffers : inPool[c] <= 1) /\ \A q \in Posts : Holds(q)
      BY <1>1, <1>14 DEF PoolKept
    <2>2. Holds(p)'
      BY <1>8 DEF Holds
    <2>3. CASE b.kind # "multipart"
      <3>1. inPool' = inPool
        BY <1>2, <2>3 DEF PutBack
      <3>2. ASSUME NEW q \in Posts \ {p} PROVE Holds(q)'
        BY <1>7, <1>8, <1>9, <2>1, <3>1 DEF Holds
      <3> QED
        BY <2>1, <2>2, <3>1, <3>2
    <2>4. CASE b.kind = "multipart"
      <3>1. b.buf \in Buffers /\ inPool[b.buf] = 0 /\ bytesOf[b.buf] = id
        BY <1>16, <2>4
      <3>2. inPool' = [inPool EXCEPT ![b.buf] = @ + 1] /\ inPool \in [Buffers -> Nat]
        BY <1>1, <1>2, <2>4 DEF PutBack, BodiesType
      <3>3. inPool'[b.buf] = 1 /\ \A c \in Buffers \ {b.buf} : inPool'[c] = inPool[c]
        BY <3>1, <3>2
      <3>4. ASSUME NEW q \in Posts \ {p} PROVE Holds(q)'
        <4>1. Holds(q)
          BY <2>1
        <4>2. posted[q] = 0 /\ content[q].kind = "multipart" => content[q].buf # b.buf
          <5>1. \A i, j : <<q, i>> # <<p, j>>
            OBVIOUS
          <5> QED
            BY <3>1, <4>1, <5>1 DEF Holds
        <4> QED
          BY <1>7, <1>8, <1>9, <3>3, <4>1, <4>2 DEF Holds
      <3> QED
        BY <2>1, <2>2, <3>3, <3>4
    <2> QED
      BY <2>3, <2>4
  <1>18. BodiesAreOwn'
    <2>1. s.of = Len(plan[p]) \/ (s.again /\ way[p] = "std" /\ Several(p))
      <3>1. b.of # applied[p] => way[p] = "std" /\ b.of >= 1 /\ b.of <= applied[p]
        BY <1>3 DEF FromPlan
      <3>2. b.of # applied[p] => posted[p] > 0 /\ applied[p] > 1
        BY <1>3, <1>4, <3>1
      <3> QED
        BY <1>3, <1>5, <3>1, <3>2 DEF Several
    <2>2. s.cut => s.again /\ plan[p][s.of] \in {"reader", "seeker"}
      BY <1>3, <1>5 DEF FromPlan
    <2>3. s.own \/ Replayed'
      BY <1>5, <1>16
    <2>4. ASSUME NEW t \in wire'
          PROVE  /\ t.of = Len(plan[t.post]) \/ (t.again /\ way[t.post] = "std" /\ Several(t.post))
                 /\ t.cut => t.again /\ plan[t.post][t.of] \in {"reader", "seeker"}
                 /\ t.own \/ Replayed'
      <3>1. CASE t = s
        BY <1>5, <2>1, <2>2, <2>3, <3>1
      <3>2. CASE t \in wire
        BY <1>1, <1>14, <3>2 DEF BodiesAreOwn
      <3> QED
        BY <1>2, <3>1, <3>2
    <2> QED
      BY <1>2, <2>4 DEF BodiesAreOwn, Several
  <1> QED
    BY <1>10, <1>13, <1>17, <1>18 DEF BodiesInv

(* rewindRequestBody leaves a body of the plan, whole, or the rest of a plain *)
(* reader.                                                                   *)
LEMMA RewindInv ==
  ASSUME BodiesInv, NEW p \in Posts, Rewind(p)
  PROVE  BodiesInv'
  <1> DEFINE rest == RestOf(p)
             GetBodies == [how : {"none", "fresh", "seek"}, body : Contents]
  <1>1. BodiesType /\ (\A q \in Posts : PostKept(q)) /\ PoolKept /\ BodiesAreOwn
    BY DEF BodiesInv
  <1>2. bodyPc[p] = "rewind" /\ UNCHANGED <<plan, way, posted, wire, applied, shut, bytesOf, inPool>>
    BY DEF Rewind, unsent
  <1>3. /\ PostKept(p) /\ applied[p] = Len(plan[p]) /\ applied[p] > 0 /\ posted[p] > 0
        /\ FromPlan(p, content[p])
    <2>1. PostKept(p)
      BY <1>1
    <2>2. applied[p] = Len(plan[p]) /\ applied[p] > 0 /\ posted[p] > 0
      BY <1>2, <2>1 DEF PostKept, Progress
    <2> QED
      BY <2>1, <2>2 DEF PostKept, BodyGiven
  <1>4. /\ content[p] \in Contents /\ getBody[p] \in GetBodies /\ content \in [Posts -> Contents]
        /\ getBody \in [Posts -> GetBodies] /\ plan[p] \in Seq(BodyKinds) /\ content[p].of \in Nat
        /\ getBody[p].body \in Contents
    BY <1>1 DEF BodiesType, Contents
  <1>5. \/ /\ getBody[p].how # "none"
           /\ content' = [content EXCEPT ![p] = getBody[p].body]
           /\ bodyPc' = [bodyPc EXCEPT ![p] = "ready"] /\ getBody' = getBody
        \/ /\ getBody[p].how = "none" /\ content[p].left # "none" /\ <<p, content[p].of>> \notin shut
           /\ content' = [content EXCEPT ![p] = rest]
           /\ getBody' = [getBody EXCEPT ![p] = [how |-> "fresh", body |-> rest]]
           /\ bodyPc' = [bodyPc EXCEPT ![p] = "ready"]
        \/ bodyPc' = [bodyPc EXCEPT ![p] = "failed"] /\ content' = content /\ getBody' = getBody
    <2> HIDE DEF rest
    <2> QED
      BY DEF Rewind, Ent, rest
  (* What is kept whichever of the three happens. *)
  <1>6. ASSUME NEW place \in {"ready", "failed"}, bodyPc' = [bodyPc EXCEPT ![p] = place],
               NEW c \in Contents, content' = [content EXCEPT ![p] = c], FromPlan(p, c),
               place = "ready" => c.left = "whole",
               NEW g \in GetBodies, getBody' = [getBody EXCEPT ![p] = g],
               IF g.how = "none" THEN c.kind = plan[p][c.of] /\ c.kind \notin {"bytes", "multipart"}
               ELSE FromPlan(p, g.body) /\ g.body.left = "whole"
        PROVE  BodiesInv'
    <2>1. content' \in [Posts -> Contents] /\ content'[p] = c /\ \A q \in Posts \ {p} : content'[q] = content[q]
      BY <1>4, <1>6
    <2>2. getBody' \in [Posts -> GetBodies] /\ getBody'[p] = g /\ \A q \in Posts \ {p} : getBody'[q] = getBody[q]
      BY <1>4, <1>6
    <2>3. /\ bodyPc' \in [Posts -> {"apply", "ready", "sending", "rewind", "done", "failed"}] /\ bodyPc'[p] = place
          /\ \A q \in Posts \ {p} : bodyPc'[q] = bodyPc[q]
      BY <1>1, <1>6 DEF BodiesType
    <2>4. BodiesType'
      BY <1>1, <1>2, <2>1, <2>2, <2>3 DEF BodiesType
    <2>5. \A q \in Posts \ {p} : SamePost(q)
      BY <1>2, <2>1, <2>2, <2>3 DEF SamePost
    <2>6. Progress(p)'
      BY <1>2, <1>3, <1>6, <2>3 DEF PostKept, Progress
    <2>7. FromPlan(p, c)' /\ (g.how # "none" => FromPlan(p, g.body)')
      BY <1>2, <1>6 DEF FromPlan
    <2>8. BodyGiven(p)'
      BY <1>2, <1>3, <1>6, <2>1, <2>2, <2>3, <2>7 DEF BodyGiven, FromPlan
    <2>9. GetBodyGiven(p)'
      BY <1>6, <2>2, <2>7 DEF GetBodyGiven, FromPlan
    <2>10. \A q \in Posts : PostKept(q)'
      BY <1>1, <2>5, <2>6, <2>8, <2>9, OtherPosts DEF PostKept
    <2>11. PoolKept' /\ BodiesAreOwn'
      BY <1>1, <1>2, <1>3, <2>1, PoolSame
    <2> QED
      BY <2>4, <2>10, <2>11 DEF BodiesInv
  <1>7. CASE /\ getBody[p].how # "none"
             /\ content' = [content EXCEPT ![p] = getBody[p].body]
             /\ bodyPc' = [bodyPc EXCEPT ![p] = "ready"] /\ getBody' = getBody
    <2>1. FromPlan(p, getBody[p].body) /\ getBody[p].body.left = "whole"
      BY <1>3, <1>7 DEF PostKept, GetBodyGiven
    <2>2. getBody' = [getBody EXCEPT ![p] = getBody[p]]
      BY <1>4, <1>7
    <2> QED
      BY <1>4, <1>6, <1>7, <2>1, <2>2
  <1>8. CASE /\ getBody[p].how = "none" /\ content[p].left # "none" /\ <<p, content[p].of>> \notin shut
             /\ content' = [content EXCEPT ![p] = rest]
             /\ getBody' = [getBody EXCEPT ![p] = [how |-> "fresh", body |-> rest]]
             /\ bodyPc' = [bodyPc EXCEPT ![p] = "ready"]
    <2>1. /\ rest \in Contents /\ rest.kind = "bytes" /\ rest.of = content[p].of /\ rest.left = "whole"
          /\ (rest.tail => content[p].tail \/ content[p].left # "whole")
      <3> DEFINE first == Unread("bytes", content[p].of)
                 cut == content[p].tail \/ content[p].left # "whole"
      <3>1. first \in Contents /\ first.kind = "bytes" /\ first.of = content[p].of /\ first.left = "whole"
        BY <1>4, BodyRecords DEF BodyKinds
      <3>2. cut \in BOOLEAN /\ rest = [first EXCEPT !.tail = cut]
        BY <1>4 DEF Contents, RestOf
      <3> HIDE DEF first, rest
      <3>3. rest \in Contents /\ rest.kind = "bytes" /\ rest.of = content[p].of /\ rest.left = "whole"
            /\ rest.tail = cut
        <4> HIDE DEF cut
        <4> QED
          BY <3>1, <3>2 DEF Contents
      <3> QED
        BY <3>3
    <2> HIDE DEF rest
    <2>2. plan[p][content[p].of] \in {"reader", "seeker"}
      <3>1. content[p].kind = plan[p][content[p].of] /\ content[p].kind \notin {"bytes", "multipart"}
        BY <1>3, <1>8 DEF PostKept, BodyGiven
      <3>2. ~ClosesStream(content[p].kind)
        BY <1>2, <1>3, <1>8 DEF PostKept, Progress
      <3>3. content[p].of \in 1 .. Len(plan[p])
        BY <1>3, <1>4 DEF FromPlan
      <3>4. plan[p][content[p].of] \in BodyKinds
        BY <1>4, <3>3
      <3> QED
        BY <3>1, <3>2, <3>4 DEF ClosesStream, BodyKinds
    <2>3. FromPlan(p, rest)
      BY <1>3, <2>1, <2>2 DEF FromPlan
    <2> DEFINE g == [how |-> "fresh", body |-> rest]
    <2>4. g \in GetBodies /\ g.how = "fresh" /\ g.body = rest
      BY <2>1
    <2> HIDE DEF g
    <2>5. getBody' = [getBody EXCEPT ![p] = g]
      BY <1>8 DEF g
    <2> QED
      BY <1>6, <1>8, <2>1, <2>3, <2>4, <2>5
  <1>9. CASE bodyPc' = [bodyPc EXCEPT ![p] = "failed"] /\ content' = content /\ getBody' = getBody
    <2>1. content' = [content EXCEPT ![p] = content[p]] /\ getBody' = [getBody EXCEPT ![p] = getBody[p]]
      BY <1>4, <1>9
    <2>2. IF getBody[p].how = "none"
          THEN content[p].kind = plan[p][content[p].of] /\ content[p].kind \notin {"bytes", "multipart"}
          ELSE FromPlan(p, getBody[p].body) /\ getBody[p].body.left = "whole"
      BY <1>3 DEF PostKept, BodyGiven, GetBodyGiven
    <2> QED
      BY <1>3, <1>4, <1>6, <1>9, <2>1, <2>2
  <1> QED
    BY <1>5, <1>7, <1>8, <1>9

(* No modifier has been applied yet. *)
LEMMA BodiesStarts == BodiesInit => BodiesInv
  <1> SUFFICES ASSUME BodiesInit PROVE BodiesInv
    OBVIOUS
  <1>1. \A p \in Posts : plan[p] \in Seq(BodyKinds) /\ plan[p] # <<>>
    BY PlansAreKinds DEF BodiesInit
  <1>2. \A p \in Posts : Len(plan[p]) \in Nat /\ Len(plan[p]) > 0
    BY <1>1
  <1>3. BodiesType
    <2>1. plan \in [Posts -> Seq(BodyKinds)]
      BY <1>1 DEF BodiesInit
    <2>2. /\ content \in [Posts -> Contents]
          /\ getBody \in [Posts -> [how : {"none", "fresh", "seek"}, body : Contents]]
      BY BodyRecords DEF BodiesInit
    <2>3. bytesOf \in [Buffers -> Seq(Nat \cup Posts)]
      BY DEF BodiesInit
    <2> QED
      BY <2>1, <2>2, <2>3 DEF BodiesInit, BodiesType
  <1>4. \A p \in Posts : PostKept(p)
    <2> SUFFICES ASSUME NEW p \in Posts PROVE PostKept(p)
      OBVIOUS
    <2>1. bodyPc[p] = "apply" /\ applied[p] = 0 /\ posted[p] = 0 /\ getBody[p].how = "none"
      BY BodyRecords DEF BodiesInit
    <2> QED
      BY <1>2, <2>1 DEF PostKept, Progress, BodyGiven, GetBodyGiven
  <1>5. PoolKept
    <2>1. \A p \in Posts : content[p].kind = "none"
      BY BodyRecords DEF BodiesInit
    <2> QED
      BY <2>1 DEF BodiesInit, PoolKept, Holds
  <1>6. BodiesAreOwn
    BY DEF BodiesInit, BodiesAreOwn
  <1> QED
    BY <1>3, <1>4, <1>5, <1>6 DEF BodiesInv

(* Every step of the requests keeps the invariant of the bodies. *)
LEMMA BodiesStep == BodiesInv /\ [BodiesNext]_bodyVars => BodiesInv'
  <1> SUFFICES ASSUME BodiesInv, [BodiesNext]_bodyVars PROVE BodiesInv'
    OBVIOUS
  <1>1. ASSUME NEW p \in Posts, SetBodyBytes(p) \/ SetBodyStream(p) \/ WithStreamingMultipart(p) PROVE BodiesInv'
    BY <1>1, ModifiersInv
  <1>2. ASSUME NEW p \in Posts, NEW b \in Buffers, WithMultipart(p, b) PROVE BodiesInv'
    BY <1>2, MultipartInv
  <1>3. ASSUME NEW p \in Posts, NEW b \in Buffers, MultipartFails(p, b) PROVE BodiesInv'
    BY <1>3, MultipartFailsInv
  <1>4. ASSUME NEW p \in Posts, BeginSend(p) PROVE BodiesInv'
    BY <1>4, BeginSendInv
  <1>5. ASSUME NEW p \in Posts, NEW left \in {"part", "none"}, NEW outcome \in {"answered", "broken"},
               EndSend(p, left, outcome)
        PROVE  BodiesInv'
    BY <1>5, EndSendInv
  <1>6. ASSUME NEW p \in Posts, Rewind(p) PROVE BodiesInv'
    BY <1>6, RewindInv
  <1>7. CASE UNCHANGED bodyVars
    BY <1>7 DEF bodyVars, BodiesInv, BodiesType, PostKept, Progress, BodyGiven, GetBodyGiven, FromPlan, PoolKept,
                Holds, Replayed, BodiesAreOwn, Several
  <1> QED
    BY <1>1, <1>2, <1>3, <1>4, <1>5, <1>6, <1>7 DEF BodiesNext

(* BodiesAreOwn for every set of requests, arguments, modifiers, buffers and *)
(* every bound on the sends: what std.Request and the engines send is what   *)
(* the last body modifier gave, whole and in the request's own bytes, but    *)
(* for the three cases that ApplyStd, rewindRequestBody and multipartBufPool *)
(* do not keep apart.                                                        *)
THEOREM SentBodiesAreOwn == BodiesSpec => []BodiesAreOwn
  <1>1. BodiesInv => BodiesAreOwn
    BY DEF BodiesInv
  <1> QED
    BY <1>1, BodiesStarts, BodiesStep, PTL DEF BodiesSpec

-----------------------------------------------------------------------------
(* The cookies. *)

(* What calls can put into a jar. *)
Jarred ==
  [domain : {i.domain : i \in SetInputs} \cup {i.host : i \in SetInputs}, path : {i.path : i \in SetInputs},
   secure : {i.secure : i \in SetInputs}, part : {NoPart} \cup {i.part : i \in SetInputs}, value : Setters]

CookieType ==
  /\ given \in [Setters -> SetInputs]
  /\ kpc \in [Setters -> {"find", "create", "put", "inner", "kept", "done"}]
  /\ mine \in [Setters -> Nat] /\ jars \in [Proxies -> Nat]
  /\ owner \in Seq(Proxies) /\ inner \in Seq(SUBSET Jarred) /\ kept \in Seq(SUBSET Jarred)
  /\ dirty \in Seq(BOOLEAN) /\ Len(inner) = Len(owner) /\ Len(kept) = Len(owner) /\ Len(dirty) = Len(owner)
  /\ memory \in [Proxies -> SUBSET Jarred] /\ disk \in [Proxies -> SUBSET Jarred]
  /\ janitor \in [Proxies -> [pc : {"idle", "snapshot", "save"}, jar : Nat, flush : SUBSET Jarred]]

(* A call works on a jar of its proxy. *)
SetterInv(s) ==
  /\ kpc[s] \in {"put", "inner", "kept"} => mine[s] # 0
  /\ kpc[s] \in {"find", "create"} => mine[s] = 0
  /\ mine[s] # 0 => mine[s] <= Len(owner) /\ owner[mine[s]] = ProxyOf(s)

(* A jar holds cookies of its proxy that calls have set, one of each key. *)
JarInv(j) ==
  /\ \A c \in kept[j] : given[c.value].proxy = owner[j] /\ kpc[c.value] = "done"
  /\ \A c \in inner[j] :
       /\ given[c.value].proxy = owner[j] /\ kpc[c.value] \in {"kept", "done"}
       /\ c.domain \in Suffixes => c.domain = given[c.value].host
       /\ mine[c.value] = j => DomainMatch(given[c.value].host, c.domain)
  /\ \A c, d \in inner[j] : Key(c) = Key(d) => c = d

(* So do the storage and a flush on its way there. *)
StoreInv(p) ==
  /\ \A c \in memory[p] \cup disk[p] \cup janitor[p].flush :
       given[c.value].proxy = p /\ kpc[c.value] = "done"
  /\ jars[p] # 0 => jars[p] <= Len(owner) /\ owner[jars[p]] = p
  /\ janitor[p].pc # "idle" => janitor[p].jar \in 1 .. Len(owner) /\ owner[janitor[p].jar] = p

(* What is not saved will be: it is dirty, or in a flush of the jar. *)
SavedInv(p) ==
  jars[p] \notin outdated \cup {0} =>
    /\ janitor[p].pc = "idle" => dirty[jars[p]] \/ kept[jars[p]] = memory[p]
    /\ janitor[p].pc # "idle" => janitor[p].jar = jars[p]
    /\ janitor[p].pc = "save" => dirty[jars[p]] \/ kept[jars[p]] = janitor[p].flush

CookieInv ==
  /\ CookieType
  /\ \A s \in Setters : SetterInv(s)
  /\ \A j \in 1 .. Len(owner) : JarInv(j)
  /\ \A p \in Proxies : StoreInv(p) /\ SavedInv(p)
  /\ ~failed => memory = disk

LEMMA CookiesStart == CookieInit => CookieInv
  <1> SUFFICES ASSUME CookieInit PROVE CookieInv
    OBVIOUS
  <1>1. CookieType
    <2>1. Idle \in [pc : {"idle", "snapshot", "save"}, jar : Nat, flush : SUBSET Jarred]
      BY DEF Idle
    <2> HIDE DEF Idle
    <2>2. /\ owner \in Seq(Proxies) /\ inner \in Seq(SUBSET Jarred) /\ kept \in Seq(SUBSET Jarred)
          /\ dirty \in Seq(BOOLEAN) /\ Len(inner) = Len(owner) /\ Len(kept) = Len(owner) /\ Len(dirty) = Len(owner)
      BY DEF CookieInit
    <2>3. /\ memory \in [Proxies -> SUBSET Jarred] /\ disk \in [Proxies -> SUBSET Jarred]
          /\ janitor \in [Proxies -> [pc : {"idle", "snapshot", "save"}, jar : Nat, flush : SUBSET Jarred]]
      BY <2>1 DEF CookieInit
    <2> QED
      BY <2>2, <2>3 DEF CookieInit, CookieType
  <1>2. \A s \in Setters : SetterInv(s)
    BY DEF CookieInit, SetterInv
  <1>3. 1 .. Len(owner) = {}
    BY DEF CookieInit
  <1>4. \A p \in Proxies : StoreInv(p) /\ SavedInv(p)
    BY DEF CookieInit, StoreInv, SavedInv, Idle
  <1>5. ~failed => memory = disk
    BY DEF CookieInit
  <1> QED
    BY <1>1, <1>2, <1>3, <1>4, <1>5 DEF CookieInv

(* The cookie of a call: its own, for its host or a domain it names. *)
LEMMA CookieIsOwn ==
  ASSUME CookieType, NEW s \in Setters
  PROVE  /\ CookieOf(s) \in Jarred /\ CookieOf(s).value = s /\ given[s] \in SetInputs
         /\ Accepts(given[s]) =>
              /\ CookieOf(s).domain \in Suffixes => CookieOf(s).domain = given[s].host
              /\ DomainMatch(given[s].host, CookieOf(s).domain)
  <1>1. given[s] \in SetInputs
    BY DEF CookieType
  <1>2. CookieOf(s) \in Jarred /\ CookieOf(s).value = s
    BY <1>1 DEF CookieOf, PartitionOf, Jarred
  <1>3. CookieOf(s).domain = IF given[s].domain = <<>> THEN given[s].host ELSE given[s].domain
    BY DEF CookieOf
  <1>4. DomainMatch(given[s].host, given[s].host)
    <2> DEFINE h == given[s].host
    <2>1. PICK S : h \in Seq(S)
      BY <1>1, CookieAssumption
    <2> HIDE DEF h
    <2>2. SubSeq(h, 1, Len(h)) = h /\ Len(h) \in Nat
      BY <2>1, SubSeqFull
    <2>3. DomainMatch(h, h)
      BY <2>2 DEF DomainMatch
    <2> QED
      BY <2>3 DEF h
  <1> QED
    BY <1>1, <1>2, <1>3, <1>4 DEF Accepts

(* Steps that create a jar leave the others; calls only go forward. *)
Onward ==
  /\ given' = given
  /\ Len(owner) <= Len(owner') /\ \A j \in 1 .. Len(owner) : owner'[j] = owner[j]
  /\ \A s \in Setters :
       /\ kpc[s] = "done" => kpc'[s] = "done"
       /\ kpc[s] \in {"kept", "done"} => kpc'[s] \in {"kept", "done"}

LEMMA SetterSame ==
  ASSUME CookieType, CookieType', Onward, NEW s \in Setters, SetterInv(s), kpc'[s] = kpc[s], mine'[s] = mine[s]
  PROVE  SetterInv(s)'
  <1>1. ProxyOf(s)' = ProxyOf(s)
    BY DEF Onward, ProxyOf
  <1>2. mine[s] \in Nat /\ Len(owner) \in Nat /\ Len(owner') \in Nat
    BY DEF CookieType
  <1>3. mine[s] # 0 => mine[s] <= Len(owner') /\ owner'[mine[s]] = owner[mine[s]]
    BY <1>2 DEF SetterInv, Onward
  <1> QED
    BY <1>1, <1>3 DEF SetterInv

LEMMA JarSame ==
  ASSUME CookieType, Onward, NEW j \in 1 .. Len(owner), JarInv(j),
         inner'[j] = inner[j], kept'[j] = kept[j],
         \A s \in Setters : kpc[s] \in {"kept", "done"} => mine'[s] \in {0, mine[s]}
  PROVE  JarInv(j)'
  <1>1. inner[j] \subseteq Jarred /\ kept[j] \subseteq Jarred /\ owner'[j] = owner[j] /\ j # 0
    BY DEF CookieType, Onward
  <1>2. \A c \in inner[j] \cup kept[j] : c.value \in Setters
    BY <1>1 DEF Jarred
  <1>3. ASSUME NEW c \in kept[j] PROVE given'[c.value].proxy = owner'[j] /\ kpc'[c.value] = "done"
    BY <1>1, <1>2 DEF JarInv, Onward
  <1>4. ASSUME NEW c \in inner[j]
        PROVE  /\ given'[c.value].proxy = owner'[j] /\ kpc'[c.value] \in {"kept", "done"}
               /\ c.domain \in Suffixes => c.domain = given'[c.value].host
               /\ mine'[c.value] = j => DomainMatch(given'[c.value].host, c.domain)
    <2>1. c.value \in Setters /\ kpc[c.value] \in {"kept", "done"}
      BY <1>2 DEF JarInv
    <2>2. mine'[c.value] = j => mine[c.value] = j
      BY <1>1, <2>1
    <2> QED
      BY <1>1, <2>1, <2>2 DEF JarInv, Onward
  <1> QED
    BY <1>3, <1>4 DEF JarInv

LEMMA StoreSame ==
  ASSUME CookieType, Onward, NEW p \in Proxies, StoreInv(p),
         memory'[p] = memory[p], disk'[p] = disk[p], janitor'[p] = janitor[p], jars'[p] \in {0, jars[p]}
  PROVE  StoreInv(p)'
  <1>1. /\ memory[p] \subseteq Jarred /\ disk[p] \subseteq Jarred /\ janitor[p].flush \subseteq Jarred
        /\ jars[p] \in Nat /\ Len(owner) \in Nat /\ janitor[p].jar \in Nat
    BY DEF CookieType
  <1>2. ASSUME NEW c \in memory[p] \cup disk[p] \cup janitor[p].flush
        PROVE  given'[c.value].proxy = p /\ kpc'[c.value] = "done"
    <2>1. c.value \in Setters
      BY <1>1 DEF Jarred
    <2> QED
      BY <2>1 DEF StoreInv, Onward
  <1>3. jars'[p] # 0 => jars'[p] <= Len(owner') /\ owner'[jars'[p]] = p
    <2> SUFFICES ASSUME jars'[p] # 0 PROVE jars'[p] <= Len(owner') /\ owner'[jars'[p]] = p
      OBVIOUS
    <2>1. jars'[p] = jars[p] /\ jars[p] \in 1 .. Len(owner) /\ owner[jars[p]] = p
      BY <1>1 DEF StoreInv
    <2> QED
      BY <2>1 DEF Onward
  <1>4. janitor[p].pc # "idle" => janitor[p].jar \in 1 .. Len(owner') /\ owner'[janitor[p].jar] = p
    BY <1>1 DEF StoreInv, Onward
  <1> QED
    BY <1>2, <1>3, <1>4 DEF StoreInv

(* A call looks its jar up. *)
LEMMA FindJarInv ==
  ASSUME CookieInv, NEW s \in Setters, FindJar(s)
  PROVE  CookieInv'
  <1> DEFINE p == ProxyOf(s)
  <1>0. CookieType /\ kpc[s] = "find" /\ SetterInv(s) /\ p \in Proxies /\ jars[p] \in Nat
    BY CookieAssumption DEF CookieInv, CookieType, FindJar, ProxyOf
  <1>1. /\ UNCHANGED <<given, jars, owner, inner, kept, dirty, memory, disk, janitor, failed, outdated>>
        /\ mine' = [mine EXCEPT ![s] = jars[p]]
        /\ kpc' = [kpc EXCEPT ![s] = IF jars[p] = 0 THEN "create" ELSE "inner"]
    BY DEF FindJar, Let
  <1> HIDE DEF p
  <1>2. /\ mine' \in [Setters -> Nat] /\ mine'[s] = jars[p] /\ \A t \in Setters \ {s} : mine'[t] = mine[t]
        /\ kpc' \in [Setters -> {"find", "create", "put", "inner", "kept", "done"}]
        /\ kpc'[s] = (IF jars[p] = 0 THEN "create" ELSE "inner") /\ \A t \in Setters \ {s} : kpc'[t] = kpc[t]
    BY <1>0, <1>1 DEF CookieType
  <1>3. CookieType'
    BY <1>0, <1>1, <1>2 DEF CookieType
  <1>4. Onward
    BY <1>0, <1>1, <1>2 DEF Onward, CookieType
  <1>5. \A t \in Setters : SetterInv(t)'
    <2>1. \A t \in Setters \ {s} : SetterInv(t)'
      BY <1>0, <1>2, <1>3, <1>4, SetterSame DEF CookieInv
    <2>2. SetterInv(s)'
      <3>1. ProxyOf(s)' = p /\ (jars[p] # 0 => jars[p] <= Len(owner) /\ owner[jars[p]] = p)
        BY <1>0, <1>1 DEF ProxyOf, p, CookieInv, StoreInv
      <3> QED
        BY <1>1, <1>2, <3>1 DEF SetterInv
    <2> QED
      BY <2>1, <2>2
  <1>6. \A j \in 1 .. Len(owner') : JarInv(j)'
    BY <1>0, <1>1, <1>2, <1>4, JarSame DEF CookieInv
  <1>7. \A q \in Proxies : StoreInv(q)' /\ SavedInv(q)'
    BY <1>0, <1>1, <1>4, StoreSame DEF CookieInv, SavedInv
  <1> QED
    BY <1>1, <1>3, <1>5, <1>6, <1>7 DEF CookieInv

(* A jar is created with what the storage holds for its proxy. *)
LEMMA LoadedFrom ==
  ASSUME NEW cs, cs \subseteq Jarred, NEW l \in Loaded(cs)
  PROVE  /\ l \subseteq Jarred
         /\ \A c \in l : c.domain \notin Suffixes /\ \E d \in cs : d.value = c.value
         /\ \A c, d \in l : Key(c) = Key(d) => c = d
  <1>1. /\ \A c \in l : \E d \in cs : d.domain \notin Suffixes /\ c = [d EXCEPT !.part = NoPart]
        /\ \A c, d \in l : Key(c) = Key(d) => c = d
    BY DEF Loaded, Unaged
  <1>2. ASSUME NEW c \in l PROVE c \in Jarred /\ c.domain \notin Suffixes /\ \E d \in cs : d.value = c.value
    <2>1. PICK d \in cs : d.domain \notin Suffixes /\ c = [d EXCEPT !.part = NoPart]
      BY <1>1
    <2>2. d \in Jarred
      BY <2>1
    <2> QED
      BY <2>1, <2>2 DEF Jarred
  <1> QED
    BY <1>1, <1>2

LEMMA Appended ==
  ASSUME NEW S, NEW q \in Seq(S), NEW x \in S
  PROVE  /\ Append(q, x) \in Seq(S) /\ Len(Append(q, x)) = Len(q) + 1 /\ Append(q, x)[Len(q) + 1] = x
         /\ \A j \in 1 .. Len(q) : Append(q, x)[j] = q[j]
  OBVIOUS

LEMMA Replaced ==
  ASSUME NEW S, NEW q \in Seq(S), NEW m \in 1 .. Len(q), NEW x \in S
  PROVE  /\ [q EXCEPT ![m] = x] \in Seq(S) /\ Len([q EXCEPT ![m] = x]) = Len(q) /\ [q EXCEPT ![m] = x][m] = x
         /\ \A j \in 1 .. Len(q) : j # m => [q EXCEPT ![m] = x][j] = q[j]
  OBVIOUS

(* The same for the flags. *)
LEMMA Flagged ==
  ASSUME NEW q \in Seq(BOOLEAN), NEW m \in 1 .. Len(q), NEW b \in BOOLEAN
  PROVE  /\ [q EXCEPT ![m] = b] \in Seq(BOOLEAN) /\ Len([q EXCEPT ![m] = b]) = Len(q)
         /\ [q EXCEPT ![m] = b][m] = b
         /\ \A j \in 1 .. Len(q) : j # m => [q EXCEPT ![m] = b][j] = q[j]
  <1>1. PICK S : S = BOOLEAN
    OBVIOUS
  <1>2. PICK x : x \in S /\ x = b
    BY <1>1, Zenon
  <1>3. q \in Seq(S)
    BY <1>1
  <1>4. /\ [q EXCEPT ![m] = x] \in Seq(S) /\ Len([q EXCEPT ![m] = x]) = Len(q) /\ [q EXCEPT ![m] = x][m] = x
        /\ \A j \in 1 .. Len(q) : j # m => [q EXCEPT ![m] = x][j] = q[j]
    BY <1>2, <1>3, Replaced
  <1> QED
    BY <1>1, <1>2, <1>4, Zenon

LEMMA CreateJarInv ==
  ASSUME CookieInv, NEW s \in Setters, CreateJar(s)
  PROVE  CookieInv'
  <1>a. CookieType /\ ProxyOf(s) \in Proxies /\ Len(owner) \in Nat
    BY CookieAssumption DEF CookieInv, CookieType, ProxyOf
  <1>b. PICK p \in Proxies : p = ProxyOf(s)
    BY <1>a
  <1>c. PICK n \in Nat : n = Len(owner) + 1
    BY <1>a
  <1>0. /\ CookieType /\ kpc[s] = "create" /\ SetterInv(s) /\ memory[p] \subseteq Jarred
        /\ StoreInv(p) /\ Len(owner) \in Nat /\ n # 0
    BY <1>a, <1>c DEF CookieInv, CookieType, CreateJar
  <1>1. PICK l \in Loaded(memory[p]) : inner' = Append(inner, l)
    BY <1>b DEF CreateJar
  <1>2. /\ UNCHANGED <<given, jars, memory, disk, janitor, failed, outdated>>
        /\ owner' = Append(owner, p) /\ kept' = Append(kept, memory[p]) /\ dirty' = Append(dirty, FALSE)
        /\ mine' = [mine EXCEPT ![s] = n] /\ kpc' = [kpc EXCEPT ![s] = "put"]
    BY <1>b, <1>c DEF CreateJar, Let
  <1>3. /\ l \subseteq Jarred
        /\ \A c \in l : c.domain \notin Suffixes /\ \E d \in memory[p] : d.value = c.value
        /\ \A c, d \in l : Key(c) = Key(d) => c = d
    BY <1>0, LoadedFrom
  <1>4. ProxyOf(s)' = p
    BY <1>2, <1>b DEF ProxyOf
  <1>5. /\ owner' \in Seq(Proxies) /\ Len(owner') = n /\ owner'[n] = p
        /\ \A j \in 1 .. Len(owner) : owner'[j] = owner[j]
    BY <1>0, <1>2, <1>c, Appended DEF CookieType
  <1>6. /\ inner' \in Seq(SUBSET Jarred) /\ Len(inner') = n /\ inner'[n] = l
        /\ \A j \in 1 .. Len(owner) : inner'[j] = inner[j]
    BY <1>0, <1>1, <1>3, <1>c, Appended DEF CookieType
  <1>7. /\ kept' \in Seq(SUBSET Jarred) /\ Len(kept') = n /\ kept'[n] = memory[p]
        /\ \A j \in 1 .. Len(owner) : kept'[j] = kept[j]
    BY <1>0, <1>2, <1>c, Appended DEF CookieType
  <1>8. dirty' \in Seq(BOOLEAN) /\ Len(dirty') = n /\ \A j \in 1 .. Len(owner) : dirty'[j] = dirty[j]
    <2>1. dirty \in Seq(BOOLEAN) /\ Len(dirty) = Len(owner)
      BY <1>0 DEF CookieType
    <2>2. PICK S : S = BOOLEAN
      OBVIOUS
    <2>3. PICK x \in S : x = FALSE
      BY <2>2
    <2>4. dirty \in Seq(S) /\ dirty' = Append(dirty, x)
      BY <1>2, <2>1, <2>2, <2>3
    <2>5. dirty' \in Seq(S) /\ Len(dirty') = Len(dirty) + 1 /\ \A j \in 1 .. Len(dirty) : dirty'[j] = dirty[j]
      BY <2>4, Appended
    <2> QED
      BY <2>1, <2>2, <2>5, <1>c
  <1>9. /\ mine' \in [Setters -> Nat] /\ mine'[s] = n /\ \A t \in Setters \ {s} : mine'[t] = mine[t]
        /\ kpc' \in [Setters -> {"find", "create", "put", "inner", "kept", "done"}]
        /\ kpc'[s] = "put" /\ \A t \in Setters \ {s} : kpc'[t] = kpc[t]
    BY <1>0, <1>2 DEF CookieType
  <1>10. CookieType'
    BY <1>0, <1>2, <1>5, <1>6, <1>7, <1>8, <1>9 DEF CookieType
  <1>11. Onward
    BY <1>0, <1>2, <1>c, <1>5, <1>9 DEF Onward
  <1>12. \A t \in Setters : SetterInv(t)'
    <2>1. \A t \in Setters \ {s} : SetterInv(t)'
      BY <1>0, <1>9, <1>10, <1>11, SetterSame DEF CookieInv
    <2>2. SetterInv(s)'
      BY <1>0, <1>4, <1>5, <1>9 DEF SetterInv
    <2> QED
      BY <2>1, <2>2
  <1>13. \A j \in 1 .. Len(owner') : JarInv(j)'
    <2>1. \A j \in 1 .. Len(owner) : JarInv(j)'
      BY <1>0, <1>6, <1>7, <1>9, <1>11, JarSame DEF CookieInv
    <2>2. JarInv(n)'
      <3>1. ASSUME NEW c \in memory[p]
            PROVE  c.value \in Setters \ {s} /\ given'[c.value].proxy = p /\ kpc'[c.value] = "done"
        <4>1. c.value \in Setters /\ given[c.value].proxy = p /\ kpc[c.value] = "done"
          BY <1>0 DEF Jarred, StoreInv
        <4> QED
          BY <1>0, <1>2, <1>9, <4>1
      <3>2. ASSUME NEW c \in l
            PROVE  /\ given'[c.value].proxy = p /\ kpc'[c.value] \in {"kept", "done"}
                   /\ c.domain \notin Suffixes /\ mine'[c.value] # n
        <4>1. c.value \in Setters \ {s} /\ given'[c.value].proxy = p /\ kpc'[c.value] = "done"
          BY <1>3, <3>1
        <4>2. mine[c.value] # n
          <5>1. SetterInv(c.value) /\ mine[c.value] \in Nat
            BY <1>0, <4>1 DEF CookieInv, CookieType
          <5> QED
            BY <1>0, <1>c, <5>1 DEF SetterInv
        <4> QED
          BY <1>3, <1>9, <4>1, <4>2
      <3> QED
        BY <1>3, <1>5, <1>6, <1>7, <3>1, <3>2 DEF JarInv
    <2>3. \A j \in 1 .. Len(owner') : j \in 1 .. Len(owner) \/ j = n
      BY <1>0, <1>5, <1>c
    <2> QED
      BY <2>1, <2>2, <2>3
  <1>14. \A q \in Proxies : StoreInv(q)'
    BY <1>0, <1>2, <1>11, StoreSame DEF CookieInv
  <1>15. \A q \in Proxies : SavedInv(q)'
    <2> SUFFICES ASSUME NEW q \in Proxies PROVE SavedInv(q)'
      OBVIOUS
    <2>1. SavedInv(q) /\ jars[q] \in Nat /\ (jars[q] # 0 => jars[q] \in 1 .. Len(owner))
      BY <1>0 DEF CookieInv, CookieType, StoreInv
    <2> QED
      BY <1>2, <1>7, <1>8, <2>1 DEF SavedInv
  <1> QED
    BY <1>2, <1>10, <1>12, <1>13, <1>14, <1>15 DEF CookieInv

(* Put: a jar that lost the race to a save is outdated from then on. *)
LEMMA PutJarInv ==
  ASSUME CookieInv, NEW s \in Setters, PutJar(s)
  PROVE  CookieInv'
  <1>a. CookieType /\ ProxyOf(s) \in Proxies /\ mine[s] \in Nat
    BY CookieAssumption DEF CookieInv, CookieType, ProxyOf
  <1>b. PICK p \in Proxies : p = ProxyOf(s)
    BY <1>a
  <1>c. PICK m \in Nat : m = mine[s]
    BY <1>a
  <1>0. CookieType /\ kpc[s] = "put" /\ SetterInv(s) /\ m # 0 /\ m <= Len(owner) /\ owner[m] = p
    BY <1>a, <1>b, <1>c DEF CookieInv, PutJar, SetterInv
  <1>1. /\ UNCHANGED <<given, mine, owner, inner, kept, dirty, memory, disk, janitor, failed>>
        /\ jars' = [jars EXCEPT ![p] = m] /\ kpc' = [kpc EXCEPT ![s] = "inner"]
        /\ outdated' = IF kept[m] # memory[p] \/ janitor[p].pc # "idle" THEN outdated \cup {m} ELSE outdated
    BY <1>b, <1>c DEF PutJar, Let
  <1>2. ProxyOf(s)' = p
    BY <1>1, <1>b DEF ProxyOf
  <1>3. /\ jars' \in [Proxies -> Nat] /\ jars'[p] = m /\ \A q \in Proxies \ {p} : jars'[q] = jars[q]
        /\ kpc' \in [Setters -> {"find", "create", "put", "inner", "kept", "done"}]
        /\ kpc'[s] = "inner" /\ \A t \in Setters \ {s} : kpc'[t] = kpc[t]
    BY <1>0, <1>1 DEF CookieType
  <1>4. CookieType'
    BY <1>0, <1>1, <1>3 DEF CookieType
  <1>5. Onward
    BY <1>0, <1>1, <1>3 DEF Onward, CookieType
  <1>6. \A t \in Setters : SetterInv(t)'
    <2>1. \A t \in Setters \ {s} : SetterInv(t)'
      BY <1>0, <1>1, <1>3, <1>4, <1>5, SetterSame DEF CookieInv
    <2>2. SetterInv(s)'
      BY <1>0, <1>c, <1>1, <1>2, <1>3 DEF SetterInv
    <2> QED
      BY <2>1, <2>2
  <1>7. \A j \in 1 .. Len(owner') : JarInv(j)'
    BY <1>0, <1>1, <1>5, JarSame DEF CookieInv
  <1>8. \A q \in Proxies : StoreInv(q)'
    <2>1. \A q \in Proxies \ {p} : StoreInv(q)'
      BY <1>0, <1>1, <1>3, <1>5, StoreSame DEF CookieInv
    <2>2. StoreInv(p)'
      <3>1. StoreInv(p) /\ \A c \in memory[p] \cup disk[p] \cup janitor[p].flush : c.value \in Setters
        BY <1>0 DEF CookieInv, CookieType, Jarred
      <3> QED
        BY <1>0, <1>1, <1>3, <1>5, <3>1 DEF StoreInv, Onward
    <2> QED
      BY <2>1, <2>2
  <1>9. \A q \in Proxies : SavedInv(q)'
    <2>1. ASSUME NEW q \in Proxies \ {p} PROVE SavedInv(q)'
      <3>1. SavedInv(q) /\ jars'[q] = jars[q] /\ outdated \subseteq outdated'
        BY <1>1, <1>3 DEF CookieInv
      <3> QED
        BY <1>1, <3>1 DEF SavedInv
    <2>2. SavedInv(p)'
      BY <1>1, <1>3 DEF SavedInv
    <2> QED
      BY <2>1, <2>2
  <1> QED
    BY <1>1, <1>4, <1>6, <1>7, <1>8, <1>9 DEF CookieInv

(* Set: the call's cookie into the jar's MemoryJar. *)
LEMMA SetInnerInv ==
  ASSUME CookieInv, NEW s \in Setters, SetInner(s)
  PROVE  CookieInv'
  <1>a. CookieType /\ mine[s] \in Nat
    BY DEF CookieInv, CookieType
  <1>b. PICK m \in Nat : m = mine[s]
    BY <1>a
  <1>0. /\ CookieType /\ kpc[s] = "inner" /\ SetterInv(s) /\ m \in 1 .. Len(owner) /\ owner[m] = given[s].proxy
        /\ JarInv(m) /\ inner[m] \subseteq Jarred
    BY <1>a, <1>b DEF CookieInv, CookieType, SetInner, SetterInv, ProxyOf
  <1>c. PICK c : c = CookieOf(s)
    OBVIOUS
  <1>d. PICK after : after = Stored(inner[m], given[s], c)
    OBVIOUS
  <1>1. /\ UNCHANGED <<given, mine, jars, owner, kept, dirty, memory, disk, janitor, failed, outdated>>
        /\ inner' = [inner EXCEPT ![m] = after] /\ kpc' = [kpc EXCEPT ![s] = "kept"]
    BY <1>b, <1>c, <1>d DEF SetInner, Let
  <1>2. /\ c \in Jarred /\ c.value = s
        /\ Accepts(given[s]) =>
             /\ c.domain \in Suffixes => c.domain = given[s].host
             /\ DomainMatch(given[s].host, c.domain)
    BY <1>0, <1>c, CookieIsOwn
  <1>3. /\ \A d \in after : d \in inner[m] \/ (d = c /\ Accepts(given[s]))
        /\ c \in after => c \in inner[m] \/ \A d \in after : Key(d) = Key(c) => d = c
    BY <1>d DEF Stored, Unaged
  <1>4. after \subseteq Jarred
    BY <1>0, <1>2, <1>3
  <1>5. /\ inner' \in Seq(SUBSET Jarred) /\ Len(inner') = Len(owner) /\ inner'[m] = after
        /\ \A j \in 1 .. Len(owner) : j # m => inner'[j] = inner[j]
    BY <1>0, <1>1, <1>4 DEF CookieType
  <1>6. /\ kpc' \in [Setters -> {"find", "create", "put", "inner", "kept", "done"}]
        /\ kpc'[s] = "kept" /\ \A t \in Setters \ {s} : kpc'[t] = kpc[t]
    BY <1>0, <1>1 DEF CookieType
  <1>7. CookieType'
    BY <1>0, <1>1, <1>5, <1>6 DEF CookieType
  <1>8. Onward
    BY <1>0, <1>1, <1>6 DEF Onward, CookieType
  <1>9. \A t \in Setters : SetterInv(t)'
    <2>1. \A t \in Setters \ {s} : SetterInv(t)'
      BY <1>0, <1>1, <1>6, <1>7, <1>8, SetterSame DEF CookieInv
    <2>2. SetterInv(s)'
      BY <1>0, <1>1, <1>6 DEF SetterInv, ProxyOf
    <2> QED
      BY <2>1, <2>2
  <1>10. \A j \in 1 .. Len(owner') : JarInv(j)'
    <2>1. ASSUME NEW j \in 1 .. Len(owner), j # m PROVE JarInv(j)'
      <3>1. JarInv(j) /\ inner'[j] = inner[j] /\ kept'[j] = kept[j] /\ \A t \in Setters : mine'[t] \in {0, mine[t]}
        BY <1>1, <1>5, <2>1 DEF CookieInv
      <3> QED
        BY <1>0, <1>8, <3>1, JarSame
    <2>2. JarInv(m)'
      <3>1. \A d \in inner[m] \cup kept[m] : d.value \in Setters
        BY <1>0 DEF CookieType, Jarred
      <3>2. \A d \in kept[m] : given'[d.value].proxy = owner'[m] /\ kpc'[d.value] = "done"
        BY <1>0, <1>1, <1>8, <3>1 DEF JarInv, Onward
      <3>3. ASSUME NEW d \in after
            PROVE  /\ given'[d.value].proxy = owner'[m] /\ kpc'[d.value] \in {"kept", "done"}
                   /\ d.domain \in Suffixes => d.domain = given'[d.value].host
                   /\ mine'[d.value] = m => DomainMatch(given'[d.value].host, d.domain)
        <4>1. CASE d \in inner[m]
          BY <1>0, <1>1, <1>8, <3>1, <4>1 DEF JarInv, Onward
        <4>2. CASE d = c /\ Accepts(given[s])
          BY <1>0, <1>1, <1>2, <1>6, <4>2
        <4> QED
          BY <1>3, <4>1, <4>2
      <3>4. ASSUME NEW d \in after, NEW e \in after, Key(d) = Key(e) PROVE d = e
        <4>1. CASE d \in inner[m] /\ e \in inner[m]
          BY <1>0, <3>4, <4>1 DEF JarInv
        <4>2. CASE ~(d \in inner[m] /\ e \in inner[m])
          BY <1>3, <3>4, <4>2
        <4> QED
          BY <4>1, <4>2
      <3> QED
        BY <1>1, <1>5, <3>2, <3>3, <3>4 DEF JarInv
    <2> QED
      BY <1>1, <2>1, <2>2
  <1>11. \A q \in Proxies : StoreInv(q)' /\ SavedInv(q)'
    BY <1>0, <1>1, <1>8, StoreSame DEF CookieInv, SavedInv
  <1> QED
    BY <1>1, <1>7, <1>9, <1>10, <1>11 DEF CookieInv

(* Then into the map that is saved, which is dirty if that changed it. *)
LEMMA SetKeptInv ==
  ASSUME CookieInv, NEW s \in Setters, SetKept(s)
  PROVE  CookieInv'
  <1>a. CookieType /\ mine[s] \in Nat
    BY DEF CookieInv, CookieType
  <1>b. PICK m \in Nat : m = mine[s]
    BY <1>a
  <1>0. /\ CookieType /\ kpc[s] = "kept" /\ SetterInv(s) /\ m \in 1 .. Len(owner) /\ owner[m] = given[s].proxy
        /\ JarInv(m) /\ kept[m] \subseteq Jarred
    BY <1>a, <1>b DEF CookieInv, CookieType, SetKept, SetterInv, ProxyOf
  <1>c. PICK c : c = CookieOf(s)
    OBVIOUS
  <1>d. PICK after : after = Recorded(kept[m], given[s], c)
    OBVIOUS
  <1>1. /\ UNCHANGED <<given, mine, jars, owner, inner, memory, disk, janitor, failed, outdated>>
        /\ kept' = [kept EXCEPT ![m] = after] /\ kpc' = [kpc EXCEPT ![s] = "done"]
        /\ dirty' = IF kept[m] # after THEN [dirty EXCEPT ![m] = TRUE] ELSE dirty
    BY <1>b, <1>c, <1>d DEF SetKept, Let, Changed
  <1>2. c \in Jarred /\ c.value = s
    BY <1>0, <1>c, CookieIsOwn
  <1>3. \A d \in after : d \in kept[m] \/ d = c
    BY <1>d DEF Recorded, Unaged
  <1>4. after \subseteq Jarred
    BY <1>0, <1>2, <1>3
  <1>5. /\ kept' \in Seq(SUBSET Jarred) /\ Len(kept') = Len(owner) /\ kept'[m] = after
        /\ \A j \in 1 .. Len(owner) : j # m => kept'[j] = kept[j]
    BY <1>0, <1>1, <1>4 DEF CookieType
  <1>6. /\ dirty' \in Seq(BOOLEAN) /\ Len(dirty') = Len(owner)
        /\ kept[m] # after => dirty'[m]
        /\ kept[m] = after => dirty' = dirty
        /\ \A j \in 1 .. Len(owner) : j # m => dirty'[j] = dirty[j]
    <2>1. dirty \in Seq(BOOLEAN) /\ Len(dirty) = Len(owner) /\ m \in 1 .. Len(dirty)
      BY <1>0 DEF CookieType
    <2>2. CASE kept[m] = after
      BY <1>1, <2>1, <2>2, Zenon
    <2>3. CASE kept[m] # after
      <3>0. PICK b \in BOOLEAN : b = TRUE
        OBVIOUS
      <3>1. dirty' = [dirty EXCEPT ![m] = b]
        BY <1>1, <2>3, <3>0, Zenon
      <3>2. /\ dirty' \in Seq(BOOLEAN) /\ Len(dirty') = Len(dirty) /\ dirty'[m] = b
            /\ \A j \in 1 .. Len(dirty) : j # m => dirty'[j] = dirty[j]
        BY <2>1, <3>1, Flagged
      <3>3. dirty'[m]
        BY <3>0, <3>2, Zenon
      <3> QED
        BY <2>1, <2>3, <3>2, <3>3
    <2> QED
      BY <2>2, <2>3
  <1>7. /\ kpc' \in [Setters -> {"find", "create", "put", "inner", "kept", "done"}]
        /\ kpc'[s] = "done" /\ \A t \in Setters \ {s} : kpc'[t] = kpc[t]
    BY <1>0, <1>1 DEF CookieType
  <1>8. CookieType'
    BY <1>0, <1>1, <1>5, <1>6, <1>7 DEF CookieType
  <1>9. Onward
    BY <1>0, <1>1, <1>7 DEF Onward, CookieType
  <1>10. \A t \in Setters : SetterInv(t)'
    <2>1. \A t \in Setters \ {s} : SetterInv(t)'
      BY <1>0, <1>1, <1>7, <1>8, <1>9, SetterSame DEF CookieInv
    <2>2. SetterInv(s)'
      BY <1>0, <1>1, <1>7 DEF SetterInv, ProxyOf
    <2> QED
      BY <2>1, <2>2
  <1>11. \A j \in 1 .. Len(owner') : JarInv(j)'
    <2>1. ASSUME NEW j \in 1 .. Len(owner), j # m PROVE JarInv(j)'
      <3>1. JarInv(j) /\ inner'[j] = inner[j] /\ kept'[j] = kept[j] /\ \A t \in Setters : mine'[t] \in {0, mine[t]}
        BY <1>1, <1>5, <2>1 DEF CookieInv
      <3> QED
        BY <1>0, <1>9, <3>1, JarSame
    <2>2. JarInv(m)'
      <3>1. \A d \in inner[m] \cup kept[m] : d.value \in Setters
        BY <1>0 DEF CookieType, Jarred
      <3>2. ASSUME NEW d \in after PROVE given'[d.value].proxy = owner'[m] /\ kpc'[d.value] = "done"
        <4>1. CASE d \in kept[m]
          BY <1>0, <1>1, <1>9, <3>1, <4>1 DEF JarInv, Onward
        <4>2. CASE d = c
          BY <1>0, <1>1, <1>2, <1>7, <4>2
        <4> QED
          BY <1>3, <4>1, <4>2
      <3>3. \A d \in inner[m] :
              /\ given'[d.value].proxy = owner'[m] /\ kpc'[d.value] \in {"kept", "done"}
              /\ d.domain \in Suffixes => d.domain = given'[d.value].host
              /\ mine'[d.value] = m => DomainMatch(given'[d.value].host, d.domain)
        BY <1>0, <1>1, <1>9, <3>1 DEF JarInv, Onward
      <3> QED
        BY <1>0, <1>1, <1>5, <3>2, <3>3 DEF JarInv
    <2> QED
      BY <1>1, <2>1, <2>2
  <1>12. \A q \in Proxies : StoreInv(q)'
    BY <1>0, <1>1, <1>9, StoreSame DEF CookieInv
  <1>13. \A q \in Proxies : SavedInv(q)'
    <2> SUFFICES ASSUME NEW q \in Proxies, jars[q] \notin outdated \cup {0} PROVE SavedInv(q)'
      BY <1>1 DEF SavedInv
    <2>1. SavedInv(q) /\ jars[q] \in 1 .. Len(owner)
      BY <1>0 DEF CookieInv, CookieType, StoreInv
    <2>2. CASE jars[q] # m \/ kept[m] = after
      <3>1. kept'[jars[q]] = kept[jars[q]] /\ (dirty'[jars[q]] <=> dirty[jars[q]])
        BY <1>5, <1>6, <2>1, <2>2
      <3> QED
        BY <1>1, <2>1, <3>1 DEF SavedInv
    <2>3. CASE jars[q] = m /\ kept[m] # after
      BY <1>1, <1>6, <2>1, <2>3 DEF SavedInv
    <2> QED
      BY <2>2, <2>3
  <1> QED
    BY <1>1, <1>8, <1>10, <1>11, <1>12, <1>13 DEF CookieInv

(* The janitor purges a jar, and takes its dirt on itself. *)
LEMMA JanitorPurges ==
  ASSUME CookieInv, NEW p \in Proxies, Purge(p)
  PROVE  CookieInv'
  <1>a. CookieType /\ jars[p] \in Nat
    BY DEF CookieInv, CookieType
  <1>b. PICK m \in Nat : m = jars[p]
    BY <1>a
  <1>0. m \in 1 .. Len(owner) /\ owner[m] = p /\ JarInv(m) /\ kept[m] \subseteq Jarred
    BY <1>a, <1>b DEF CookieInv, CookieType, StoreInv, Purge
  <1>c. PICK after : after = Unaged(kept[m])
    OBVIOUS
  <1>1. /\ UNCHANGED <<given, kpc, mine, jars, owner, inner, memory, disk, failed, outdated>>
        /\ kept' = [kept EXCEPT ![m] = after] /\ dirty' = [dirty EXCEPT ![m] = FALSE]
        /\ janitor' = [janitor EXCEPT ![p] = [pc |-> "snapshot", jar |-> m, flush |-> {}]]
    BY <1>b, <1>c DEF Purge, Let
  <1>2. after \subseteq kept[m]
    BY <1>c DEF Unaged
  <1>3. /\ kept' \in Seq(SUBSET Jarred) /\ Len(kept') = Len(owner) /\ kept'[m] = after
        /\ \A j \in 1 .. Len(owner) : j # m => kept'[j] = kept[j]
    BY <1>a, <1>0, <1>1, <1>2 DEF CookieType
  <1>4. /\ dirty' \in Seq(BOOLEAN) /\ Len(dirty') = Len(owner)
        /\ \A j \in 1 .. Len(owner) : j # m => dirty'[j] = dirty[j]
    <2>1. dirty \in Seq(BOOLEAN) /\ Len(dirty) = Len(owner) /\ m \in 1 .. Len(dirty)
      BY <1>a, <1>0 DEF CookieType
    <2>2. PICK b \in BOOLEAN : b = FALSE
      OBVIOUS
    <2>3. dirty' = [dirty EXCEPT ![m] = b]
      BY <1>1, <2>2, Zenon
    <2>4. /\ dirty' \in Seq(BOOLEAN) /\ Len(dirty') = Len(dirty)
          /\ \A j \in 1 .. Len(dirty) : j # m => dirty'[j] = dirty[j]
      BY <2>1, <2>3, Flagged
    <2> QED
      BY <2>1, <2>4, Zenon
  <1>5. /\ janitor' \in [Proxies -> [pc : {"idle", "snapshot", "save"}, jar : Nat, flush : SUBSET Jarred]]
        /\ janitor'[p] = [pc |-> "snapshot", jar |-> m, flush |-> {}]
        /\ \A q \in Proxies \ {p} : janitor'[q] = janitor[q]
    BY <1>a, <1>1 DEF CookieType
  <1>6. CookieType'
    BY <1>a, <1>1, <1>3, <1>4, <1>5 DEF CookieType
  <1>7. Onward
    BY <1>a, <1>1 DEF Onward, CookieType
  <1>8. \A t \in Setters : SetterInv(t)'
    BY <1>a, <1>1, <1>6, <1>7, SetterSame DEF CookieInv
  <1>9. \A j \in 1 .. Len(owner') : JarInv(j)'
    <2>1. ASSUME NEW j \in 1 .. Len(owner), j # m PROVE JarInv(j)'
      <3>1. JarInv(j) /\ inner'[j] = inner[j] /\ kept'[j] = kept[j] /\ \A t \in Setters : mine'[t] \in {0, mine[t]}
        BY <1>1, <1>3, <2>1 DEF CookieInv
      <3> QED
        BY <1>a, <1>7, <3>1, JarSame
    <2>2. JarInv(m)'
      BY <1>0, <1>1, <1>2, <1>3 DEF JarInv
    <2> QED
      BY <1>1, <2>1, <2>2
  <1>10. \A q \in Proxies : StoreInv(q)'
    <2>1. \A q \in Proxies \ {p} : StoreInv(q)'
      BY <1>a, <1>1, <1>5, <1>7, StoreSame DEF CookieInv
    <2>2. StoreInv(p)'
      <3>1. StoreInv(p) /\ janitor'[p].flush = {} /\ janitor'[p].jar = m
        BY <1>5 DEF CookieInv
      <3> QED
        BY <1>0, <1>1, <3>1 DEF StoreInv
    <2> QED
      BY <2>1, <2>2
  <1>11. \A q \in Proxies : SavedInv(q)'
    <2>1. ASSUME NEW q \in Proxies \ {p} PROVE SavedInv(q)'
      <3>1. SavedInv(q) /\ (jars[q] # 0 => jars[q] \in 1 .. Len(owner) /\ jars[q] # m)
        BY <1>a, <1>0 DEF CookieInv, CookieType, StoreInv
      <3> QED
        BY <1>1, <1>3, <1>4, <1>5, <3>1 DEF SavedInv
    <2>2. SavedInv(p)'
      BY <1>b, <1>1, <1>5 DEF SavedInv
    <2> QED
      BY <2>1, <2>2
  <1> QED
    BY <1>1, <1>6, <1>8, <1>9, <1>10, <1>11 DEF CookieInv

LEMMA SnapshotInv ==
  ASSUME CookieInv, NEW p \in Proxies, Snapshot(p)
  PROVE  CookieInv'
  <1>a. CookieType /\ StoreInv(p) /\ janitor[p].pc = "snapshot" /\ janitor[p].jar \in Nat
    BY DEF CookieInv, CookieType, Snapshot
  <1>b. PICK m \in Nat : m = janitor[p].jar
    BY <1>a
  <1>c. m \in 1 .. Len(owner) /\ owner[m] = p /\ JarInv(m) /\ kept[m] \subseteq Jarred
    BY <1>a, <1>b DEF CookieInv, CookieType, StoreInv
  <1>1. /\ UNCHANGED <<given, kpc, mine, jars, owner, inner, kept, dirty, memory, disk, failed, outdated>>
        /\ janitor' = [janitor EXCEPT ![p] = [janitor[p] EXCEPT !.pc = "save", !.flush = kept[m]]]
    BY <1>b DEF Snapshot, Let
  <1>2. /\ janitor' \in [Proxies -> [pc : {"idle", "snapshot", "save"}, jar : Nat, flush : SUBSET Jarred]]
        /\ janitor'[p].pc = "save" /\ janitor'[p].jar = m /\ janitor'[p].flush = kept[m]
        /\ \A q \in Proxies \ {p} : janitor'[q] = janitor[q]
    BY <1>a, <1>b, <1>c, <1>1 DEF CookieType
  <1>3. CookieType'
    BY <1>a, <1>1, <1>2 DEF CookieType
  <1>4. Onward
    BY <1>a, <1>1 DEF Onward, CookieType
  <1>5. (\A t \in Setters : SetterInv(t)') /\ \A j \in 1 .. Len(owner') : JarInv(j)'
    BY <1>a, <1>1, <1>3, <1>4, SetterSame, JarSame DEF CookieInv
  <1>6. \A q \in Proxies : StoreInv(q)'
    <2>1. \A q \in Proxies \ {p} : StoreInv(q)'
      BY <1>a, <1>1, <1>2, <1>4, StoreSame DEF CookieInv
    <2>2. StoreInv(p)'
      BY <1>a, <1>c, <1>1, <1>2 DEF StoreInv, JarInv
    <2> QED
      BY <2>1, <2>2
  <1>7. \A q \in Proxies : SavedInv(q)'
    <2>1. \A q \in Proxies \ {p} : SavedInv(q)'
      BY <1>1, <1>2 DEF CookieInv, SavedInv
    <2>2. SavedInv(p)'
      BY <1>a, <1>b, <1>1, <1>2 DEF CookieInv, SavedInv
    <2> QED
      BY <2>1, <2>2
  <1> QED
    BY <1>1, <1>3, <1>5, <1>6, <1>7 DEF CookieInv

LEMMA SaveInv ==
  ASSUME CookieInv, NEW p \in Proxies, NEW b \in BOOLEAN, Save(p, b)
  PROVE  CookieInv'
  <1>a. CookieType /\ StoreInv(p) /\ SavedInv(p) /\ janitor[p].pc = "save" /\ janitor[p].flush \subseteq Jarred
    BY DEF CookieInv, CookieType, Save
  <1>b. PICK flush : flush = janitor[p].flush
    OBVIOUS
  <1>1. /\ UNCHANGED <<given, kpc, mine, jars, owner, inner, kept, dirty, outdated>>
        /\ memory' = [memory EXCEPT ![p] = flush] /\ disk' = (IF b THEN memory' ELSE disk)
        /\ (failed' <=> failed \/ ~b) /\ janitor' = [janitor EXCEPT ![p] = Idle]
    BY <1>b DEF Save, Let
  <1>2. /\ memory' \in [Proxies -> SUBSET Jarred] /\ memory'[p] = flush
        /\ \A q \in Proxies \ {p} : memory'[q] = memory[q]
    BY <1>a, <1>b, <1>1 DEF CookieType
  <1>3. /\ disk' \in [Proxies -> SUBSET Jarred] /\ disk'[p] \in {flush, disk[p]}
        /\ \A q \in Proxies \ {p} : disk'[q] \in {memory[q], disk[q]}
        /\ ~failed' => memory' = disk'
    BY <1>a, <1>1, <1>2 DEF CookieType
  <1>4. Idle \in [pc : {"idle", "snapshot", "save"}, jar : Nat, flush : SUBSET Jarred]
    BY DEF Idle
  <1>5. /\ janitor' \in [Proxies -> [pc : {"idle", "snapshot", "save"}, jar : Nat, flush : SUBSET Jarred]]
        /\ janitor'[p] = Idle /\ \A q \in Proxies \ {p} : janitor'[q] = janitor[q]
    BY <1>a, <1>1, <1>4 DEF CookieType
  <1>6. CookieType'
    BY <1>a, <1>1, <1>2, <1>3, <1>5 DEF CookieType
  <1>7. Onward
    BY <1>a, <1>1 DEF Onward, CookieType
  <1>8. (\A t \in Setters : SetterInv(t)') /\ \A j \in 1 .. Len(owner') : JarInv(j)'
    BY <1>a, <1>1, <1>6, <1>7, SetterSame, JarSame DEF CookieInv
  <1>9. \A q \in Proxies : StoreInv(q)'
    <2>1. ASSUME NEW q \in Proxies \ {p} PROVE StoreInv(q)'
      <3>1. StoreInv(q)
        BY DEF CookieInv
      <3> QED
        BY <1>1, <1>2, <1>3, <1>5, <3>1 DEF StoreInv
    <2>2. StoreInv(p)'
      BY <1>a, <1>b, <1>1, <1>2, <1>3, <1>5 DEF StoreInv, Idle
    <2> QED
      BY <2>1, <2>2
  <1>10. \A q \in Proxies : SavedInv(q)'
    <2>1. \A q \in Proxies \ {p} : SavedInv(q)'
      BY <1>1, <1>2, <1>5 DEF CookieInv, SavedInv
    <2>2. SavedInv(p)'
      BY <1>a, <1>b, <1>1, <1>2, <1>5 DEF SavedInv, Idle
    <2> QED
      BY <2>1, <2>2
  <1> QED
    BY <1>3, <1>6, <1>8, <1>9, <1>10 DEF CookieInv

LEMMA EvictInv ==
  ASSUME CookieInv, NEW p \in Proxies, Evict(p)
  PROVE  CookieInv'
  <1>a. CookieType
    BY DEF CookieInv
  <1>1. /\ UNCHANGED <<given, kpc, mine, owner, inner, kept, dirty, memory, disk, janitor, failed, outdated>>
        /\ jars' = [jars EXCEPT ![p] = 0]
    BY DEF Evict, Let
  <1>2. jars' \in [Proxies -> Nat] /\ jars'[p] = 0 /\ \A q \in Proxies \ {p} : jars'[q] = jars[q]
    BY <1>a, <1>1 DEF CookieType
  <1>3. CookieType'
    BY <1>a, <1>1, <1>2 DEF CookieType
  <1>4. Onward
    BY <1>a, <1>1 DEF Onward, CookieType
  <1>5. (\A t \in Setters : SetterInv(t)') /\ \A j \in 1 .. Len(owner') : JarInv(j)'
    BY <1>a, <1>1, <1>3, <1>4, SetterSame, JarSame DEF CookieInv
  <1>6. \A q \in Proxies : StoreInv(q)'
    BY <1>a, <1>1, <1>2, <1>4, StoreSame DEF CookieInv
  <1>7. \A q \in Proxies : SavedInv(q)'
    BY <1>1, <1>2 DEF CookieInv, SavedInv
  <1> QED
    BY <1>1, <1>3, <1>5, <1>6, <1>7 DEF CookieInv

(* A new process finds what the last one left in the file. *)
LEMMA RestartInv ==
  ASSUME CookieInv, Restart
  PROVE  CookieInv'
  <1>a. CookieType
    BY DEF CookieInv
  <1>1. /\ UNCHANGED <<given, owner, inner, kept, dirty, disk, failed, outdated>>
        /\ kpc' = [s \in Setters |-> IF kpc[s] = "find" THEN "find" ELSE "done"]
        /\ mine' = [s \in Setters |-> 0] /\ jars' = [p \in Proxies |-> 0]
        /\ memory' = disk /\ janitor' = [p \in Proxies |-> Idle]
    BY DEF Restart
  <1>2. Idle \in [pc : {"idle", "snapshot", "save"}, jar : Nat, flush : SUBSET Jarred]
    BY DEF Idle
  <1>3. CookieType'
    BY <1>a, <1>1, <1>2 DEF CookieType
  <1>4. Onward
    BY <1>a, <1>1 DEF Onward, CookieType
  <1>5. \A t \in Setters : SetterInv(t)'
    BY <1>1 DEF SetterInv
  <1>6. \A j \in 1 .. Len(owner') : JarInv(j)'
    BY <1>a, <1>1, <1>4, JarSame DEF CookieInv
  <1>7. \A q \in Proxies : StoreInv(q)' /\ SavedInv(q)'
    <2> SUFFICES ASSUME NEW q \in Proxies PROVE StoreInv(q)' /\ SavedInv(q)'
      OBVIOUS
    <2>1. StoreInv(q) /\ memory'[q] = disk[q] /\ disk'[q] = disk[q] /\ janitor'[q] = Idle /\ jars'[q] = 0
      BY <1>1 DEF CookieInv
    <2>2. \A c \in disk[q] : c.value \in Setters
      BY <1>a DEF CookieType, Jarred
    <2> QED
      BY <1>4, <2>1, <2>2 DEF StoreInv, SavedInv, Idle, Onward
  <1> QED
    BY <1>1, <1>3, <1>5, <1>6, <1>7 DEF CookieInv

LEMMA CookieStep == CookieInv /\ [CookieNext]_cookieVars => CookieInv'
  <1>1. ASSUME CookieInv, CookieNext PROVE CookieInv'
    <2>1. ASSUME NEW s \in Setters, Age(s) PROVE CookieInv'
      BY <1>1, <2>1 DEF Age, CookieInv, CookieType, SetterInv, ProxyOf, JarInv, StoreInv, SavedInv
    <2> QED
      BY <1>1, <2>1, FindJarInv, CreateJarInv, PutJarInv, SetInnerInv, SetKeptInv, EvictInv, JanitorPurges,
         SnapshotInv, SaveInv, RestartInv DEF CookieNext
  <1>2. ASSUME CookieInv, UNCHANGED cookieVars PROVE CookieInv'
    BY <1>2 DEF cookieVars, CookieInv, CookieType, SetterInv, ProxyOf, JarInv, StoreInv, SavedInv
  <1> QED
    BY <1>1, <1>2

(* Cookies set through one proxy are never those of another, a request sees  *)
(* one of each key and, of those set through its jar, none of a domain that  *)
(* the setting host is not in; and a jar in force that is not dirty is saved *)
(* unless a write failed or it came late - for any number of calls, proxies, *)
(* evictions, restarts and failed writes (cookie/jar.go, memory_jar.go,      *)
(* storage.go).                                                              *)
THEOREM CookiesStayKept == MCSpec => []CookiesKept
  <1>1. (\E component \in {"dns", "download", "cookies", "bodies"} : Only(component)) => CookieInv
    BY CookiesStart DEF Only
  <1>2. CookieInv /\ [MCNext]_allVars => CookieInv'
    <2>1. [MCNext]_allVars => [CookieNext]_cookieVars
      BY DEF MCNext, allVars
    <2> QED
      BY <2>1, CookieStep
  <1>3. CookieInv => CookiesKept
    <2> SUFFICES ASSUME CookieInv PROVE CookiesKept
      OBVIOUS
    <2>1. SessionsIndependent
      <3> SUFFICES ASSUME NEW p \in Proxies
                   PROVE  /\ \A c \in memory[p] \cup disk[p] : given[c.value].proxy = p
                          /\ jars[p] # 0 =>
                               /\ \A c \in inner[jars[p]] \cup kept[jars[p]] : given[c.value].proxy = p
                               /\ \A c \in inner[jars[p]] :
                                    /\ c.domain \in Suffixes => c.domain = given[c.value].host
                                    /\ mine[c.value] = jars[p] => DomainMatch(given[c.value].host, c.domain)
                               /\ \A c, d \in inner[jars[p]] : Key(c) = Key(d) => c = d
        BY DEF SessionsIndependent, Visible, Unaged
      <3>1. StoreInv(p) /\ jars[p] \in Nat
        BY DEF CookieInv, CookieType
      <3>2. ASSUME jars[p] # 0 PROVE owner[jars[p]] = p /\ JarInv(jars[p])
        BY <3>1, <3>2 DEF CookieInv, StoreInv
      <3> QED
        BY <3>1, <3>2 DEF StoreInv, JarInv
    <2>2. CleanMeansSaved
      BY DEF CleanMeansSaved, CookieInv, SavedInv
    <2> QED
      BY <2>1, <2>2 DEF CookiesKept
  <1> QED
    BY <1>1, <1>2, <1>3, PTL DEF MCSpec
=============================================================================
