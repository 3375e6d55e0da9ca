------------------------------ MODULE DnsCache ------------------------------
(***************************************************************************)
(* InMemoryDNSCache (dns/cache.go) as one host sees it: fresh, stale and   *)
(* negative entries, the NXDOMAIN cut by an ancestor, lookups shared       *)
(* through dedup.Group, the fall back to stale addresses and the purge     *)
(* that runs beside them.  Hosts meet only in that cut.  An address stands  *)
(* for the time at which upstream gave it.                                 *)
(***************************************************************************)
EXTENDS Naturals, FiniteSets

CONSTANTS
  Callers,       \* goroutines that call LookupIPAddr
  TTL, NegativeTTL, MaxStale, ClientTimeout,  \* the options of the cache
  RecordTTL,     \* lowest TTL of the records of an extended resolver
  Recheck,       \* FailureRecheckInterval
  MaxTime        \* bound on the clock

ASSUME DurationsAssumption ==
  {TTL, NegativeTTL, MaxStale, ClientTimeout, RecordTTL, Recheck, MaxTime} \subseteq Nat \ {0}

VARIABLES
  extended,  \* c.resolver has LookupDNSRecords
  entry,     \* c.cache[host]
  flight,    \* c.sflight[host]
  now,
  pc,        \* of each caller
  answer,    \* what it was given: an address, 0 for an error or none
  doomed,    \* the purge has found the entry expired and is about to delete it
  early,     \* callers that loaded the entry before a failure was noted in it (a ghost)
  denied     \* what was made of the last denial: "heeded" or "ignored", "" since an answer (a ghost)

cacheVars == <<extended, entry, flight, now, pc, answer, doomed, early, denied>>

NoEntry == [kind |-> "none", ips |-> 0, freshUntil |-> 0, lastFailure |-> 0]
NoFlight == [stage |-> "none", start |-> 0, entry |-> NoEntry, late |-> FALSE]

CacheInit ==
  /\ extended \in BOOLEAN
  /\ entry = NoEntry
  /\ flight = NoFlight
  /\ now \in 1 .. MaxTime
  /\ pc = [t \in Callers |-> "idle"]
  /\ answer = [t \in Callers |-> 0]
  /\ doomed = FALSE
  /\ early = {}
  /\ denied = ""

-----------------------------------------------------------------------------
(* Faulty variants of single steps, which the properties must tell apart    *)
(* from the code.                                                           *)
OldKept == IF entry.kind = "pos" THEN entry ELSE NoEntry

-----------------------------------------------------------------------------
Positive(ips, until) == [kind |-> "pos", ips |-> ips, freshUntil |-> until, lastFailure |-> 0]

StaleUntil(e) == IF e.kind = "pos" THEN e.freshUntil + MaxStale ELSE e.freshUntil

Fresh(e, n) == e.kind # "none" /\ n < e.freshUntil

Stale(e, n) == e.kind = "pos" /\ n < StaleUntil(e)

(* The failure recheck window. *)
InRecheck(e, n) == Stale(e, n) /\ e.lastFailure # 0 /\ n - e.lastFailure < Recheck

(* LookupIPAddr up to the return of a hit or the first look at ancestors. *)
Lookup(t) ==
  /\ pc[t] = "idle"
  /\ IF Fresh(entry, now) \/ InRecheck(entry, now)
       THEN /\ pc' = [pc EXCEPT ![t] = "ret"]
            /\ answer' = [answer EXCEPT ![t] = entry.ips]
       ELSE /\ pc' = [pc EXCEPT ![t] = "ancestors"]
            /\ UNCHANGED answer
  /\ UNCHANGED <<extended, entry, flight, now, doomed, early, denied>>

(* checkAncestorNXDOMAIN, before the shared lookup: whether the cache holds  *)
(* a fresh NXDOMAIN of an ancestor is left open.                            *)
CheckAncestors(t) ==
  /\ pc[t] = "ancestors"
  /\ \E cut \in BOOLEAN : pc' = [pc EXCEPT ![t] = IF cut THEN "ret" ELSE "do"]
  /\ UNCHANGED <<extended, entry, flight, now, answer, doomed, early, denied>>

(* sflight.Do: begin the shared lookup or wait for its result. *)
Do(t) ==
  /\ pc[t] = "do"
  /\ pc' = [pc EXCEPT ![t] = "wait"]
  /\ flight' = IF flight # NoFlight THEN flight
               ELSE [stage |-> "begin", start |-> 0, entry |-> NoEntry, late |-> t \in early]
  /\ early' = early \ {t}
  /\ UNCHANGED <<extended, entry, now, answer, doomed, denied>>

(* The context of a caller ends while it waits. *)
WaitCancelled(t) ==
  /\ pc[t] = "wait"
  /\ pc' = [pc EXCEPT ![t] = "ret"]
  /\ UNCHANGED <<extended, entry, flight, now, answer, doomed, early, denied>>

(* The caller goes on with its answer. *)
Return(t) ==
  /\ pc[t] = "ret"
  /\ pc' = [pc EXCEPT ![t] = "idle"]
  /\ answer' = [answer EXCEPT ![t] = 0]
  /\ UNCHANGED <<extended, entry, flight, now, doomed, early, denied>>

-----------------------------------------------------------------------------
(* The function run once for all callers of the host.                       *)

(* It returns ips, or 0, to everybody who waits. *)
Settle(ips) ==
  /\ flight' = NoFlight
  /\ pc' = [t \in Callers |-> IF pc[t] = "wait" THEN "ret" ELSE pc[t]]
  /\ answer' = [t \in Callers |-> IF pc[t] = "wait" THEN ips ELSE answer[t]]
  /\ UNCHANGED <<extended, now, doomed>>

(* The second look at the cache. *)
FlightHit ==
  /\ flight.stage = "begin"
  /\ Fresh(entry, now)
  /\ Settle(entry.ips)
  /\ UNCHANGED <<entry, early, denied>>

(* The second look at the ancestors. *)
FlightCut ==
  /\ flight.stage = "begin"
  /\ ~Fresh(entry, now)
  /\ Settle(0)
  /\ UNCHANGED <<entry, early, denied>>

FlightQuery ==
  /\ flight.stage = "begin"
  /\ ~Fresh(entry, now)
  /\ flight' = [stage |-> IF extended THEN "records" ELSE "query",
                start |-> now, entry |-> entry, late |-> flight.late]
  /\ UNCHANGED <<extended, entry, now, pc, answer, doomed, early, denied>>

(* The stale entry seen at the start may be served. *)
InReserve == Stale(flight.entry, flight.start)

(* It is stored with the time of the failure, the start of the query. *)
FailureNoted == [flight.entry EXCEPT !.lastFailure = flight.start]

ServeStale ==
  /\ InReserve
  /\ entry' = FailureNoted
  /\ early' = early \cup {t \in Callers : pc[t] \in {"ancestors", "do"}}
  /\ Settle(flight.entry.ips)

(* LookupDNSRecords: storeRecords counts the TTL from the answer. *)
RecordsAnswered ==
  /\ flight.stage = "records"
  /\ entry' = Positive(now, now + RecordTTL)
  /\ denied' = ""
  /\ Settle(now)
  /\ UNCHANGED early

(* An error of LookupDNSRecords falls back to the stale entry or else to    *)
(* LookupIPAddr, as do no records and no error.  A denial of the name is an *)
(* error like any other: with a stale entry in reserve it is overruled.     *)
RecordsFailed(why) ==
  /\ flight.stage = "records"
  /\ \/ why # "empty" /\ ServeStale
     \/ /\ why = "empty" \/ ~InReserve
        /\ flight' = [flight EXCEPT !.stage = "query"]
        /\ UNCHANGED <<extended, entry, now, pc, answer, doomed, early>>
  /\ denied' = IF why # "denied" THEN denied ELSE IF InReserve THEN "ignored" ELSE "heeded"

(* LookupIPAddr of the resolver, perhaps without an address and without an  *)
(* error: the TTL counts from the start.                                    *)
QueryAnswered(ips) ==
  /\ flight.stage = "query"
  /\ entry' = Positive(ips, flight.start + TTL)
  /\ denied' = ""
  /\ Settle(ips)
  /\ UNCHANGED early

(* The entry for NXDOMAIN and NODATA. *)
Negative == [kind |-> "neg", ips |-> 0, freshUntil |-> flight.start + NegativeTTL, lastFailure |-> 0]

QueryDenied ==
  /\ flight.stage = "query"
  /\ entry' = Negative
  /\ denied' = "heeded"
  /\ Settle(0)
  /\ UNCHANGED early

QueryFailed ==
  /\ flight.stage = "query"
  /\ ServeStale \/ (~InReserve /\ Settle(0) /\ UNCHANGED <<entry, early>>)
  /\ UNCHANGED denied

-----------------------------------------------------------------------------
(* purgeExpired: Range shows an entry, Delete removes whatever is there.    *)
PurgeSees ==
  /\ ~doomed
  /\ entry.kind # "none"
  /\ now > StaleUntil(entry)
  /\ doomed' = TRUE
  /\ UNCHANGED <<extended, entry, flight, now, pc, answer, early, denied>>

PurgeDeletes ==
  /\ doomed
  /\ entry' = NoEntry
  /\ doomed' = FALSE
  /\ UNCHANGED <<extended, flight, now, pc, answer, early, denied>>

(* The clock advances; a query with a stale entry in reserve ends within    *)
(* the client response timeout, and a goroutine that was given its answer   *)
(* uses it before the next tick.                                            *)
CacheTick ==
  /\ now < MaxTime
  /\ flight.stage \in {"records", "query"} /\ InReserve => now < flight.start + ClientTimeout
  /\ \A t \in Callers : pc[t] # "ret"
  /\ now' = now + 1
  /\ UNCHANGED <<extended, entry, flight, pc, answer, doomed, early, denied>>

FlightStep ==
  \/ FlightHit \/ FlightCut \/ FlightQuery
  \/ RecordsAnswered
  \/ \E why \in {"empty", "error", "denied"} : RecordsFailed(why)
  \/ \E ips \in {0, now} : QueryAnswered(ips)
  \/ QueryDenied \/ QueryFailed

CacheStep ==
  \/ \E t \in Callers : CheckAncestors(t) \/ Do(t) \/ WaitCancelled(t)
  \/ FlightStep
  \/ PurgeSees \/ PurgeDeletes

-----------------------------------------------------------------------------
(* The age an address has at most when LookupIPAddr returns it: its TTL,    *)
(* the stale time and the wait for an upstream that does not answer.        *)
MaxAge == (IF TTL > RecordTTL THEN TTL ELSE RecordTTL) + MaxStale + ClientTimeout

(* Whatever expires, fails or is purged while a shared lookup runs, the     *)
(* address it returns to its callers is younger than MaxAge.                *)
AnswersAreRecent ==
  \A t \in Callers : pc[t] = "ret" /\ answer[t] # 0 => now - answer[t] < MaxAge

(* Once upstream has denied a name, the addresses it had before are never   *)
(* served again, fresh or stale: no failure, purge or late store brings     *)
(* them back.  Left out is the denial by LookupDNSRecords while a stale     *)
(* entry is in reserve, which the code takes for a failure (cache.go:275).  *)
NoResurrection == denied = "heeded" => ~Stale(entry, now)

(* While a stale entry can be served, upstream is not asked again within    *)
(* the recheck interval of a failure, except by a lookup that had read the  *)
(* entry before that failure was noted in it.                               *)
RecheckKept ==
  /\ flight.stage \in {"records", "query"} /\ ~flight.late
  /\ InReserve /\ flight.entry.lastFailure # 0
  => flight.start - flight.entry.lastFailure >= Recheck

-----------------------------------------------------------------------------
(* "Strictly adhering to RFC 8767" (cache.go:56), whose section 4 takes any *)
(* authoritative answer, NXDOMAIN too, as a refresh of the data: whichever  *)
(* call brought the denial.                                                 *)
DenialEndsStale == denied # "" => ~Stale(entry, now)
=============================================================================
