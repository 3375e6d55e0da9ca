---------------------------- MODULE StaleResolver ----------------------------
(***************************************************************************)
(* StaleResolver (dns/stale.go) in front of an InMemoryDNSCache, for one   *)
(* host: expired records are served while a background refresh asks the    *)
(* cache, which may itself answer with stale addresses.                    *)
(***************************************************************************)
EXTENDS DnsCache

CONSTANTS
  Lookups,       \* callers of the resolver
  Refresher,     \* the goroutine of triggerBackgroundRefresh
  DefaultTTL, MaxExpired,  \* the options of the resolver
  StaleDelays    \* values of StaleDelay to explore

ASSUME CallersAssumption == Callers = Lookups \cup {Refresher} /\ Refresher \notin Lookups
ASSUME StaleAssumption == {DefaultTTL, MaxExpired} \subseteq Nat \ {0} /\ StaleDelays \subseteq Nat

VARIABLES
  staleDelay,  \* options.StaleDelay
  record,      \* s.cache[host]
  inflight,    \* host is in s.inflight
  stage,       \* what a caller does with the answer of the cache
  saved        \* the expired record a delayed lookup holds, and since when

staleVars == <<staleDelay, record, inflight, stage, saved>>
vars == <<cacheVars, staleVars>>

NoRecord == [addrs |-> 0, expiresAt |-> 0]
NotSaved == [addrs |-> 0, since |-> 0]

Init ==
  /\ CacheInit
  /\ staleDelay \in StaleDelays
  /\ record = NoRecord
  /\ inflight = FALSE
  /\ stage = [t \in Callers |-> "idle"]
  /\ saved = [l \in Lookups |-> NotSaved]

-----------------------------------------------------------------------------
(* Faulty variants of single steps, which the properties must tell apart    *)
(* from the code.                                                           *)
UsableForEver == TRUE

-----------------------------------------------------------------------------
IsFresh == now < record.expiresAt
IsUsableStale == now <= record.expiresAt + MaxExpired
Expired == record # NoRecord /\ ~IsFresh /\ IsUsableStale

Store(addrs) == record' = [addrs |-> addrs, expiresAt |-> now + DefaultTTL]

(* triggerBackgroundRefresh, where s is what the stages are otherwise. *)
Triggered(s) == IF inflight THEN s ELSE [s EXCEPT ![Refresher] = "start"]

(* LookupIPAddr: a fresh hit changes nothing.  An expired record is served  *)
(* at once when there is no delay.                                          *)
ServeExpired(l) ==
  /\ stage[l] = "idle"
  /\ Expired /\ staleDelay = 0
  /\ stage' = Triggered(stage)
  /\ inflight' = TRUE
  /\ UNCHANGED <<cacheVars, staleDelay, record, saved>>

(* lookupWithTimeout *)
LookUpDelayed(l) ==
  /\ stage[l] = "idle"
  /\ Expired /\ staleDelay > 0
  /\ stage' = [stage EXCEPT ![l] = "delayed"]
  /\ saved' = [saved EXCEPT ![l] = [addrs |-> record.addrs, since |-> now]]
  /\ Lookup(l)
  /\ UNCHANGED <<staleDelay, record, inflight>>

(* The fresh addresses are returned without being stored; without any, the  *)
(* expired ones are served and a refresh is triggered.                      *)
EndDelayed(l) ==
  /\ stage[l] = "delayed"
  /\ Return(l)
  /\ LET s == [stage EXCEPT ![l] = "idle"] IN
     stage' = IF answer[l] # 0 THEN s ELSE Triggered(s)
  /\ inflight' = (inflight \/ answer[l] = 0)
  /\ saved' = [saved EXCEPT ![l] = NotSaved]
  /\ UNCHANGED <<staleDelay, record>>

(* Nothing usable: fetchAndCache asks while the caller waits. *)
LookUpMissing(l) ==
  /\ stage[l] = "idle"
  /\ record = NoRecord \/ ~(IsFresh \/ IsUsableStale)
  /\ stage' = [stage EXCEPT ![l] = "fetch"]
  /\ Lookup(l)
  /\ UNCHANGED <<staleDelay, record, inflight, saved>>

EndFetch(l) ==
  /\ stage[l] = "fetch"
  /\ Return(l)
  /\ stage' = [stage EXCEPT ![l] = "idle"]
  /\ IF answer[l] # 0 THEN Store(answer[l]) ELSE UNCHANGED record
  /\ UNCHANGED <<staleDelay, inflight, saved>>

StartRefresh ==
  /\ stage[Refresher] = "start"
  /\ stage' = [stage EXCEPT ![Refresher] = "refresh"]
  /\ Lookup(Refresher)
  /\ UNCHANGED <<staleDelay, record, inflight, saved>>

EndRefresh ==
  /\ stage[Refresher] = "refresh"
  /\ Return(Refresher)
  /\ stage' = [stage EXCEPT ![Refresher] = "idle"]
  /\ IF answer[Refresher] # 0 THEN Store(answer[Refresher]) ELSE UNCHANGED record
  /\ inflight' = FALSE   \* the deferred Delete
  /\ UNCHANGED <<staleDelay, saved>>

(* A delayed lookup waits for staleDelay at most. *)
Tick ==
  /\ CacheTick
  /\ \A l \in Lookups : stage[l] = "delayed" => now < saved[l].since + staleDelay
  /\ UNCHANGED staleVars

-----------------------------------------------------------------------------
Next ==
  \/ \E l \in Lookups :
       ServeExpired(l) \/ LookUpDelayed(l) \/ EndDelayed(l) \/ LookUpMissing(l) \/ EndFetch(l)
  \/ StartRefresh \/ EndRefresh
  \/ CacheStep /\ UNCHANGED staleVars
  \/ Tick

Spec == Init /\ [][Next]_vars

-----------------------------------------------------------------------------
(* Two caches in a row, whatever expires, fails or is purged while a shared *)
(* lookup runs: an address the inner cache returns is younger than MaxAge;  *)
(* one the resolver serves, from its own record or after a vain wait, is    *)
(* older by the resolver's TTL, its expired time and the delay, and by no   *)
(* more; and upstream is asked no oftener than the recheck interval allows. *)
ServedAreRecent ==
  /\ AnswersAreRecent /\ RecheckKept
  /\ record # NoRecord /\ IsUsableStale => now - record.addrs < MaxAge + DefaultTTL + MaxExpired
  /\ \A l \in Lookups : stage[l] = "delayed" =>
       now - saved[l].addrs < MaxAge + DefaultTTL + MaxExpired + staleDelay
=============================================================================
