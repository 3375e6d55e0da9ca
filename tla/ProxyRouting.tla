----------------------------- MODULE ProxyRouting ----------------------------
(***************************************************************************)
(* Which proxy a request takes and which TLS session it resumes: the rules *)
(* of the PAC engine and their cache (proxy/pac.go), the domain router on  *)
(* its trie (proxy/proxy.go, trie/domain.go), and the session caches kept  *)
(* apart by proxy (proxy/session.go).                                      *)
(***************************************************************************)
EXTENDS Naturals, Sequences, SequencesExt, FiniteSets

CONSTANTS
  Finders,       \* calls of FindProxyForURL
  Targets,       \* URLs: [host |-> , plain |-> BOOLEAN]
  Rules,         \* [local, suffix, glob, subnet, result]: see Matches
  MaxRules,
  DefaultRoute,  \* a PAC result
  Patterns,      \* domain patterns, right to left: sequences of labels
  Domains,       \* domains, right to left
  MaxRoutes,
  Handshakes,    \* TLS handshakes through a proxy
  ProxyKeys,
  Bindings,      \* "wrapper" (CloneWithProxy), "global" (SetProxyKey)
  MaxCaches      \* bound on the session caches made before a Clear

Star == "*"
NoRoute == <<>>

VARIABLES
  rules, routeCache,
  fpc, wants, since, route,
  inside,        \* hosts whose address is in the subnet, as DNS says now
  trie,          \* pattern -> value, 0 for none
  hpc, proxyOf, bound, currentKey,
  cacheOf,       \* the session cache a handshake has found for its ticket
  caches,        \* key -> session cache, 0 for none
  tickets,       \* the tickets of every session cache ever made
  offered        \* history: <<proxy of the handshake, ticket offered>>

pacVars == <<rules, routeCache, fpc, wants, since, route, inside>>
sessionVars == <<hpc, proxyOf, bound, currentKey, cacheOf, caches, tickets, offered>>
routingVars == <<pacVars, trie, sessionVars>>

RoutingInit ==
  /\ rules = <<>>
  /\ routeCache = [u \in Targets |-> NoRoute]
  /\ fpc = [f \in Finders |-> "idle"]
  /\ wants \in [Finders -> Targets]
  /\ since = [f \in Finders |-> 0]
  /\ route = [f \in Finders |-> NoRoute]
  /\ inside = {}
  /\ trie = [p \in Patterns |-> 0]
  /\ hpc = [h \in Handshakes |-> "idle"]
  /\ proxyOf \in [Handshakes -> ProxyKeys]
  /\ bound \in [Handshakes -> Bindings]
  /\ currentKey \in ProxyKeys
  /\ cacheOf = [h \in Handshakes |-> 0]
  /\ caches = [k \in ProxyKeys |-> 0]
  /\ tickets = <<>>
  /\ offered = {}

-----------------------------------------------------------------------------
(* Faulty variants of single steps, which the properties must tell apart    *)
(* from the code.                                                           *)
KeepCache == routeCache
ParentKey(h) == currentKey

-----------------------------------------------------------------------------
(* matchesRule: a plain host name settles a rule for local names; otherwise *)
(* every part the rule has must match.  in says whether the host's address  *)
(* is in the rule's subnet.                                                 *)
Matches(rule, u, in) ==
  \/ rule.local /\ u.plain
  \/ /\ rule.local => u.host \in rule.suffix
     /\ rule.suffix # {} => u.host \in rule.suffix
     /\ rule.glob # {} => u.host \in rule.glob
     /\ rule.subnet => in

(* ParsePACResult: unusable entries are dropped, and nothing is DIRECT.     *)
Parse(result) ==
  LET usable == SelectSeq(result, LAMBDA d : d \notin {"", "unparsable"})
  IN IF usable = <<>> THEN <<"DIRECT">> ELSE usable

RouteBy(rs, u, in) ==
  LET hits == {i \in DOMAIN rs : Matches(rs[i], u, in)}
  IN Parse(IF hits = {} THEN DefaultRoute ELSE rs[CHOOSE i \in hits : \A j \in hits : i <= j].result)

Cleared == [u \in Targets |-> NoRoute]

(* AddRule, under the lock. *)
AddRule(rule) ==
  /\ Len(rules) < MaxRules
  /\ rules' = Append(rules, rule)
  /\ routeCache' = Cleared
  /\ UNCHANGED <<fpc, wants, since, route, inside, trie, sessionVars>>

(* FindProxyForURL reads the cache without the lock ... *)
LoadRoute(f) ==
  /\ fpc[f] = "idle"
  /\ since' = [since EXCEPT ![f] = Len(rules)]
  /\ IF routeCache[wants[f]] # NoRoute
       THEN fpc' = [fpc EXCEPT ![f] = "done"] /\ route' = [route EXCEPT ![f] = routeCache[wants[f]]]
       ELSE fpc' = [fpc EXCEPT ![f] = "locked"] /\ UNCHANGED route
  /\ UNCHANGED <<rules, routeCache, wants, inside, trie, sessionVars>>

(* ... and evaluates the rules and stores the route under the read lock.    *)
EvaluateRules(f) ==
  LET u == wants[f]
      r == RouteBy(rules, u, u.host \in inside)
  IN
  /\ fpc[f] = "locked"
  /\ route' = [route EXCEPT ![f] = r]
  /\ routeCache' = [routeCache EXCEPT ![u] = r]
  /\ fpc' = [fpc EXCEPT ![f] = "done"]
  /\ UNCHANGED <<rules, wants, since, inside, trie, sessionVars>>

AskAgain(f) ==
  /\ fpc[f] = "done"
  /\ fpc' = [fpc EXCEPT ![f] = "idle"]
  /\ UNCHANGED <<rules, routeCache, wants, since, route, inside, trie, sessionVars>>

AddressMoves(host) ==
  /\ inside' = IF host \in inside THEN inside \ {host} ELSE inside \cup {host}
  /\ UNCHANGED <<rules, routeCache, fpc, wants, since, route, trie, sessionVars>>

-----------------------------------------------------------------------------
(* AddRoute: Insert replaces the value of a pattern. *)
AddRoute(p, v) ==
  /\ Cardinality({q \in Patterns : trie[q] # 0}) < MaxRoutes
  /\ trie' = [trie EXCEPT ![p] = v]
  /\ UNCHANGED <<pacVars, sessionVars>>

(* A node of the trie is the path that leads to it. *)
HasNode(node) == \E p \in Patterns : trie[p] # 0 /\ IsPrefix(node, p)
ValueAt(node) == IF node \in Patterns THEN trie[node] ELSE 0

TryOrder(node, d, i) == <<node \o <<d[i]>>, node \o <<Star>>>>

(* matchDomainNode: the child with the label, then the wildcard for one     *)
(* label, then the wildcard's own value for all the labels left.            *)
RECURSIVE MatchDomainNode(_, _, _)
MatchDomainNode(node, d, i) ==
  IF i > Len(d) THEN ValueAt(node)
  ELSE LET tries == TryOrder(node, d, i)
           found == [k \in 1..2 |-> IF HasNode(tries[k]) THEN MatchDomainNode(tries[k], d, i + 1) ELSE 0]
       IN IF found[1] # 0 THEN found[1]
          ELSE IF found[2] # 0 THEN found[2]
          ELSE ValueAt(node \o <<Star>>)

RouteForDomain(d) == MatchDomainNode(<<>>, d, 1)

-----------------------------------------------------------------------------
(* The key under which a handshake looks for its session cache.             *)
KeyOf(h) == IF bound[h] = "wrapper" THEN proxyOf[h] ELSE currentKey

(* getTLSCache, which creates a missing cache, and Get. *)
OfferTicket(h) ==
  LET k == KeyOf(h)
      c == IF caches[k] = 0 THEN Len(tickets) + 1 ELSE caches[k]
  IN
  /\ hpc[h] = "idle"
  /\ bound[h] = "global" => proxyOf[h] = currentKey
  /\ caches' = [caches EXCEPT ![k] = c]
  /\ tickets' = IF caches[k] = 0 THEN Append(tickets, {}) ELSE tickets
  /\ offered' = offered \cup {<<proxyOf[h], t>> : t \in tickets'[c]}
  /\ hpc' = [hpc EXCEPT ![h] = "shaking"]
  /\ UNCHANGED <<pacVars, trie, proxyOf, bound, currentKey, cacheOf>>

(* Put finds the key and the cache first and stores the server's ticket in  *)
(* it afterwards.                                                           *)
FindCache(h) ==
  LET k == KeyOf(h) IN
  /\ hpc[h] = "shaking"
  /\ caches' = [caches EXCEPT ![k] = IF @ = 0 THEN Len(tickets) + 1 ELSE @]
  /\ tickets' = IF caches[k] = 0 THEN Append(tickets, {}) ELSE tickets
  /\ cacheOf' = [cacheOf EXCEPT ![h] = caches'[k]]
  /\ hpc' = [hpc EXCEPT ![h] = "storing"]
  /\ UNCHANGED <<pacVars, trie, proxyOf, bound, currentKey, offered>>

StoreTicket(h) ==
  /\ hpc[h] = "storing"
  /\ tickets' = [tickets EXCEPT ![cacheOf[h]] = @ \cup {proxyOf[h]}]
  /\ hpc' = [hpc EXCEPT ![h] = "idle"]
  /\ cacheOf' = [cacheOf EXCEPT ![h] = 0]
  /\ UNCHANGED <<pacVars, trie, proxyOf, bound, currentKey, caches, offered>>

SetProxyKey(k) ==
  /\ currentKey' = k
  /\ UNCHANGED <<pacVars, trie, hpc, proxyOf, bound, cacheOf, caches, tickets, offered>>

ClearSessions ==
  /\ caches # [k \in ProxyKeys |-> 0]
  /\ Len(tickets) < MaxCaches
  /\ caches' = [k \in ProxyKeys |-> 0]
  /\ UNCHANGED <<pacVars, trie, hpc, proxyOf, bound, currentKey, cacheOf, tickets, offered>>

PacNext ==
  \/ \E r \in Rules : AddRule(r)
  \/ \E f \in Finders : LoadRoute(f) \/ EvaluateRules(f) \/ AskAgain(f)
  \/ \E u \in Targets : AddressMoves(u.host)

TrieNext == \E p \in Patterns, v \in 1..2 : AddRoute(p, v)

SessionNext ==
  \/ \E h \in Handshakes : OfferTicket(h) \/ FindCache(h) \/ StoreTicket(h)
  \/ \E k \in ProxyKeys : SetProxyKey(k)
  \/ ClearSessions

RoutingNext == PacNext \/ TrieNext \/ SessionNext

RoutingSpec == RoutingInit /\ [][RoutingNext]_routingVars

-----------------------------------------------------------------------------
(* A domain pattern covers a domain label by label; a wildcard covers one   *)
(* label, or all the labels left when it ends the pattern.                  *)
Covers(p, d) ==
  /\ Len(p) <= Len(d) /\ (Len(p) < Len(d) => p[Len(p)] = Star)
  /\ \A i \in DOMAIN p : p[i] \in {d[i], Star}

(* The more specific of two patterns that cover a domain: the first label   *)
(* that differs is not a wildcard, or the pattern goes on.                  *)
MoreSpecific(p, q) ==
  \/ \E i \in DOMAIN p \cap DOMAIN q : p[i] # Star /\ q[i] = Star /\ SubSeq(p, 1, i - 1) = SubSeq(q, 1, i - 1)
  \/ Len(p) > Len(q) /\ IsPrefix(q, p)

(* A cached PAC route is the one the present rules give (for some answer of *)
(* DNS), and a caller is never given a route of rules older than its call.  *)
(* The domain router returns the value of the most specific pattern.        *)
RoutesFollowRules ==
  /\ \A u \in Targets : routeCache[u] # NoRoute =>
       routeCache[u] \in {RouteBy(rules, u, in) : in \in BOOLEAN}
  /\ \A f \in Finders : fpc[f] = "done" =>
       \E n \in since[f]..Len(rules), in \in BOOLEAN : route[f] = RouteBy(SubSeq(rules, 1, n), wants[f], in)
  /\ \A d \in Domains :
       LET hits == {p \in Patterns : trie[p] # 0 /\ Covers(p, d)}
           best == {p \in hits : \A q \in hits \ {p} : MoreSpecific(p, q)}
       IN RouteForDomain(d) = IF hits = {} THEN 0 ELSE trie[CHOOSE p \in best : TRUE]

(* As long as all handshakes go through caches bound to their proxy, none   *)
(* is offered a ticket that was issued through another proxy, whatever      *)
(* happens to the global key and to the caches meanwhile.                   *)
BoundTicketsIsolated ==
  (\A h \in Handshakes : bound[h] = "wrapper") => \A o \in offered : o[1] = o[2]

-----------------------------------------------------------------------------
(* "prevents server-side tracking of a client across different exit IPs via *)
(* session ticket correlation" (proxy/session.go:14), with SetProxyKey.     *)
TicketsIsolated == \A o \in offered : o[1] = o[2]
=============================================================================
