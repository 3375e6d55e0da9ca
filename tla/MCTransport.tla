----------------------------- MODULE MCTransport -----------------------------
(* Model-checking instances of ConnPool, ProxyRouting, IoUring and Wire.  A *)
(* run explores the behaviours of each with the others at rest.             *)
EXTENDS ConnPool, ProxyRouting, IoUring, Wire, TLC

(* The default pool and forced HTTP/3. *)
MuxModes == {{"EnableH2"}, {"EnableH3", "ForceH3"}}

(* Fragments of two bytes up to a limit, of one to three bytes, and cut at  *)
(* a pattern.                                                               *)
Plain == [chunk |-> 2, least |-> 0, most |-> 0, limit |-> 4, pattern |-> FALSE]
ThreeConfigs ==
  {Plain, [Plain EXCEPT !.least = 1, !.most = 4, !.limit = 0], [Plain EXCEPT !.chunk = 9, !.pattern = TRUE]}

FourOrders == {<<>>, <<":authority", "a">>, <<"a", "a", "b">>, <<"b", "host", "a">>}

(* Empty, zeros only, zeros at the end, zeros within. *)
FourTexts == {<<>>, <<0>>, <<1, 0>>, <<0, 0, 2>>}

TwoURLs == {[host |-> "h1", plain |-> TRUE], [host |-> "h2", plain |-> FALSE]}

(* A rule for local names, one by suffix and pattern whose first directive  *)
(* does not parse, and one for a subnet.                                    *)
NoRule == [local |-> FALSE, suffix |-> {}, glob |-> {}, subnet |-> FALSE, result |-> <<>>]
ThreeRules ==
  {[NoRule EXCEPT !.local = TRUE, !.result = <<"DIRECT">>],
   [NoRule EXCEPT !.suffix = {"h2"}, !.glob = {"h2"}, !.result = <<"unparsable", "p1">>],
   [NoRule EXCEPT !.subnet = TRUE, !.result = <<"p2", "DIRECT">>]}
EmptyRoute == <<"">>

SixPatterns ==
  {<<"com">>, <<"com", "*">>, <<"com", "a">>, <<"com", "*", "b">>, <<"com", "a", "*">>, <<"*">>}
SevenDomains ==
  {<<"com">>, <<"com", "a">>, <<"com", "c">>, <<"com", "a", "b">>, <<"com", "c", "b">>,
   <<"com", "a", "c", "b">>, <<"org">>}

VARIABLE focus   \* the component whose behaviour is explored

allVars == <<focus, poolVars, uringVars, wireVars, routingVars>>

Only(component) ==
  /\ focus = component
  /\ component # "pool" => mode = {"EnableH2"} /\ https = {} /\ origin \in {CHOOSE f \in [Requests -> Origins] : TRUE}
  /\ component # "uring" => kind = [c \in UringCalls |-> "read"]
  /\ component # "headers" => lines = <<>> /\ order = <<>>
  /\ component # "records" => config = Plain
  /\ component # "pac" => wants = [f \in Finders |-> CHOOSE u \in Targets : u.plain]
  /\ component # "session" =>
       proxyOf = [h \in Handshakes |-> "p"] /\ currentKey = "p" /\ bound = [h \in Handshakes |-> "wrapper"]
  /\ PoolInit /\ RoutingInit /\ UringInit /\ WireInit

MCNext ==
  \/ focus = "pool" /\ PoolNext /\ UNCHANGED <<focus, uringVars, wireVars, routingVars>>
  \/ focus = "uring" /\ UringNext /\ UNCHANGED <<focus, poolVars, wireVars, routingVars>>
  \/ focus = "headers" /\ ReorderHeaders /\ UNCHANGED <<focus, poolVars, uringVars, routingVars>>
  \/ focus = "pac" /\ PacNext /\ UNCHANGED <<focus, poolVars, uringVars, wireVars>>
  \/ focus = "trie" /\ TrieNext /\ UNCHANGED <<focus, poolVars, uringVars, wireVars>>
  \/ focus = "session" /\ SessionNext /\ UNCHANGED <<focus, poolVars, uringVars, wireVars>>
  \/ focus = "records" /\ RecordNext /\ UNCHANGED <<focus, poolVars, uringVars, routingVars>>

MCSpec ==
  /\ \E component \in {"pool", "pac", "trie", "session", "uring", "headers", "records"} : Only(component)
  /\ [][MCNext]_allVars

(* Both routers answer by the rules they have: a cached PAC route is one    *)
(* the present rules give, a caller gets no route of rules older than its   *)
(* call, and the trie finds the most specific pattern (pac.go, domain.go);  *)
(* and no handshake is offered a ticket of another proxy as long as all go  *)
(* through caches bound to theirs (session.go).                             *)
RoutersFollowRules ==
  /\ focus \in {"pac", "trie"} => RoutesFollowRules
  /\ BoundTicketsIsolated

Symmetry == Permutations(Requests)
=============================================================================
