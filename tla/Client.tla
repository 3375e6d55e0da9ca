------------------------------- MODULE Client -------------------------------
(***************************************************************************)
(* aoni.Client (client.go, config.go, engine.go, bridge.go, dial.go):      *)
(* construction, With, Use, Close and the way a request finds its engine,  *)
(* its middlewares, its validators and its network settings.  Go slices    *)
(* are references: an array and a length, and append writes in place while *)
(* the capacity lasts.                                                     *)
(***************************************************************************)
EXTENDS Naturals, Sequences, FiniteSets

CONSTANTS
  ClientIds,      \* the clients of a family
  Root,           \* the one NewClient makes
  Sends,          \* calls of Request
  Contexts,       \* contexts that already carry a RequestConfig
  OwnContexts,    \* those whose RequestConfig names a proxy
  Closers,        \* calls of Close
  Doers,          \* what NewClient is given: "nil", "http", "tied", "wrapper" or "custom"
  RootOptions,    \* option sets of NewClient
  ChildOptions,   \* option sets of With
  Rooms,          \* spare capacity an allocation may leave, by what it is for
  MaxUses         \* bound on the calls of Use

Nobody == "nobody"
Caller == "caller"

(* The slices that client.go allocates: the copy With makes, those that     *)
(* options and Use append to, and the client's own.                         *)
Slots == {"copy", "middlewares", "validators", "own"}

ASSUME RootAssumption ==
  /\ Root \in ClientIds /\ MaxUses \in Nat
  /\ OwnContexts \subseteq Contexts /\ Nobody \notin Contexts
ASSUME OptionsAssumption ==
  /\ Doers \subseteq {"nil", "http", "tied", "wrapper", "custom"}
  /\ \A o \in RootOptions \cup ChildOptions :
       /\ o.middlewares \in Seq(STRING) /\ o.validators \in Seq(STRING)
       /\ o.timeout \in Nat /\ o.proxy \in BOOLEAN /\ o.pipeline \in BOOLEAN
       /\ IsFiniteSet(o.hooks)
ASSUME RoomsAssumption == Rooms \subseteq [Slots -> Nat]

VARIABLES
  client,     \* each client, or NoClient
  arrays,     \* the heap of backing arrays
  engines,    \* the heap of execution engines
  ctxProxy,   \* Network settings the RequestConfig of each context holds
  usedBy,     \* clients each context was used with (a ghost)
  send,       \* each call of Request
  closing,    \* each call of Close: the hooks it drained
  hookRuns,   \* hooks run, per client
  uses        \* calls of Use so far

clientVars == <<client, arrays, engines, ctxProxy, usedBy, send, closing, hookRuns, uses>>

NoClient == [made |-> FALSE]

Fill == "empty"

-----------------------------------------------------------------------------
(* Slices of the heap h. *)
EmptySlice == [arr |-> 0, len |-> 0]
View(h, s) == IF s.arr = 0 THEN <<>> ELSE SubSeq(h[s.arr], 1, s.len)

Capacity(h, s) == IF s.arr = 0 THEN 0 ELSE Len(h[s.arr])

(* A new array for vs, with room left. *)
Allocate(h, vs, room) ==
  [heap |-> Append(h, vs \o [i \in 1..room |-> Fill]),
   slice |-> [arr |-> Len(h) + 1, len |-> Len(vs)]]

(* The heap after vs is written behind s, as far as the capacity goes. *)
Written(h, s, vs) ==
  [a \in DOMAIN h |->
     IF a # s.arr THEN h[a]
     ELSE [i \in DOMAIN h[a] |-> IF i - s.len \in DOMAIN vs THEN vs[i - s.len] ELSE h[a][i]]]

(* append(s, v) for one v of vs after the other: the heap and the slice     *)
(* afterwards.                                                              *)
AppendAll(h, s, vs, room) ==
  IF s.len + Len(vs) <= Capacity(h, s)
    THEN [heap |-> Written(h, s, vs), slice |-> [s EXCEPT !.len = @ + Len(vs)]]
    ELSE Allocate(Written(h, s, vs), View(h, s) \o vs, room)

(* slices.Clone *)
SliceClone(h, s, room) ==
  IF s.len = 0 THEN [heap |-> h, slice |-> EmptySlice] ELSE Allocate(h, View(h, s), room)

-----------------------------------------------------------------------------
(* Faulty variants of single steps, which the properties must tell apart    *)
(* from the code.                                                           *)
ShareMiddlewares(h, s, room) == [heap |-> h, slice |-> s]

-----------------------------------------------------------------------------
(* Engines.  An *http.Client ("http") is cloned with its transport, unless  *)
(* that is one CloneHTTPClient cannot copy but Transport() finds ("tied").  *)
(* Of other doers, UnwrapAs finds the *http.Client within ("wrapper") or    *)
(* nothing ("custom").  Timeout, redirect policy and dialer are the         *)
(* settings told apart.                                                     *)
DefaultHTTP == [kind |-> "http", timeout |-> 15, redirect |-> "ten", dialer |-> Nobody]
Given(doer) == [kind |-> doer, timeout |-> 0, redirect |-> "standard", dialer |-> Nobody]

(* DefaultEngine, With and applyEngineConfig clone an *http.Client and take *)
(* any other doer as it is.                                                 *)
Cloned(hp, e) ==
  IF hp[e].kind \in {"http", "tied"} THEN [heap |-> Append(hp, hp[e]), engine |-> Len(hp) + 1]
  ELSE [heap |-> hp, engine |-> e]

(* applyRedirectPolicy *)
RedirectPolicy(limit, before) ==
  CASE limit = "none" -> "stop"       \* RedirectLimit 0, also when never set
    [] limit = "default" -> "ten"
    [] limit = "unset" -> before
    [] OTHER -> limit

(* applyEngineConfig, applyTransportOverrides and applyDialers change the   *)
(* *http.Client they find, and its transport, in place.                     *)
Configured(e, cfg, owner) ==
  IF e.kind = "custom" THEN e
  ELSE [e EXCEPT !.timeout = IF cfg.timeout > 0 THEN cfg.timeout ELSE @,
                 !.redirect = RedirectPolicy(cfg.redirect, @),
                 !.dialer = owner]

(* The tied clients of a family share one transport, and so the dialer. *)
Tuned(hp, e, cfg, owner) ==
  [i \in DOMAIN hp |->
     IF i = e THEN Configured(hp[i], cfg, owner)
     ELSE IF hp[i].kind = "tied" /\ hp[e].kind = "tied" THEN [hp[i] EXCEPT !.dialer = owner]
     ELSE hp[i]]

(* IsBaremetalEligible *)
IsBaremetalEligible(cfg) ==
  cfg.middlewares.len = 0 /\ cfg.engine = 0 /\ cfg.proxy = Nobody /\ ~cfg.pipelineActive

(* rebuildChainLocked *)
RebuildChain(engine, middlewares) == [engine |-> engine, middlewares |-> middlewares]

RebuiltChain(c, mws) == RebuildChain(client[c].engine, mws)

(* applyConfig: the chain is built before applyEngineConfig replaces the    *)
(* engine by a clone of the custom one.                                     *)
ApplyConfig(c, cfg, h, engine, hp, room) ==
  LET own == SliceClone(h, cfg.middlewares, room["own"])
      custom == IF cfg.engine = 0 THEN [heap |-> hp, engine |-> engine]
                ELSE Cloned(hp, cfg.engine)
  IN /\ arrays' = own.heap
     /\ engines' = Tuned(custom.heap, custom.engine, cfg, c)
     /\ client' = [client EXCEPT ![c] =
          [made |-> TRUE, cfg |-> cfg, engine |-> custom.engine,
           middlewares |-> own.slice,
           chain |-> RebuildChain(engine, View(own.heap, own.slice)),
           baremetal |-> IsBaremetalEligible(cfg),
           prepared |-> cfg.userAgent,
           closeHooks |-> cfg.hooks,
           given |-> [middlewares |-> View(h, cfg.middlewares),
                      validators |-> View(h, cfg.validators)]]]

(* The options of c: WithMiddleware and WithResponseValidator append one by *)
(* one, the rest assigns; a proxy is named by its client.                   *)
Optioned(cfg, h, o, c, room) ==
  LET m == AppendAll(h, cfg.middlewares, o.middlewares, room["middlewares"])
      v == AppendAll(m.heap, cfg.validators, o.validators, room["validators"])
  IN [heap |-> v.heap,
      cfg |-> [cfg EXCEPT !.middlewares = m.slice, !.validators = v.slice,
                          !.timeout = IF o.timeout > 0 THEN o.timeout ELSE @,
                          !.proxy = IF o.proxy THEN c ELSE @,
                          !.pipelineActive = o.pipeline,
                          !.hooks = @ \cup o.hooks]]

BlankConfig(engine) ==
  [middlewares |-> EmptySlice, validators |-> EmptySlice, timeout |-> 0, redirect |-> "none",
   proxy |-> Nobody, pipelineActive |-> TRUE, hooks |-> {}, userAgent |-> FALSE, engine |-> engine]

(* NewClient.  The engine is normalised twice, once for the configuration   *)
(* and once for the client.                                                 *)
NewClient(doer, o, room) ==
  LET hp == CASE doer = "nil" -> <<DefaultHTTP>>
              [] doer \in {"http", "tied"} -> <<Given(doer), Given(doer)>>
              [] doer \in {"wrapper", "custom"} -> <<Given(doer)>>
      custom == IF doer = "nil" THEN 0 ELSE 1
      st == Optioned(BlankConfig(custom), <<>>, o, Root, room)
      own == SliceClone(st.heap, st.cfg.middlewares, room["own"])
      final == IF custom = 0 THEN [heap |-> hp, engine |-> 1] ELSE Cloned(hp, custom)
  IN /\ arrays = own.heap
     /\ engines = Tuned(final.heap, final.engine, st.cfg, Root)
     /\ client = [c \in ClientIds |->
          IF c # Root THEN NoClient
          ELSE [made |-> TRUE, cfg |-> [st.cfg EXCEPT !.userAgent = TRUE], engine |-> final.engine,
                middlewares |-> own.slice,
                chain |-> RebuildChain(Len(hp), View(own.heap, own.slice)),
                baremetal |-> IsBaremetalEligible(st.cfg),
                prepared |-> FALSE,
                closeHooks |-> st.cfg.hooks,
                given |-> [middlewares |-> o.middlewares, validators |-> o.validators]]]

ClientInit ==
  /\ \E doer \in Doers, o \in RootOptions, room \in Rooms : NewClient(doer, o, room)
  /\ ctxProxy = [x \in Contexts |-> IF x \in OwnContexts THEN Caller ELSE Nobody]
  /\ usedBy = [x \in Contexts |-> {}]
  /\ send = [s \in Sends |-> [pc |-> "idle"]]
  /\ closing = [k \in Closers |-> [pc |-> "idle"]]
  /\ hookRuns = [c \in ClientIds |-> 0]
  /\ uses = 0

Live == {c \in ClientIds : client[c].made}

-----------------------------------------------------------------------------
(* Config.Clone copies the middlewares and shares the validators' array. *)
CloneMiddlewares(h, s, room) == SliceClone(h, s, room)

CloneEngine(e) == Cloned(engines, e)

(* With, by a caller that applies the options at once. *)
With(p, c, o, room) ==
  /\ p \in Live /\ c \notin Live
  /\ LET copy == CloneMiddlewares(arrays, client[p].cfg.middlewares, room["copy"])
         st == Optioned([client[p].cfg EXCEPT !.middlewares = copy.slice], copy.heap, o, c, room)
         eng == CloneEngine(client[p].engine)
     IN ApplyConfig(c, st.cfg, st.heap, eng.engine, eng.heap, room)
  /\ UNCHANGED <<ctxProxy, usedBy, send, closing, hookRuns, uses>>

(* Use: both the client's slice and the configuration's grow. *)
Use(c, mw, room) ==
  /\ c \in Live
  /\ uses < MaxUses
  /\ LET a == AppendAll(arrays, client[c].middlewares, <<mw>>, room["own"])
         b == AppendAll(a.heap, client[c].cfg.middlewares, <<mw>>, room["middlewares"])
     IN /\ arrays' = b.heap
        /\ client' = [client EXCEPT
             ![c].middlewares = a.slice,
             ![c].cfg.middlewares = b.slice,
             ![c].baremetal = FALSE,
             ![c].chain = RebuiltChain(c, View(b.heap, a.slice)),
             ![c].given.middlewares = Append(@, mw)]
  /\ uses' = uses + 1
  /\ UNCHANGED <<engines, ctxProxy, usedBy, send, closing, hookRuns>>

-----------------------------------------------------------------------------
(* applyRequestConfigDefaults: only what the configuration leaves open, and *)
(* it stays in the caller's configuration.                                  *)
NetworkDefault(c, x) == IF ctxProxy[x] = Nobody THEN client[c].cfg.proxy ELSE ctxProxy[x]

(* Request reads the baremetal flag under the lock.  x is a context with a  *)
(* RequestConfig, or Nobody for a plain one.                                *)
BeginRequest(s, c, x) ==
  /\ send[s].pc = "idle"
  /\ c \in Live
  /\ LET plain == x = Nobody
         direct == plain /\ client[c].baremetal /\ client[c].middlewares.len = 0
         proxy == IF plain THEN client[c].cfg.proxy ELSE NetworkDefault(c, x)
     IN /\ send' = [send EXCEPT ![s] =
              [pc |-> IF direct THEN "baremetal" ELSE "pipeline", on |-> c, ctx |-> x,
               proxy |-> proxy, due |-> client[c].given.middlewares,
               fresh |-> plain \/ usedBy[x] \subseteq {c}]]
        /\ ctxProxy' = IF plain THEN ctxProxy ELSE [ctxProxy EXCEPT ![x] = proxy]
        /\ usedBy' = IF plain THEN usedBy ELSE [usedBy EXCEPT ![x] = @ \cup {c}]
  /\ UNCHANGED <<client, arrays, engines, closing, hookRuns, uses>>

(* executionEngine, or the engine itself on the baremetal path. *)
ExecutionEngine(c, direct) ==
  IF direct \/ client[c].middlewares.len = 0
    THEN RebuildChain(client[c].engine, <<>>)
    ELSE client[c].chain

EndRequest(s) ==
  /\ send[s].pc \in {"baremetal", "pipeline"}
  /\ LET c == send[s].on
         through == ExecutionEngine(c, send[s].pc = "baremetal")
     IN send' = [send EXCEPT ![s] =
          [pc |-> "sent", on |-> c, due |-> send[s].due, fresh |-> send[s].fresh,
           proxy |-> send[s].proxy, path |-> send[s].pc, ctx |-> send[s].ctx,
           middlewares |-> through.middlewares,
           engine |-> through.engine,
           validators |-> IF send[s].pc = "baremetal" THEN <<>>
                          ELSE View(arrays, client[c].cfg.validators),
           userAgent |-> send[s].pc = "pipeline" /\ client[c].prepared]]
  /\ UNCHANGED <<client, arrays, engines, ctxProxy, usedBy, closing, hookRuns, uses>>

-----------------------------------------------------------------------------
(* Close: the hooks are taken and cleared under the lock, then run. *)
Drained(c) == {}

BeginClose(k, c) ==
  /\ closing[k].pc = "idle"
  /\ c \in Live
  /\ closing' = [closing EXCEPT ![k] = [pc |-> "hooks", on |-> c, hooks |-> client[c].closeHooks]]
  /\ client' = [client EXCEPT ![c].closeHooks = Drained(c)]
  /\ UNCHANGED <<arrays, engines, ctxProxy, usedBy, send, hookRuns, uses>>

RunHooks(k) ==
  /\ closing[k].pc = "hooks"
  /\ hookRuns' = [hookRuns EXCEPT ![closing[k].on] = @ + Cardinality(closing[k].hooks)]
  /\ closing' = [closing EXCEPT ![k] = [pc |-> "closed"]]
  /\ UNCHANGED <<client, arrays, engines, ctxProxy, usedBy, send, uses>>

ClientNext ==
  \/ \E p, c \in ClientIds, o \in ChildOptions, room \in Rooms : With(p, c, o, room)
  \/ \E c \in ClientIds, mw \in {"late"}, room \in Rooms : Use(c, mw, room)
  \/ \E s \in Sends :
       \/ \E c \in ClientIds, x \in Contexts \cup {Nobody} : BeginRequest(s, c, x)
       \/ EndRequest(s)
  \/ \E k \in Closers :
       \/ \E c \in ClientIds : BeginClose(k, c)
       \/ RunHooks(k)

ClientSpec == ClientInit /\ [][ClientNext]_clientVars

-----------------------------------------------------------------------------
Finished == {s \in Sends : send[s].pc = "sent"}

SettingsOwn(c) ==
  /\ engines[client[c].engine].dialer = c
  /\ client[c].cfg.timeout > 0 => engines[client[c].engine].timeout = client[c].cfg.timeout

(* Whatever is derived, added or closed meanwhile, a client holds the       *)
(* middlewares it was given, and its engine, where it is an *http.Client    *)
(* that can be cloned, the settings it was given.                           *)
DerivedIsIndependent ==
  \A c \in Live :
    /\ View(arrays, client[c].middlewares) = client[c].given.middlewares
    /\ View(arrays, client[c].cfg.middlewares) = client[c].given.middlewares
    /\ engines[client[c].engine].kind = "http" => SettingsOwn(c)

(* A request runs through every middleware registered before it began, in   *)
(* order and through none that was never registered, on the baremetal path  *)
(* too.                                                                     *)
MiddlewaresInForce ==
  \A s \in Finished :
    /\ Len(send[s].middlewares) >= Len(send[s].due) \/ send[s].path = "baremetal"
    /\ send[s].path = "baremetal" => send[s].due = <<>>
    /\ SubSeq(client[send[s].on].given.middlewares, 1, Len(send[s].middlewares)) = send[s].middlewares

(* The network settings of a request are its caller's, and where it names   *)
(* none its client's, unless the context served another client before.      *)
NetworkIsOwn ==
  \A s \in Finished :
    send[s].fresh =>
      send[s].proxy = IF send[s].ctx \in OwnContexts THEN Caller ELSE client[send[s].on].cfg.proxy

(* However many calls of Close overlap, a client's hooks run once.          *)
HooksRunOnce ==
  \A c \in Live : hookRuns[c] <= Cardinality(client[c].cfg.hooks)

-----------------------------------------------------------------------------
(* "chain caches the precomputed execution chain wrapping engine with       *)
(* middlewares" (client.go:53): a request with middlewares still runs on    *)
(* the client's own, configured engine.                                     *)
ChainWrapsEngine ==
  \A s \in Finished : send[s].engine = client[send[s].on].engine

(* "The returned Client is fully independent with isolated configuration    *)
(* state" (client.go:147) also with a doer that wraps an *http.Client.      *)
EnginesAreIndependent ==
  \A c \in Live : engines[client[c].engine].kind # "custom" => SettingsOwn(c)

(* "fully independent" (client.go:147) and "deep copy" (config.go:230) hold *)
(* for the validators as well.                                              *)
ValidatorsAreIndependent ==
  \A c \in Live : View(arrays, client[c].cfg.validators) = client[c].given.validators
=============================================================================
