------------------------------ MODULE MCClient ------------------------------
(* Model-checking instances of Client, Builder and FastClient.  A run       *)
(* explores the behaviours of each with the others at rest.                 *)
EXTENDS Client, Builder, FastClient, TLC

Option(mws, vals, timeout, proxy, pipeline) ==
  [middlewares |-> mws, validators |-> vals, timeout |-> timeout, proxy |-> proxy,
   pipeline |-> pipeline, hooks |-> {"h"}]

Bare == Option(<<>>, <<>>, 0, FALSE, FALSE)
Full == Option(<<"m1", "m2", "m3">>, <<"v1", "v2", "v3">>, 5, TRUE, TRUE)

TwoRoots == {Bare, Full}
TwoChildren == {[Bare EXCEPT !.validators = <<"w">>], Option(<<"n">>, <<"x">>, 7, TRUE, TRUE)}

(* What append allocates leaves room for one more, what Clone does not. *)
FewRooms == {[s \in Slots |-> IF s \in {"copy", "own"} THEN 0 ELSE 1]}

(* Settings: the plain ones, and those only a raw builder takes. *)
ThreeWishes == {{"mods", "timeout"}, {"mods", "validator", "expect"}, {"plugin error"}}

(* Two hosts of one site, which share cookies and credentials, and a third. *)
Sites == [h \in Hosts |-> IF h = "b" THEN "b" ELSE "a"]
SameSite == {<<"a", "sub">>, <<"sub", "a">>}

(* A client without options of its own has the default engine. *)
PlainOrEquipped == client[Root].cfg.proxy = Nobody => client[Root].cfg.engine = 0

VARIABLE focus   \* the component whose behaviour is explored

allVars == <<focus, clientVars, builderVars, fastVars>>

PlainCall(c) == style[c] = "own" /\ target[c] = "a" /\ auth[c] = NoOne

Only(component) ==
  /\ focus = component
  /\ component # "builder" =>
       form = [u \in Users |-> "to"] /\ wish = [u \in Users |-> {"mods", "timeout"}]
  /\ ClientInit /\ BuilderInit /\ FastInit
  /\ IF component = "fast" THEN PlainCall(CHOOSE c \in Fasts : TRUE) ELSE \A c \in Fasts : PlainCall(c)
  /\ IF component = "client" THEN PlainOrEquipped
     ELSE engines = <<Configured(DefaultHTTP, client[Root].cfg, Root)>> /\ arrays = <<>>

MCInit == \E component \in {"client", "builder", "fast"} : Only(component)

MCNext ==
  \/ focus = "client" /\ ClientNext /\ UNCHANGED <<focus, builderVars, fastVars>>
  \/ focus = "builder" /\ BuilderNext /\ UNCHANGED <<focus, clientVars, fastVars>>
  \/ focus = "fast" /\ FastNext /\ UNCHANGED <<focus, clientVars, builderVars>>

MCSpec == MCInit /\ [][MCNext]_allVars

(* Clients do not interfere: one derived from another keeps its own         *)
(* configuration and network, and every request runs through the            *)
(* middlewares of its client in force, its hooks once (client.go).          *)
ClientsIndependent == DerivedIsIndependent /\ NetworkIsOwn /\ MiddlewaresInForce /\ HooksRunOnce

(* A pooled request builder carries only its user's settings, and whatever  *)
(* form ends a request, its response is handed out or closed, also in a     *)
(* batch that breaks off (builder.go, typed.go).                            *)
BuildersSettle == OwnSettingsOnly /\ ResponsesReturnedOrClosed /\ BatchLeavesNothing

(* The fast client sends credentials and cookies only where they belong,    *)
(* through any redirects, and uses each pooled adapter for one call at a    *)
(* time (fast/).                                                            *)
FastCallsIsolated == HeadersStayHome /\ AdaptersExclusive

Symmetry == Permutations(Closers) \cup Permutations(Batch)
=============================================================================
