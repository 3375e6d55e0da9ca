----------------------------- MODULE MCResilience ----------------------------
(* Model-checking instances of ReAuth, Hedging and Streams.  A run explores *)
(* the behaviours of each with the others at rest.                          *)
EXTENDS ReAuth, Hedging, Streams, TLC

(* Events that all have ids, a [DONE] with one behind it, and a payload     *)
(* that does not decode behind one without an id.                           *)
Data == [id |-> TRUE, kind |-> "data"]
ThreeLogs ==
  {<<Data, Data, Data>>,
   <<Data, [Data EXCEPT !.kind = "done"], Data>>,
   <<Data, [Data EXCEPT !.id = FALSE], [Data EXCEPT !.kind = "bad"]>>}

VARIABLE focus   \* the component whose behaviour is explored

allVars == <<focus, vars, hedgeVars, streamVars>>

Only(component) ==
  /\ focus = component
  /\ component # "hedging" => repeatable = TRUE /\ method = "reading" /\ wraps = FALSE
  /\ component # "stream" =>
       format = [s \in Streams |-> "sse"] /\ log = [s \in Streams |-> <<Data, Data, Data>>]
  /\ Init /\ HedgeInit /\ StreamInit

MCNext ==
  \/ focus = "reauth" /\ Next /\ UNCHANGED <<focus, hedgeVars, streamVars>>
  \/ focus = "hedging" /\ HedgeNext /\ UNCHANGED <<focus, vars, streamVars>>
  \/ focus = "stream" /\ StreamNext /\ UNCHANGED <<focus, vars, hedgeVars>>
  \/ focus = "stream" /\ (\A s \in Streams : spc[s] = "ended") /\ UNCHANGED allVars

MCFairness ==
  /\ \A r \in Requests : WF_allVars(focus = "reauth" /\ Step(r) /\ UNCHANGED <<focus, hedgeVars, streamVars>>)
  /\ WF_allVars(focus = "hedging" /\ Call /\ UNCHANGED <<focus, vars, streamVars>>)
  /\ \A i \in Attempts : WF_allVars(focus = "hedging" /\ Attempt(i) /\ UNCHANGED <<focus, vars, streamVars>>)
  /\ WF_allVars(focus = "hedging" /\ DrainOne /\ UNCHANGED <<focus, vars, streamVars>>)
  /\ \A s \in Streams :
       /\ WF_allVars(focus = "stream" /\ StreamGoroutine(s) /\ UNCHANGED <<focus, vars, hedgeVars>>)
       /\ WF_allVars(focus = "stream" /\ Watch(s) /\ UNCHANGED <<focus, vars, hedgeVars>>)

MCSpec ==
  /\ \E component \in {"reauth", "hedging", "stream"} : Only(component)
  /\ [][MCNext]_allVars /\ MCFairness

(* The middleware alone. *)
ReAuthSpec == Only("reauth") /\ [][MCNext]_allVars /\ MCFairness

(* The hedged exchange alone. *)
HedgingSpec == Only("hedging") /\ [][MCNext]_allVars /\ MCFairness

Busy == Underway \/ (focus = "hedging" /\ Unsettled) \/ Lingering

(* Every call that began returns, whatever the order of refreshes (a call   *)
(* begins once, so that it is enough that all have returned in the end); a  *)
(* hedged call returns and every losing response is closed, whatever the    *)
(* order of answers, errors, timer and cancellation; and a stream whose     *)
(* context ends does end, even if the server stays silent and nobody reads  *)
(* its channels.                                                            *)
CallsReturn == Busy ~> ~Busy
=============================================================================
