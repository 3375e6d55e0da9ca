------------------------------ MODULE Builder -------------------------------
(***************************************************************************)
(* RequestBuilder and the typed calls around it (builder.go, typed.go,     *)
(* facade.go), with the decoding of the response (internal/response):      *)
(* builders are pooled and recycled by Execute, and every form of call has *)
(* its own way to settle the response.                                     *)
(***************************************************************************)
EXTENDS Naturals, Sequences, FiniteSets

CONSTANTS
  Users,        \* calls, each by a goroutine of its own
  Batch,        \* the users that are fetches of one BatchFetchTo
  Builders,     \* builders of the pool, created as needed
  Forms,        \* forms of call the other users may choose
  Wishes        \* sets of settings a user may make

ASSUME BatchAssumption == Batch \subseteq Users

(* Settings of a builder that outlast a call unless Reset clears them. *)
Fields == {"mods", "auth", "path", "multipart", "validator", "expect", "sink", "plugin error"}

(* Forms of call: with a builder "raw", "to" (FetchTo), "scoped", "either", *)
(* "drain" (RequestBuilder.Result); straight on the client "into", "ex" and *)
(* "result" (FetchResult).                                                  *)
WithBuilder == {"raw", "to", "scoped", "either", "drain"}
Decoding == {"to", "scoped", "either", "drain", "into", "ex", "result"}

VARIABLES
  form, wish,    \* each user's call
  bpc,           \* where it is
  held,          \* its builder, or NoBuilder
  fields,        \* settings of each builder, as <<field, user>>
  consumed,      \* RequestBuilder.consumed
  free,          \* how often each builder is in the pool
  carried,       \* settings the request of each user was sent with
  body,          \* its response: "none", "open" or "closed"
  armed,         \* its timeout context runs
  gave,          \* what the call returned: "value", "error", or "response" for an open one
  collected      \* fetches BatchFetchTo has received

builderVars == <<form, wish, bpc, held, fields, consumed, free, carried, body, armed, gave, collected>>

NoBuilder == "none"

ASSUME FormsAssumption == NoBuilder \notin Builders /\ Forms \subseteq WithBuilder \cup Decoding

BuilderInit ==
  /\ form \in [Users -> Forms]
  /\ \A u \in Batch : form[u] = "to"
  /\ wish \in [Users -> Wishes]
  /\ \A u \in Users : form[u] \notin {"raw", "drain"} => wish[u] \cap {"validator", "expect", "sink"} = {}
  /\ \A u \in Users : form[u] \notin WithBuilder => wish[u] \subseteq {"mods", "timeout"}
  /\ bpc = [u \in Users |-> "start"]
  /\ held = [u \in Users |-> NoBuilder]
  /\ fields = [b \in Builders |-> {}]
  /\ consumed = [b \in Builders |-> FALSE]
  /\ free = [b \in Builders |-> 0]
  /\ carried = [u \in Users |-> {}]
  /\ body = [u \in Users |-> "none"]
  /\ armed = [u \in Users |-> FALSE]
  /\ gave = [u \in Users |-> "nothing"]
  /\ collected = {}

-----------------------------------------------------------------------------
(* Faulty variants of single steps, which the properties must tell apart    *)
(* from the code.                                                           *)
ForgetValidators(b) == {f \in fields[b] : f[1] = "validator"}

-----------------------------------------------------------------------------
Made(b) == free[b] > 0 \/ \E u \in Users : held[u] = b

(* requestPool.Get: a recycled builder or a new one. *)
Acquire(u, b) ==
  /\ bpc[u] = "start"
  /\ form[u] \in WithBuilder
  /\ free[b] > 0 \/ ~Made(b)
  /\ free' = [free EXCEPT ![b] = IF @ > 0 THEN @ - 1 ELSE 0]
  /\ consumed' = [consumed EXCEPT ![b] = FALSE]
  /\ held' = [held EXCEPT ![u] = b]
  /\ bpc' = [bpc EXCEPT ![u] = "set"]
  /\ UNCHANGED <<form, wish, fields, carried, body, armed, gave, collected>>

(* What the setters leave in a builder, or the modifiers of a direct call   *)
(* in its request.                                                          *)
Settings(u) == {<<f, u>> : f \in wish[u] \cap Fields}

Configure(u) ==
  /\ bpc[u] = "set"
  /\ fields' = [fields EXCEPT ![held[u]] = @ \cup Settings(u)]
  /\ bpc' = [bpc EXCEPT ![u] = "execute"]
  /\ UNCHANGED <<form, wish, held, consumed, free, carried, body, armed, gave, collected>>

(* Reset *)
Reset(b) == {}

(* Release puts the builder back. *)
Recycled(u) ==
  IF held[u] = NoBuilder THEN UNCHANGED <<fields, free, held, consumed>>
  ELSE /\ fields' = [fields EXCEPT ![held[u]] = Reset(held[u])]
       /\ consumed' = [consumed EXCEPT ![held[u]] = TRUE]
       /\ free' = [free EXCEPT ![held[u]] = @ + 1]
       /\ held' = [held EXCEPT ![u] = NoBuilder]

Has(u, f) == held[u] # NoBuilder /\ \E v \in Users : <<f, v>> \in fields[held[u]]

(* Execute refuses a consumed builder and fails on a plugin's error, else   *)
(* sends the request; WithTimeout arms a context.                           *)
ExecuteFails(u) ==
  /\ bpc[u] = "execute"
  /\ consumed[held[u]] \/ Has(u, "plugin error")
  /\ IF consumed[held[u]] THEN UNCHANGED <<fields, free, held, consumed>> ELSE Recycled(u)
  /\ gave' = [gave EXCEPT ![u] = "error"]
  /\ bpc' = [bpc EXCEPT ![u] = "returned"]
  /\ UNCHANGED <<form, wish, carried, body, armed, collected>>

Execute(u) ==
  /\ bpc[u] = "execute"
  /\ ~consumed[held[u]] /\ ~Has(u, "plugin error")
  /\ consumed' = [consumed EXCEPT ![held[u]] = TRUE]
  /\ carried' = [carried EXCEPT ![u] = fields[held[u]]]
  /\ armed' = [armed EXCEPT ![u] = "timeout" \in wish[u]]
  /\ bpc' = [bpc EXCEPT ![u] = "sent"]
  /\ UNCHANGED <<form, wish, held, fields, free, body, gave, collected>>

(* The client's own typed calls need no builder. *)
FetchDirect(u) ==
  /\ bpc[u] = "start"
  /\ form[u] \notin WithBuilder
  /\ carried' = [carried EXCEPT ![u] = Settings(u)]
  /\ armed' = [armed EXCEPT ![u] = "timeout" \in wish[u]]
  /\ bpc' = [bpc EXCEPT ![u] = "sent"]
  /\ UNCHANGED <<form, wish, held, fields, consumed, free, body, gave, collected>>

(* client.Request fails: the armed context is left to its deadline. *)
RequestFails(u) ==
  /\ bpc[u] = "sent"
  /\ Recycled(u)
  /\ gave' = [gave EXCEPT ![u] = "error"]
  /\ bpc' = [bpc EXCEPT ![u] = "returned"]
  /\ UNCHANGED <<form, wish, carried, body, armed, collected>>

-----------------------------------------------------------------------------
(* Answers: a status, HTML where data is expected, a body that decodes. *)
Answers == [status : {"2xx", "204", "4xx"}, html : BOOLEAN, decodes : BOOLEAN]

(* Handle closes the response unless a modifier captures it. *)
Captures(u) == form[u] \in {"ex", "result"}

HandleCloses(u) == ~Captures(u)

(* Handle: validation, the API error of a status, or decoding. *)
HandleFails(a) ==
  \/ a.html
  \/ a.status = "4xx"
  \/ a.status = "2xx" /\ ~a.decodes

(* What the rest of Execute makes of an answer before decoding it. *)
Rejected(u, a, refuses) ==
  \/ Has(u, "validator") /\ refuses
  \/ Has(u, "expect") /\ a.status # "2xx"
  \/ Has(u, "sink") /\ refuses

(* The forms that close the body after Execute. *)
ClosesAfter(u) == form[u] \in {"to", "scoped", "drain"}

(* executeToEx closes a captured response when Handle fails. *)
ClosesOnError(u) == Captures(u)

(* A response that arrives is judged, decoded and settled in one go: what   *)
(* the call returns depends on its form.                                    *)
Respond(u, a, refuses) ==
  LET rejected == Rejected(u, a, refuses)
      handled == form[u] \in Decoding /\ ~rejected /\ ~Has(u, "sink")
      failed == handled /\ HandleFails(a)
      closed == \/ handled /\ HandleCloses(u)
                \/ ClosesAfter(u) /\ ~(form[u] = "scoped" /\ (rejected \/ failed))
                \/ ClosesOnError(u) /\ failed
  IN /\ bpc[u] = "sent"
     /\ body' = [body EXCEPT ![u] = IF closed THEN "closed" ELSE "open"]
     /\ armed' = [armed EXCEPT ![u] = @ /\ ~(handled /\ HandleCloses(u)) /\ form[u] # "drain"]
     /\ gave' = [gave EXCEPT ![u] =
          IF rejected THEN IF form[u] = "raw" THEN "response" ELSE "error"
          ELSE IF failed THEN IF form[u] = "either" /\ a.status = "4xx" THEN "value" ELSE "error"
          ELSE IF form[u] \in {"raw", "ex"} THEN "response" ELSE "value"]
     /\ Recycled(u)
     /\ bpc' = [bpc EXCEPT ![u] = "returned"]
     /\ UNCHANGED <<form, wish, carried, collected>>

(* BatchFetchTo receives the results in any order, one per path. *)
Collect(u) ==
  /\ u \in Batch \ collected
  /\ bpc[u] = "returned"
  /\ collected' = collected \cup {u}
  /\ UNCHANGED <<form, wish, bpc, held, fields, consumed, free, carried, body, armed, gave>>

(* BatchFetchTo returns once it has all of them. *)
BatchReturns == collected = Batch

BuilderNext ==
  \E u \in Users :
    \/ \E b \in Builders : Acquire(u, b)
    \/ Configure(u)
    \/ ExecuteFails(u)
    \/ Execute(u)
    \/ FetchDirect(u)
    \/ RequestFails(u)
    \/ \E a \in Answers, refuses \in BOOLEAN : Respond(u, a, refuses)
    \/ Collect(u)

BuilderSpec == BuilderInit /\ [][BuilderNext]_builderVars

-----------------------------------------------------------------------------
(* A pooled builder has one user at a time, and its request carries what    *)
(* that user set and nothing an earlier user left.                          *)
OwnSettingsOnly ==
  /\ \A u, v \in Users : u # v /\ held[u] # NoBuilder => held[u] # held[v]
  /\ \A b \in Builders : free[b] + Cardinality({u \in Users : held[u] = b}) <= 1
  /\ \A u \in Users :
       bpc[u] \in {"sent", "returned"} /\ carried[u] # {} =>
         carried[u] = {<<f, u>> : f \in wish[u] \cap Fields}

(* Once a call has returned, its response is closed unless the call handed  *)
(* it to the caller; FetchResult, which drops the response it captures, is  *)
(* the exception.                                                           *)
ResponsesReturnedOrClosed ==
  \A u \in Users :
    bpc[u] = "returned" /\ form[u] # "result" => (body[u] = "open") = (gave[u] = "response")

(* When BatchFetchTo returns, none of its fetches is still under way.       *)
BatchLeavesNothing ==
  Batch # {} /\ BatchReturns =>
    \A u \in Batch : bpc[u] = "returned" /\ body[u] # "open" /\ held[u] = NoBuilder

-----------------------------------------------------------------------------
(* "The response body stream is automatically drained and closed"           *)
(* (typed.go:561, FetchResult).                                             *)
ResultClosesBody ==
  \A u \in Users : bpc[u] = "returned" /\ form[u] = "result" => body[u] # "open"
=============================================================================
