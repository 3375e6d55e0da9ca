----------------------------- MODULE MCPipeline -----------------------------
(* Model-checking instances of Pipeline, Dispatch, Retry and Dictionaries.  *)
(* A run explores the behaviours of each with the others at rest.           *)
EXTENDS Dispatch, Pipeline, Retry, Dictionaries, TLC

ThreeProxies == <<"p1", "p2", "p3">>

(* Requests: a plain GET, one with a query, a cookie and no request         *)
(* configuration, one in its own language, and an unsafe method.            *)
Get ==
  [method |-> "GET", query |-> {}, cookies |-> {}, lang |-> "en", noCache |-> FALSE,
   flags |-> {"cache", "validate", "decompress"}, config |-> TRUE, acceptsCoding |-> FALSE]

FourKinds ==
  {Get,
   [Get EXCEPT !.query = {<<"id", 1>>, <<"utm", 1>>}, !.cookies = {<<"sid", 1>>}, !.config = FALSE],
   [Get EXCEPT !.lang = "de", !.flags = @ \cup {"multiread"}],
   [Get EXCEPT !.method = "POST"]}

NoHeader == [given |-> FALSE, all |-> FALSE, params |-> {}, except |-> {}]

Ok ==
  [status |-> 200, lengths |-> {1}, locations |-> {}, chunked |-> FALSE,
   controlChars |-> FALSE, coding |-> "identity", size |-> 1, coded |-> 1, grows |-> 0,
   vary |-> "lang", store |-> TRUE, nvs |-> NoHeader, indices |-> {}, asDict |-> FALSE,
   readFails |-> FALSE, valid |-> TRUE]

(* Answers: a plain one that transcoding makes larger than the limit, a     *)
(* large error page that breaks off, a small one that decompresses beyond   *)
(* the limit, conflicting lengths, one coded with a dictionary, and a       *)
(* chunked dictionary beyond the dictionary limit that a validator refuses. *)
SixAnswers ==
  {[Ok EXCEPT !.grows = 3],
   [Ok EXCEPT !.status = 404, !.vary = "none", !.lengths = {9}, !.coded = 9, !.readFails = TRUE],
   [Ok EXCEPT !.vary = "none", !.coding = "gzip", !.size = 9,
              !.nvs = [NoHeader EXCEPT !.given = TRUE, !.params = {"id"}]],
   [Ok EXCEPT !.lengths = {1, 2}],
   [Ok EXCEPT !.coding = "dcz", !.size = 2, !.store = FALSE],
   [Ok EXCEPT !.asDict = TRUE, !.size = 5, !.coding = "gzip", !.chunked = TRUE, !.valid = FALSE]}

TrackingIgnored == [all |-> FALSE, ignore |-> {"utm"}, except |-> {}]

(* Inputs of the middlewares: a read whose body can be sent again, a write  *)
(* without a key whose body cannot and with its own limit, a write the      *)
(* caller lets be retried, and one with a fallback.                         *)
Read ==
  [method |-> "GET", body |-> "seekable", keyed |-> FALSE, allowed |-> {}, override |-> 0,
   allowNonReadOnly |-> FALSE, fallback |-> FALSE, mayAbort |-> TRUE]

FourInputs ==
  {Read,
   [Read EXCEPT !.method = "POST", !.body = "one-shot", !.override = 2, !.mayAbort = FALSE],
   [Read EXCEPT !.method = "POST", !.allowNonReadOnly = TRUE, !.mayAbort = FALSE],
   [Read EXCEPT !.method = "POST", !.body = "bytes", !.fallback = TRUE, !.mayAbort = FALSE]}

(* Dictionaries: one for its directory, the same content with a pattern,    *)
(* two with longer or relative patterns, one of another origin and one that *)
(* is not raw.                                                              *)
Raw ==
  [hash |-> 1, id |-> "i", origin |-> "o", path |-> <<"/", "d", "/", "x">>, match |-> <<>>,
   dest |-> {}, size |-> 1, ttl |-> 0, type |-> "raw"]
SixDictionaries ==
  {Raw,
   [Raw EXCEPT !.id = "", !.match = <<"/", "*", "j">>, !.ttl = 1],
   [Raw EXCEPT !.hash = 2, !.match = <<"/", "d", "/", "*", "j">>, !.size = 2],
   [Raw EXCEPT !.hash = 3, !.id = "k", !.match = <<"*", "j">>, !.dest = {"script"}, !.ttl = 1],
   [Raw EXCEPT !.hash = 4, !.id = "", !.origin = "p"],
   [Raw EXCEPT !.hash = 5, !.id = "", !.type = "zip"]}
ThreeSeekers ==
  {[origin |-> "o", path |-> <<"/", "d", "/", "j">>, dest |-> ""],
   [origin |-> "o", path |-> <<"/", "d", "/", "x", "j", "j">>, dest |-> "script"],
   [origin |-> "o", path |-> <<"/", "e">>, dest |-> "script"]}

VARIABLE focus   \* the component whose behaviour is explored

allVars == <<focus, vars, pipeVars, retryVars, dictVars>>

Only(component) ==
  /\ focus = component
  /\ component # "dispatch" =>
       /\ counter = 0
       /\ config = [r \in Requests |-> "plain"]
       /\ bodyOf = [r \in Requests |-> "repeatable"]
  /\ component # "pipeline" => req = [c \in Calls |-> Get]
  /\ component # "retry" => input = [c \in Callers |-> Read]
  /\ Init /\ PipeInit /\ RetryInit /\ DictInit
  /\ carries \subseteq {r \in Requests : config[r] = "failover"}

MCInit == \E component \in {"dispatch", "pipeline", "retry", "dict"} : Only(component)

MCNext ==
  \/ focus = "dispatch" /\ Next /\ UNCHANGED <<focus, pipeVars, retryVars, dictVars>>
  \/ focus = "pipeline" /\ PipeNext /\ UNCHANGED <<focus, vars, retryVars, dictVars>>
  \/ focus = "retry" /\ RetryNext /\ UNCHANGED <<focus, vars, pipeVars, dictVars>>
  \/ focus = "dict" /\ DictNext /\ UNCHANGED <<focus, vars, pipeVars, retryVars>>
  \/ focus = "pipeline" /\ PipeDone /\ UNCHANGED allVars
  \/ focus = "retry" /\ RetryDone /\ UNCHANGED allVars

MCSpec == MCInit /\ [][MCNext]_allVars

(* Whatever stage, retry or recovery ends a call, it leaves no response     *)
(* open behind: neither the failover loop (resilience.go), nor the          *)
(* post-processing of a response (post.go), nor the retrying middlewares    *)
(* (retry.go), but for the paths each of the three names.                   *)
NothingLeaks == NoResponseLeaks /\ BodiesSettled /\ ResponsesSettled

(* The response cache answers only for requests that may share the answer,  *)
(* and not with what an unsafe request has made void (cache.go).            *)
CacheIsSound == HitsShareAnswers /\ NoHitBeforeUnsafe

(* A body is no larger than the limit before it is transcoded, whatever its *)
(* headers declare and decompression makes of it, and was decoded with the  *)
(* dictionary its request advertised (post.go).                             *)
BodyAsAnnounced == SizeIsLimited /\ DecodedAsAdvertised

(* Sending again is safe through any mixture of faults, statuses, breakers  *)
(* and cancellations: bounded, never an unsafe method on its own, always    *)
(* the whole body, and its failures are counted by one breaker per host.    *)
ResendsAreSafe == SendsAreBounded /\ NoUnsafeResend /\ WholeBodySent /\ OneBreakerPerHost

Symmetry == Permutations(Calls) \cup Permutations(Requests)
=============================================================================
