------------------------------ MODULE FastClient -----------------------------
(***************************************************************************)
(* The fast client (fast/client.go, redirect.go, cookies.go, request.go,   *)
(* response.go): pooled request and response adapters around a redirect    *)
(* loop that shares one cookie jar.  The engine behind it is ConnPool's;   *)
(* here an exchange is a send and an answer.                               *)
(***************************************************************************)
EXTENDS Integers, Sequences, FiniteSets

CONSTANTS
  Fasts,           \* calls of Request and Do
  Hosts,
  DomainOf,        \* the site of each host; "" for a host without one
  Related,         \* pairs for which isSameDomainOrSubdomain holds
  Styles,           \* "request" (Request), "adapted" or "own" (Do)
  FastBodies,      \* "none", "bytes" or "stream"
  RedirectLimit,   \* EngineConfig.RedirectLimit, negative for the default
  Adapters,        \* request adapters of the pool
  MaxCookies       \* bound on the versions of a host's cookie

ASSUME FastAssumption ==
  /\ DOMAIN DomainOf = Hosts
  /\ \A a, b \in Hosts : <<a, b>> \in Related => DomainOf[a] = DomainOf[b]

NoOne == "no one"
NoAdapter == "none"

ASSUME AdaptersAssumption ==
  NoAdapter \notin Adapters /\ Styles \subseteq {"request", "adapted", "own"} /\ RedirectLimit \in Int

VARIABLES
  style, fastPc,
  target,     \* the request's host
  verb,       \* its method
  load,       \* its body: none, bytes, stream, or "spent" for a stream read to its end
  auth,       \* the host its Authorization was given for
  header,     \* its Cookie header: <<host, version>> pairs
  hops,       \* redirectsFollowed
  adapter,    \* the request adapter it works with
  pooled,     \* how often each adapter is in the pool
  jar,        \* version of each host's cookie, 0 for none
  answered    \* the response adapter: none, held or released

fastVars == <<style, fastPc, target, verb, load, auth, header, hops, adapter, pooled,
              jar, answered>>

FastInit ==
  /\ style \in [Fasts -> Styles]
  /\ fastPc = [c \in Fasts |-> "start"]
  /\ target \in [Fasts -> Hosts]
  /\ load \in [Fasts -> FastBodies]
  /\ verb = [c \in Fasts |-> IF load[c] = "none" THEN "GET" ELSE "POST"]
  /\ auth \in [Fasts -> {NoOne} \cup Hosts]
  /\ \A c \in Fasts : auth[c] \in {NoOne, target[c]}
  /\ header = [c \in Fasts |-> <<>>]
  /\ hops = [c \in Fasts |-> 0]
  /\ adapter = [c \in Fasts |-> NoAdapter]
  /\ pooled = [a \in Adapters |-> 0]
  /\ jar = [h \in Hosts |-> 0]
  /\ answered = [c \in Fasts |-> "none"]

Put(f, c, v) == [f EXCEPT ![c] = v]

-----------------------------------------------------------------------------
(* Faulty variants of single steps, which the properties must tell apart    *)
(* from the code.                                                           *)
KeepHeaders(c, to) == [auth |-> auth[c], header |-> header[c]]

-----------------------------------------------------------------------------
InUse(a) == pooled[a] > 0 \/ \E c \in Fasts : adapter[c] = a

(* NewRequest for Request and for a foreign request; a caller that passes a *)
(* fast request has acquired it itself.  NewResponse in doRaw.              *)
Begin(c, a) ==
  /\ fastPc[c] = "start"
  /\ pooled[a] > 0 \/ ~InUse(a)
  /\ pooled' = [pooled EXCEPT ![a] = IF @ > 0 THEN @ - 1 ELSE 0]
  /\ adapter' = Put(adapter, c, a)
  /\ answered' = Put(answered, c, "held")
  /\ fastPc' = Put(fastPc, c, "prepare")
  /\ UNCHANGED <<style, target, verb, load, auth, header, hops, jar>>

(* applyCookies adds what the jar holds to a Cookie header that is already  *)
(* there; then the request is sent, and a stream read to its end.           *)
CookiesFor(h) == IF jar[h] = 0 THEN <<>> ELSE <<<<h, jar[h]>>>>

Dispatch(c) ==
  /\ fastPc[c] = "prepare"
  /\ header' = Put(header, c, header[c] \o CookiesFor(target[c]))
  /\ fastPc' = Put(fastPc, c, "await")
  /\ UNCHANGED <<style, target, verb, load, auth, hops, adapter, pooled, jar, answered>>

Limit == IF RedirectLimit < 0 THEN 10 ELSE RedirectLimit

(* doRaw and Request release the request they have acquired, the caller of  *)
(* Do its own.                                                              *)
OwnsAdapter(c) == style[c] \in {"request", "adapted"}

Released(c) ==
  /\ pooled' = IF OwnsAdapter(c) THEN [pooled EXCEPT ![adapter[c]] = @ + 1] ELSE pooled
  /\ adapter' = IF style[c] \in {"request", "adapted"} THEN Put(adapter, c, NoAdapter) ELSE adapter

(* The engine fails, or the limit is exceeded: the response is released.    *)
Fails(c) ==
  /\ answered' = Put(answered, c, "released")
  /\ fastPc' = Put(fastPc, c, "failed")
  /\ Released(c)

ExchangeFails(c) ==
  /\ fastPc[c] = "await"
  /\ Fails(c)
  /\ UNCHANGED <<style, target, verb, load, auth, header, hops, jar>>

(* captureCookies *)
Captured(h, sets) == IF sets THEN [jar EXCEPT ![h] = @ + 1] ELSE jar

Answer(c, sets) ==
  /\ fastPc[c] = "await"
  /\ sets => jar[target[c]] < MaxCookies
  /\ jar' = Captured(target[c], sets)
  /\ fastPc' = Put(fastPc, c, "done")
  /\ Released(c)
  /\ UNCHANGED <<style, target, verb, load, auth, header, hops, answered>>

(* applyRedirectMethodAndBody: 301, 302 and 303 turn all but GET and HEAD   *)
(* into a GET without a body.                                               *)
RedirectedMethod(c, status) ==
  IF status = "302" /\ verb[c] # "GET" THEN [verb |-> "GET", load |-> "none"]
  ELSE [verb |-> verb[c], load |-> IF load[c] = "stream" THEN "spent" ELSE load[c]]

(* scrubSensitiveHeaders: the credentials go, and the cookies too unless    *)
(* the hosts are related.                                                   *)
Scrubbed(c, to) ==
  [auth |-> NoOne,
   header |-> IF <<target[c], to>> \in Related THEN header[c] ELSE <<>>]

Redirect(c, status, to, sets) ==
  LET next == RedirectedMethod(c, status)
      kept == IF to = target[c] THEN [auth |-> auth[c], header |-> header[c]] ELSE Scrubbed(c, to)
  IN
  /\ fastPc[c] = "await"
  /\ Limit > 0
  /\ sets => jar[target[c]] < MaxCookies
  /\ jar' = Captured(target[c], sets)
  /\ IF hops[c] + 1 > Limit
       THEN /\ Fails(c)
            /\ UNCHANGED <<target, verb, load, auth, header, hops>>
       ELSE /\ hops' = Put(hops, c, hops[c] + 1)
            /\ verb' = Put(verb, c, next.verb)
            /\ load' = Put(load, c, next.load)
            /\ auth' = Put(auth, c, kept.auth)
            /\ header' = Put(header, c, kept.header)
            /\ target' = Put(target, c, to)
            /\ fastPc' = Put(fastPc, c, "prepare")
            /\ UNCHANGED <<adapter, pooled, answered>>
  /\ UNCHANGED style

(* The caller of Do releases its request, once. *)
CallerReleases(c) ==
  /\ fastPc[c] \in {"done", "failed"}
  /\ adapter[c] # NoAdapter
  /\ pooled' = [pooled EXCEPT ![adapter[c]] = @ + 1]
  /\ adapter' = Put(adapter, c, NoAdapter)
  /\ UNCHANGED <<style, fastPc, target, verb, load, auth, header, hops, jar, answered>>

FastNext ==
  \E c \in Fasts :
    \/ \E a \in Adapters : Begin(c, a)
    \/ Dispatch(c)
    \/ ExchangeFails(c)
    \/ \E sets \in BOOLEAN : Answer(c, sets)
    \/ \E status \in {"302", "307"}, to \in Hosts, sets \in BOOLEAN : Redirect(c, status, to, sets)
    \/ CallerReleases(c)

FastSpec == FastInit /\ [][FastNext]_fastVars

-----------------------------------------------------------------------------
(* Through any chain of redirects a request carries credentials only to the *)
(* host they were given for and cookies only within the site they belong    *)
(* to, and it follows no more redirects than the limit.                     *)
HeadersStayHome ==
  \A c \in Fasts : fastPc[c] = "await" =>
    /\ auth[c] \in {NoOne, target[c]}
    /\ \A i \in DOMAIN header[c] : DomainOf[header[c][i][1]] = DomainOf[target[c]]
    /\ hops[c] <= Limit

(* An adapter is in the pool at most once and not while a call works with   *)
(* it, whoever has to release it, and a finished call holds none that is    *)
(* not its caller's.                                                        *)
AdaptersExclusive ==
  /\ \A a \in Adapters : pooled[a] + Cardinality({c \in Fasts : adapter[c] = a}) <= 1
  /\ \A c \in Fasts : fastPc[c] \in {"done", "failed"} /\ adapter[c] # NoAdapter => style[c] = "own"

-----------------------------------------------------------------------------
(* "automatic GetBody rewind for 307/308 redirects" (fast/README.md:105).   *)
BodyFollowsRedirect ==
  \A c \in Fasts : fastPc[c] = "await" => load[c] # "spent"
=============================================================================
