# aoni: TLA+ verification

aoni is an HTTP client library for Go. What is hard to get right in it, and hard to test, are the parts in which several
goroutines share state while the network fails underneath them, and the parts that keep something from one call to the
next. This directory models those parts in TLA+, checks them with TLC on small instances, and proves with TLAPS, for any
number of goroutines, connections and messages, what matters most about re-authentication, hedging, health trackers, the
load balancer and the proxy rotator above them, the pipeline with its cache and retries, builders, the fast client, the
connection pool, dialling, DNS, WebSocket connections, streams, downloads, cookies and request bodies.

Paths below are relative to the repository root; `PROJECT.json` maps every definition to the lines it models.

## 1. The system

A call is configured by a `Client` and a request builder, runs through the middleware chain (fallback, retry, circuit
breaker, rate limit, re-authentication) and the pipeline (preparation, cache lookup, dispatch with failover and hedging,
post-processing), may be given to a load balancer or a proxy rotator, and ends in the connection pool or the HTTP/3
engine, which dial through the DNS resolvers and the dialer. WebSockets and event streams are opened through the same
transport and are independent afterwards.

| part | source | state | operations | what is hard about it |
|---|---|---|---|---|
| clients | `client.go`, `config.go`, `engine.go`, `bridge.go` | configuration, middlewares, validators, engine, chain | `NewClient`, `With`, `Use`, `Close`, `Do` | slices shared by derived clients, chains cached, `Close` while requests run |
| builders and typed calls | `builder.go`, `typed.go`, `facade.go`, `internal/response` | a pool of builders, one response per call | `Execute`, `Reset`, `Release`, `FetchTo`, `FetchResult`, `BatchFetchTo` | a builder recycled while it is read, a response settled on every path |
| request bodies | `mod/body.go`, `mod/multipart.go`, `internal/std/request.go` | body, `GetBody`, a pool of multipart buffers | the body modifiers, rewinding | a buffer returned to the pool that `GetBody` still reads |
| fast client | `fast/` | pooled adapters, one cookie jar | `Do`, the redirect loop | what a redirect to another host carries along |
| retry and breakers | `middleware/retry.go`, `resilience.go`, `ratelimit.go` | attempts, body position, a registry of breakers | `Retry`, `CircuitBreak`, `Fallback`, `LimitEnforcer`, `Chaos` | unsafe methods, half-read bodies, responses held between attempts |
| re-authentication | `middleware/reauth.go` | generation, `lastErr`, the wait channel | `ReAuth`, `execute` | one refresh for all requests, waiters woken by a channel |
| pipeline and cache | `pipeline/pipeline.go`, `prep.go`, `post.go`, `cache.go` | a response cache, a dictionary store | `Prepare`, lookup, `PostProcess`, store, invalidate | one stage fails after another took the body, an answer is stored after it was made void |
| dispatch, hedging | `pipeline/resilience.go` | a shared cursor; two attempts, a timer, a channel, contexts | `DispatchRequest`, `executeWithProxyFailover`, `retryWithMutation`, `executeWithHedging` | bounded sends, exactly one winner, losers drained |
| dictionaries | `netutil/dict` | entries, indices by hash and by id, a byte budget | `Set`, `Get*`, `Match`, expiry | indices and budget over replacement and eviction |
| endpoint health | `internal/health/health.go` | three atomics per endpoint | `MarkFailed`, `MarkSuccess`, `Reset`, `IsAvailable` | the atomics are updated one by one |
| load balancer | `resiliency/loadbalancer` | pool, cursor, weights, trackers | `Do`, `SelectHealthy`, prober, `SetWeight`, `SetBackendPool` | the pool changes under a request that iterates over it |
| proxy rotator | `proxy/proxy.go` | proxies, a `uint32` cursor, sticky sessions, domain cooldowns | `Do`, prober, `UpdateClients`, `Reset` | indices of one slice meet another, draws interleave |
| proxy routing | `proxy/pac.go`, `trie/domain.go`, `proxy/session.go` | rules and their cache, a trie, ticket caches | `FindProxy`, `AddRule`, `Match`, `SetProxyKey` | a route cached from rules that are gone |
| latencies | `telemetry/rtt.go`, `proxy/adaptive.go`, `internal/health/vegas.go` | a ring of samples with a cached sort, a window | `Record`, percentiles, `Update` | a cached sort that is stale |
| connection pool | `internal/transport/pool.go` | h2/h3 connections, dial promises, the HTTP/1.1 idle stack | `DoCtx`, `CloseIdleConnections` | shared dials, promises resolved on every error path |
| HTTP/3 engine | `h3_engine.go` | a connection per origin, dial promises | `getConn`, `Do`, `Close` | `Close` during a dial |
| dialer | `internal/transport/dialer.go`, `netutil/netdial` | racing attempts and their sockets | `DialL4`, `DialDirectTCP`, `DialMultiNIC`, CONNECT | the losers of a race, results nobody sends |
| DNS transports | `dns/dot.go`, `doq.go`, `doh.go`, `dns.go` | a connection per lookup, a QUIC connection for all | `LookupIPAddr`, fallback, race | late answers, one caller's failure felt by all |
| DNS cache, stale resolver | `dns/cache.go`, `dns/stale.go` | per host an entry with its deadlines, a shared lookup, a refresh mark | `LookupIPAddr`, purge, background refresh | staleness judged before a query and used after it |
| io_uring | `netutil/iouring` | two rings with wrapping counters | `Read`, `Write`, `Close` | counters that wrap, entries that survive a failed enter |
| wire | `internal/transport/h1.go`, `tlsrecord.go`, `fragment/fragment.go` | header lines, record sequence, fragments | `ReorderHeaders`, `Write`, `Read` | empty records, padding, limits |
| WebSocket | `realtime/ws` | fragmentation state, write buffers; HTTP/2 credit; the handshake | dial, `Read`, `ReadMessage`, `Write`, `Close` | control frames between fragments, the reader writes too, a cascade of handshakes |
| streams | `realtime/stream/stream.go` | a response, two channels, the last event id | SSE, gRPC-Web, `ResumableSSE` | a silent server, a consumer that is gone, resumption |
| downloads | `realtime/stream/download.go`, `internal/download` | a file and a checkpoint that outlive a crash | `DownloadTask`, `Downloader` | the resource changes between two executions |
| cookies | `cookie/` | a jar per proxy, a file | `SetCookies`, `Cookies`, save, load, eviction | two first uses of a proxy, a save that fails |

`PROJECT.json` lists these and the parts that are not modelled, with the reason, and every hazard of the code at the line
where it bites.

## 2. Modules

A component module declares its parameters as CONSTANTS with named assumptions, has one action per step of a handler (a
step ends where another goroutine can observe or change shared state: a lock released, an atomic operation, a channel
operation, an I/O call), and states its properties. A section of faulty variants holds single-step bugs that show how
each property can fail. Where the code gives up a guarantee, the property says for what, and what remains is what is
checked; where a comment of the repository promises more, the promise is stated beside it (section 6).

An `MC` module composes the components that are explored together: it gives the constants their values and adds the
variable `focus`, which names the component whose behaviours are explored while the others stay in one initial state.
So one run covers several components and each keeps its own state space; a property that joins several components is
defined there as a conjunction of theirs. The components share state only where a module EXTENDS another
(`Balancer` and `Rotator` with `HealthTracker`, `StaleResolver` with `DnsCache`).

| module | models | checked in |
|---|---|---|
| `ReAuth` | `middleware/reauth.go` | `MCResilience` |
| `Hedging` | `executeWithHedging` of `pipeline/resilience.go` | `MCResilience` |
| `Streams` | `realtime/stream/stream.go`; implements `EventFeed` | `MCResilience` |
| `EventFeed` | what a stream promises its consumer (abstract) | `MCResilience` |
| `ConnPool` | `internal/transport/pool.go` | `MCTransport`, `MCNetwork` |
| `IoUring` | `netutil/iouring` | `MCTransport` |
| `Wire` | `internal/transport/h1.go`, `tlsrecord.go`, `fragment/fragment.go` | `MCTransport` |
| `ProxyRouting` | `proxy/pac.go`, the router of `proxy/proxy.go`, `trie/domain.go`, `proxy/session.go` | `MCTransport` |
| `Dialer` | `internal/transport/dialer.go` over `netutil/netdial` | `MCNetwork` |
| `H3Engine` | `h3_engine.go` | `MCNetwork` |
| `DnsTransports` | `dns/dot.go`, `doq.go`, `doh.go`, `dns.go` | `MCNetwork` |
| `WsDial` | `realtime/ws/websocket.go` | `MCNetwork` |
| `WsH2` | `wsH2Conn` of `realtime/ws/wsconn.go` | `MCNetwork` |
| `WsConn` | `wsRawConn` of `realtime/ws/wsconn.go` | itself, by `MCWsConn.cfg` |
| `DnsCache`, `StaleResolver` | `dns/cache.go`, `dns/stale.go` | `MCStorage` |
| `Downloads` | `realtime/stream/download.go`, `internal/download` | `MCStorage` |
| `Cookies` | `cookie/` | `MCStorage` |
| `Bodies` | `mod/body.go`, `mod/multipart.go`, `internal/core/modifier.go`, `internal/std/request.go` | `MCStorage` |
| `HealthTracker` | `internal/health/health.go`, each method as its sequence of atomic operations | `MCBalancer`, `MCRotator` |
| `Balancer` | `resiliency/loadbalancer/loadbalancer.go` | `MCBalancer` |
| `Latency` | `telemetry/rtt.go`, `proxy/adaptive.go`, `internal/health/vegas.go` | `MCBalancer` |
| `Rotator` | `proxy/proxy.go` | `MCRotator` |
| `Pipeline` | `pipeline/pipeline.go`, `prep.go`, `post.go`, `cache.go` | `MCPipeline` |
| `Dispatch` | the failover and recovery loops of `pipeline/resilience.go` | `MCPipeline` |
| `Retry` | `middleware/retry.go`, `resilience.go`, `ratelimit.go` | `MCPipeline` |
| `Dictionaries` | `netutil/dict` | `MCPipeline` |
| `Client` | `client.go`, `config.go`, `engine.go`, `bridge.go`, `contract.go`, `dial.go` | `MCClient` |
| `Builder` | `builder.go`, `typed.go`, `facade.go`, `internal/response` | `MCClient` |
| `FastClient` | `fast/` | `MCClient` |
| `Resilience_proofs` | proofs about `ReAuth`, `Hedging` and `Streams`, which implements `EventFeed` (section 5) | |
| `HealthTracker_proofs` | proofs about `HealthTracker`, and about `Balancer`, which calls it | |
| `Rotator_proofs`, `WsConn_proofs` | proofs about the module they are named after | |
| `Network_proofs` | proofs about `ConnPool`, `DnsTransports`, `Dialer`, `H3Engine`, `WsDial`, `WsH2` and their composition `MCNetwork` | |
| `Pipeline_proofs` | proofs about `Dispatch`, `Pipeline`, `Retry` and their composition `MCPipeline`; and about `IoUring`, whose counters wrap as the cursor of `Dispatch` does | |
| `Client_proofs` | proofs about `Client`, `Builder` and `FastClient` | |
| `Storage_proofs` | proofs about `DnsCache` with `StaleResolver`, `Downloads`, `Bodies` and `Cookies` | |

**ReAuth.** The state is the fields of `reauthBarrier` (channels are numbered; a closed one remembers the outcome of the
refresh that closed it) and per request a program counter, the last response, the attempt number and the captured
`startGen`. Whether an answer triggers a refresh is a choice of the environment. The critical sections of `execute` are one
action each; the channel receive and `ctx.Done()` are two, so that a cancelled waiter races with the wake-up.

**Hedging.** The two attempt goroutines, the timer, the buffered result channel, the two derived contexts, the parent's
cancellation and the drain goroutine are separate processes; every select is a disjunction of its ready cases. Whether the doer
answers under a context of its own (`wraps`), as an `http.Client` with a Timeout and so the default engine does, is open.

**Streams, EventFeed.** A stream is its goroutine, the watcher that closes the body when the context ends, the server and
the consumer of the two channels; a log is a sequence of events with and without ids. `EventFeed` has two operations of
the consumer's view (an event is delivered, the feed ends) and knows nothing of connections. `Feed` in `Streams` is the
INSTANCE that maps the one to the other, `ImplementsFeed` the property.

**ConnPool.** `h2Conns`, `h3Conns`, the dial promises and the idle stack are functions over origins; connections are records
with a protocol, an owner and an open flag. Certificate verification, ALPN and the HTTP/2 and QUIC libraries are reduced
to the outcome the pool sees. `CloseIdleConnections` and a connection dying by itself may come between any two steps.

**IoUring.** Ring positions are counters modulo `CounterWidth` on a ring of `RingSize`; the kernel takes entries, completes
them in any order, and `io_uring_enter` may fail. **Wire.** `ReorderHeaders` runs on every header of up to `MaxLines` lines and
is compared with a reference definition; records are byte sequences whose zeros matter, and the cipher is a tag that
opens only under the right sequence number. **ProxyRouting.** A PAC rule is the predicates it tests, the trie a set of
paths of labels; a ticket is named by the proxy it was issued through.

**Dialer.** Every attempt is a goroutine; a socket is named by the address it goes to, and `exit` remembers by which of its returns
the caller left the race. **H3Engine.** Critical sections of
`e.mu` are steps, a dial and an exchange are not. **DnsTransports.** A query is `<<lookup, family>>` and an answer is named by the
query it is for, so a late answer read by the next query is visible. **WsDial.** The server sends the frames of the HTTP/2
handshake in any order or falls silent, and selects any subprotocol and compression, offered or not. **WsH2.** Bytes are
counted; the windows, the credit and the mutex are state; a frame in flight carries how much was sent before it; the peer may stop
reading for good (`stalled`), and then a write returns only once the connection is closed.

**WsConn.** Payloads are (message, part) pairs: what the properties tell apart is which piece of which message a byte
belongs to. The shared header and mask buffers and the write token are state, so a frame is assembled in one step and
written in another. A call that failed does not close the connection and may be repeated; after a refused header or a read
deadline in the middle of a frame (`desync`) the rest of the stream is read as frames of any kind (`Garbage`). `MaxEmptyReads` stands for the constant 100 of the read loop.

**DnsCache, StaleResolver.** An address is the time at which upstream gave it, so its age is a subtraction. The function
given to `dedup.Group` is a small machine of its own (second look, `LookupDNSRecords`, `LookupIPAddr`) whose result goes to
whoever waits. Hosts meet only in the NXDOMAIN cut, so one host is modelled and whether an ancestor cuts is left open. `denied` records
whether the last denial was heeded, or ignored for a stale entry in reserve.

**Downloads.** A file is a sequence of `<<version, block>>`; the file, the checkpoint and the resource survive a crash.
**Cookies.** A host is a sequence of labels, a path one of segments, a value the call that set it; a cookie restored from
the storage is set for its own domain and without its partition, as in `jar.go`. **Bodies.** A body is known
by the request and the modifier that gave it; the pool hands out buffers, a reader holds a reference to one.

**HealthTracker, Balancer, Rotator.** The atomics of every endpoint, a clock, and per thread the next atomic operation of the
call it is in; reading the clock and storing the end of a cooldown are two of them. `Balancer` and `Rotator` conjoin their own variables to those steps: their goroutines are the tracker's
threads. `TrackerSpec` is the same trackers under any callers, which `Balancer` and `Rotator` implement. Random picks are choices;
the rotator's `uint32` cursor keeps a width (`CounterSize`) so that it wraps, and unevenly where the size of the pool does not
divide it. **Latency.** The ring, its cached
sort and the integer arithmetic of the percentiles are kept; averages are the samples they come from.

**Pipeline.** Every stage of `PostProcess` in the order of the code, each an action that passes the response on, fails or
replaces its body. A query and the cookies are sets of pairs, a cache key what `NormalizeCacheURL` and
`ComputeCookieIndicesHash` keep of them; an answer carries the version of the resource it shows and by how much transcoding to UTF-8
enlarges its body. **Dispatch.** A request holds at most one response; how often it was sent, and under the addresses of which
proxies, is recorded. What `prepareRequestForProxy` gives an attempt is the address its cookie jar goes by, and only if the request
carries a configuration (`carries`); nothing in the loop routes the exchange, so its outcome does not depend on the address. The `uint32` cursor keeps a width and may stand
anywhere at first; `disturbed` records the calls that another one overlapped or whose cursor wrapped to another proxy than the next. **Retry.** The chain of middlewares around a
doer; a body is whole, partly read or used up. **Dictionaries.** Every method holds the lock and is one step.

**Client.** An engine is an `*http.Client` that is cloned with its transport (`http`) or without it (`tied`), a doer in which `UnwrapAs`
finds one (`wrapper`), which is configured in place and never cloned, or one in which it finds nothing (`custom`). Go slices are references (an array and a length), and `append` writes in place while the capacity lasts: this is
what makes derived clients interesting. How much an allocation leaves spare is the runtime's choice, so each array made by `append` or
`slices.Clone` takes it from `Rooms`. **Builder.** Eight forms of call and a batch over pooled builders. **FastClient.**
Pooled adapters through a redirect loop over three hosts, two of them of one site.

## 3. Runs

| run | components and instance | shows |
|---|---|---|
| `resilience` | `ReAuth` with 3 requests and 1 retry each; `Hedging` with all methods; `Streams` with 3 formats, 3 logs of 3 events, 1 reconnection | one refresh at a time (`SingleRefresh`), no stranded waiter (`NoLostWakeup`), no replay without a refresh (`ReplayAfterRefresh`), no failure but from a refresh that failed after the last attempt (`FailuresAreCurrent`), a hedged race drains what it leaves and, but for a second attempt under a context of its own, cancels the loser only (`RaceSettles`); a stream is an event feed (`ImplementsFeed`); `CallsReturn` |
| `reauth_blocked` | `ReAuth` as above | **violation**: a request that waited for a refresh that succeeded is failed with the error of a later one |
| `transport` | `ConnPool` with 3 requests to one origin, multiplexed; 3 calls on a ring of 2; headers of up to 4 lines, limit 3; 2 records in 3 fragmentations; 2 PAC finders; 4 routes in the trie; 2 handshakes | an HTTP/1.1 connection has one user (`ExclusiveH1`), no waiter on a promise nobody resolves and no socket left behind but by the two overwrites of a multiplexed connection (`NoDialLost`), completions reach their call through wrap-around (`RingKeepsOrder`), what is written is what is read (`WireKeepsAll`), routes and tickets are those of the present rules and proxies (`RoutersFollowRules`) |
| `network` | `ConnPool` in all modes, 2 requests; dials of up to 3 addresses; 2 requests to the HTTP/3 engine; 2 lookups in 4 combinations; every WebSocket dial; a writer, a reader and a closer on an HTTP/2 stream | no connection is left behind, but by two ways out of a race, or made where it must not be (`NoStrayConn`), no answer reaches another question (`AnswersBelong`), a WebSocket dial settles its socket and agrees with the peer, on one of the subprotocols asked for if any was (`DialAgrees`), credit and end of a stream are exact (`StreamAccounts`); `ConnectingEnds` |
| `dial_hangs` | `Dialer` as above | **violation**: a direct dial without a deadline waits for results nobody sends |
| `storage` | one lookup and the refresher over 6 ticks; a download of 3 blocks replaced by one of 2; 2 cookie setters with 8 cookies to choose from, over 2 proxies with a crash; 3 requests over one multipart buffer | a name whose denial was heeded does not come back (`NoResurrection`), how old a served address can be (`ServedAreRecent`), a download that reports success and neither crashed nor lost a write or its ETag has one version in its file (`OneVersionInFile`), cookies stay with their proxy and a clean jar is saved (`CookiesKept`), a request sends its own bytes (`BodiesAreOwn`) |
| `balancer` | 2 calls, a pool of 2 swapped to 1, 3 strategies, prober and admin; 4 samples in a ring of 3 | trackers are exact (`TrackerExact`) and cool down from a failure of the last burst, no longer than one cooldown (`CooldownKept`), round-robin spreads (`RoundRobinSpreads`), a backend that answers serves (`FailoverServes`), limits come from the newest samples (`LatencyIsCurrent`) |
| `rotator` | 2 calls, a pool of 3 shrunk to 1, a cursor of width 4 (which 3 does not divide) | a call nothing overlaps finds the proxy that works (`ProxyServes`) |
| `pipeline` | `Dispatch` with 2 requests, 3 proxies and a cursor of width 4 (which 3 does not divide) from every position; `Pipeline` with 3 calls, 4 kinds, 6 answers; `Retry` with 2 callers, 4 inputs; 6 dictionaries, budget 3 | failover tries every proxy before it gives up (`FailoverTriesAll`), no response is dropped open (`NothingLeaks`), the cache answers with what it may (`CacheIsSound`), a body is limited before it is transcoded, and decoded as advertised (`BodyAsAnnounced`), sending again is bounded and safe (`ResendsAreSafe`), indices and budget of the store agree (`StoreIsExact`) |
| `ws` | 1 reader, 2 writers, 3 events of traffic (garbled frames and frames cut by a deadline among them), messages of 2 pieces | frames leave intact unless the buffers were raced for (`FramesIntact`), messages are reassembled, unless a call failed in the middle of a frame (`Reassembled`); `EveryCallReturns` after `Close` |
| `ws_race` | the same | **violation**: a pong answered by the reader during a write shares its buffers, frames mix |
| `client` | 3 clients on 5 kinds of engine, 2 closers, 1 send; 3 users, 3 builders, 8 forms; 2 fast calls over 3 hosts | derived clients do not interfere where their engines can be cloned (`ClientsIndependent`), builders and responses are settled (`BuildersSettle`), credentials and adapters stay where they belong (`FastCallsIsolated`) |

**Bounds.** Three requests are the smallest number that distinguishes "the one that refreshes" (or dials), "one that waits"
and "one that starts the next round". Two pools of different sizes and one background event (`MaxBackground`) are enough for
a captured slice and a captured index to disagree with the current one; `MaxTime` lets a cooldown expire once. Counters
that wrap (`CounterSize`, `CounterWidth`) and limits (`HeaderLimit`, `SizeLimit`, `MaxBytes`, `MaxEmptyReads`, `MaxCwnd`) are reduced so
that a run passes them with one step to spare. In `storage` six ticks are the least in which an address can outlive both
caches by one tick, the two versions of the resource differ in length so that a mixed file shows, and one multipart buffer
for three requests makes it change hands. In `network` three addresses allow a blocked one, a failure within the stagger and
a winner. In `client` what `append` allocates leaves room for one more (`FewRooms`), so that a write in place could meet a shared
array. One reconnection puts an event before and behind it. Bounds are guards of the actions they bound, named in the
modules; none restricts what happens inside a call that has started.

**History variables.** They are marked as such where they are declared and no guard reads them. Some record what
happened in full (`wire` of `Bodies`, `sent` and `padded` of the frames of `WsH2`, `prepared`, `consumed` and `taken` of `IoUring`, `recorded` of `Latency`, `floor` and `purged` of
`Pipeline`, `touched` of `Dialer`, `tried` of `Dispatch`, `since` of `HealthTracker`, `exit` of `Dialer`); others mark where a guarantee ends: `overlapped` (in `Dispatch` `disturbed`) calls during which another
actor, or an uneven wrap, moved the shared cursor or replaced the pool, `contended` trackers of which a success or reset overlapped another call, `raced` write buffers, `early` lookups
that read their entry before a failure was noted, a denial that was `"ignored"`, messages `garbled` because a call had failed inside a frame, `hurt` downloads that crashed, lost their ETag or a write, or took an error status for data, `failed` and `outdated` jars.
For what is marked the property is really false in the code (a concurrent draw can make both draws of a call hit the same
proxy; a `MarkSuccess` between the counter and the flag of a `MarkFailed` leaves an unhealthy endpoint without failures), so it is
stated for the rest.

**Deadlock** is checked in `resilience`, `pipeline` and `ws`, where every behaviour ends in a named final state. In the others a
behaviour stops at a bound on background events, the clock or the number of connections, or the component is a service
that waits for the next call.

**Symmetry** is used where the permuted requests or calls are alike in every definition, and only in runs that check no
liveness. `rotator` has a VIEW without the ghosts `contended` and `since` of the trackers, which its property does not look at.

## 4. Fairness

Liveness is checked in `resilience`, `network` and `ws`: every call that began returns. Weak fairness is assumed of the steps of
goroutines that have started, since the Go scheduler runs every runnable goroutine eventually. An attempt, a dial or a
`Refresh` is assumed to answer or fail where it runs under the timeouts of the transport; where it has none (a silent
WebSocket or DoT server), the answer is not fair and only the deadline is (`DeadlinePasses`). The steps of the HTTP/2 stream that
take its mutex are strongly fair, because `sync.Mutex` hands itself over to a starved waiter; but a write under it has no deadline
(`wsconn.go:849-863`) and is enabled only while the peer reads or once the connection is gone (`WriteReturns`), so nothing is said of
a `Close` behind a stalled one. Cancellation, new
requests, `CloseIdleConnections`, the frames and events of a peer, its stalling (`PeerStalls`), read deadlines and the reads of a consumer are never fair: nothing relies on
them. In `ws` fairness is conditional on `closed`: an open connection may block its reader for ever, a closed one makes every
socket call return. `ConnectingEnds` excepts three waits that the code does not bound: a proxy that accepts a connection and
stays silent, the answer to an Extended CONNECT, for which the deadline has been taken off, and a `Close` of a WebSocket over HTTP/2
behind a write that the peer does not take.

## 5. Proofs

The theorems hold for every value of the constants that satisfies the named assumptions of the modules. All of them rest
on an inductive invariant, because none of the properties is inductive alone; the invariant's conjuncts are named for
what they say, there is one lemma per action (or group of actions that touch the same state), and under it one
step per conjunct the action can disturb. Lemmas of the form "this step leaves those variables alone" (`ReadsOnly`, `SameMessages`,
`LookupIdle`, `RaceIdle`, `OthersSpread`) settle the actions that have nothing to do with an invariant.

| theorem | property | about |
|---|---|---|
| `TypeCorrect`, `RefreshIsSingle`, `WakeupIsKept`, `ReplayIsFresh`, `FailureIsCurrent` | `SingleRefresh`, `NoLostWakeup`, `ReplayAfterRefresh`, `FailuresAreCurrent` | `ReAuth` |
| `TrackerTypeCorrect`, `CooldownIsKept`, `TrackerIsExact` | `CooldownKept`, `TrackerExact` | `HealthTracker` |
| `HedgingSettles` | `RaceSettles` | `Hedging` |
| `StreamsImplementFeed` | `ImplementsFeed` (refinement) | `Streams`, `EventFeed` |
| `PoolInvariance`, `PoolExclusiveH1`, `PoolNoDialLost` | `ExclusiveH1`, `NoDialLost` | `ConnPool` |
| `LookupsAreAnswered` | `AnswersBelong` | `DnsTransports` |
| `DialsLeaveOneSocket`, `H3ConnsAreKept`, `NoConnIsLeft` | `NoStrayConn` | `Dialer`, `H3Engine`, `MCNetwork` |
| `WsDialsAgree` | `DialAgrees` | `WsDial` |
| `StreamsKeepAccounts` | `StreamAccounts` | `WsH2` |
| `BalancerCallsTrackers`, `RotatorCallsTrackers` | `TrackerSpec` (refinement) | `Balancer`, `Rotator` |
| `BalancerFailsOver`, `RoundRobinKeepsSpreading` | `FailoverServes`, `RoundRobinSpreads` | `Balancer` |
| `RotatorReachesProxy` | `ProxyServes` | `Rotator` |
| `DispatchIsBounded`, `FailoverTriesEveryProxy` | `FailoverTriesAll` | `Dispatch` |
| `PipelineLeaksNothing`, `ResendingIsSafe`, `RetriesAreSafe` | `NothingLeaks`, `ResendsAreSafe` | `Dispatch`, `Pipeline`, `Retry`, `MCPipeline` |
| `CacheStaysSound`, `BodyKeepsToAnnouncement` | `CacheIsSound`, `BodyAsAnnounced` | `Pipeline` |
| `BuildersAlwaysSettle` | `BuildersSettle` | `Builder` |
| `FastCallsStayIsolated` | `FastCallsIsolated` | `FastClient` |
| `ClientsStayIndependent` | `ClientsIndependent` | `Client` |
| `RingOrderKept` | `RingKeepsOrder` | `IoUring` |
| `WritersNeverMix`, `MessagesArriveWhole` | `FramesIntact`, `Reassembled` | `WsConn` |
| `ServedStayRecent`, `DeniedStaysGone` | `ServedAreRecent`, `NoResurrection` | `DnsCache`, `StaleResolver` |
| `OneVersionSaved` | `OneVersionInFile` | `Downloads` |
| `SentBodiesAreOwn` | `BodiesAreOwn` | `Bodies` |
| `CookiesStayKept` | `CookiesKept` | `Cookies` |

**ReAuth.** The conjunct `Barrier` of `IInv` ties the barrier's fields together between critical sections: `inFlight` implies
that some request is in `refreshFn` and that `waitChan` is open; an open channel is the current one of a refresh in flight; no
request captured a generation from the future; and a waiter whose channel is closed sees a generation beyond its own,
which is what makes its replay fresh. `FailureIsCurrent` adds `Ledger`: there is one channel per generation, and the error shared now is what
closed the last of them. Assumed: `MaxRetries \in Nat \ {0}`, `HasRefresh \in BOOLEAN`.

**HealthTracker.** About `TrackerSpec`: any number of goroutines calling any methods of any number of trackers, in every
interleaving of their atomic operations. Inside a call flag and count do differ; `Tied` says how: a call that clears is alone; a
failure past the threshold means that the count is still there; and flag and count differ only while some call is about
to bring them together. For `CooldownIsKept`, `Cooling` says that no reading of the clock a call holds, and no deadline it stored, is
older than the burst of overlapping calls (`since`), and `NotAhead` that none is from the future. `Elsewhere` says that an operation leaves the other trackers alone, `EnterIInv` that a call which enters finds
nobody, or only failures beside its own, or marks the tracker contended. Assumed: a nonempty set of endpoints and positive
`MaxFails` and `RetryAfter`, which `NewTracker` enforces.

**Balancer.** `BalancerCallsTrackers`: `CallFits` says at which points of `Do`, of the prober and of the administration a goroutine is
inside a tracker's method and for which endpoint, so each step is one of `TrackerSpec` or leaves the trackers alone, and
`TrackerExact` and `CooldownKept` hold of the balancer for any number of requests. For `BalancerFailsOver`: the order of a call is a
permutation of the pool it captured, whatever strategy made it and however the weights raced with the sort; a backend that answers every
request is never marked failed (`SolidWell`), so an attempt that passes over a position finds none such there (`PassedOver`), and a call fails only
with its last position passed. Assumed: `WithBody = {}`, requests without a body, as in the run: an attempt may have consumed a
body before it failed, and what the next backend makes of the rest is not the balancer's (see the hazard at
`loadbalancer.go:376`). For `RoundRobinKeepsSpreading`, `TicketsFit` ties the cursor to the calls that took their order and each of
them to a ticket; n tickets in a row lead to n places. Assumed: finitely many requests, since the cursor counts them, and two different
pools, since the property is about the calls before the replacement. `ThreadsAssumption` and `PoolsAssumption`: the goroutines are
distinct, pools are not empty.

**Rotator.** `RotatorCallsTrackers` as above (`CallsFit`). `RotatorReachesProxy`: as in `Dispatch` below, `Window` says that a call which nothing overlapped
has tried the positions the cursor went over last, the one its sticky session named apart, which it tried first (`PassedOver`);
calls in flight together overlap (`Alone`), so in the remaining ones the cursor moves by their own draws only. A wrap of the cursor that
skips positions, which happens where the size of the pool does not divide 2^32, counts as overlapping: TLC shows that the
property fails without that. `ClientsAssumption`: pools are not empty, and a replacement has new trackers, as `UpdateClients` makes them.

**Hedging.** `RaceInv` has one part per phase. While the caller waits (`Racing`), `activeCount` is the number of attempts running plus
the results in the channel, and an attempt that ended has failed or has its response in the channel (`Accounted`); after
the return (`Decided`) the same count is what the drain goroutine still expects, and an error means that every attempt
that may be made has failed. `OnceEach` and `ContextsEnd` tie the two contexts to the body that is handed out. `handleHedgeWinner` knows the
second attempt by the context of the request in its response, so under a doer that `wraps` the first attempt is taken for the winner:
the theorem holds for these doers too and names what they lose, the context of a second attempt that won.

**Streams.** The refinement needs, per stream: `lastEventID` is the last event with an id among those the consumer has or will get
(`Remembers`), so a resumption starts there; what is read next on a live connection is the successor of the last event or of that
id (`Follows`); the event between `NextEvent` and the channel is in that order too (`Pends`); a stream that is over has let go of its
response and its watcher (`Closes`). Then every step is a delivery, the end, or a stutter of `EventFeed`. `EventsAssumption` says what a log
is: a sequence of events with or without an id.

**ConnPool.** `PoolInv`: what a request holds at each point of its way (`RequestsFit`), which kinds of connections each map has
(`KindsFit`), that an HTTP/1.1 connection, or one that may become one, is in one place only (`Exclusive`), that a promise
is pending exactly while its dialer is at work and that a waiter waits for one that was made (`DialsFit`), and that a live socket
is in the idle stack or in the hands of a request (`LiveConnsKept`). Multiplexed connections stay in their maps until one is overwritten:
by the dial of a second dialer after `CloseIdleConnections`, or by that of a request which found the stream limit reached. `CloseIdleConnections` is why `DialsFit` cannot say that a pending
promise is in the dial map: it empties the maps during a dial. A step is described by what it leaves alone (`MovesOnly`,
`KindsKept`, `Private`), so that the quantified conjuncts are carried over by lemmas and not by case analysis. Assumed: `None` is
not a request, the modes are sets of toggles.

**DNS transports, dialer, HTTP/3 engine, WebSocket dialling.** `LookupInv` orders the queries of a lookup (`QueryOrder`) and
allows one live QUIC connection (`QuicKept`). `RaceInv` says that an open socket is pursued by its own attempt or reported in the
channel, which is why the drain finds it, and that no attempt is launched at an address the guard blocks; `StrayInv` what is left where
none drains: by `exit` with the context, or with a result taken in the stagger. `H3Inv` allows
one dialer per origin, an empty map once the engine is closed, and places every open connection in the map or in the
hands of a request that will put it there or close it. `WsDialInv` orders the handshake. `NoConnIsLeft` and `WsDialsAgree` are about
the composition `MCSpec`: `StepsApart` shows that its step is a step or a stutter of each component. `DialerAssumption` says what an
address is, `H3Assumption` that `Nobody` is not a request.

**WsH2.** `H2Inv`: each frame in flight begins where the one before it ends and the last one ends at what was sent (`InOrder`), so what
the reader has received is read off the first frame and no sum over the frames is needed; what was received has been read or is
buffered, and what the peer may not send is in flight, buffered, about to be returned or padding (`Accounted`). That the
end of the stream comes with the last frame (`InOrder`) and that the reader waits for frames with an empty buffer only (`ReaderFits`) is why
the end is never reported early. `WsH2Assumption` gives windows and frame sizes their types.

**WsConn.** Two invariants over disjoint parts of the state. `WritersNeverMix`: the write token has one holder, and what is in the shared
header and mask buffers is of the frame that the holder writes, until the reader answers a control frame during a write
(`raced`). `MessagesArriveWhole`: `fragOpcode`, `fragBuf` and `fragCompress` are those of the message under way, and what was
handed over together with what is in the buffer and on its way is what the peer sent, until a call fails inside a frame: of the
messages made after that only the marking (`garbled`) is known. `OpcodesAssumption` keeps the marker for
"no opcode" apart from the opcodes.

**DNS cache and stale resolver.** `CacheInv`: an entry was fresh for the longest TTL at most (`Young`, `Recent`), a shared lookup that
could bring back a denied name does not hold its addresses (`Gone`), and who is about to ask upstream has not seen a
failure that forbids it (`Rechecks`). `ResolverInv` adds the record in front of it. The bound of `ServedAreRecent` is the sum of the windows
of both caches, since the outer one gives a full TTL to what the inner one served stale. Assumed: durations are positive.

**Downloads.** A checkpoint counts only if its ETag is that of the current version, and then the file is a prefix of that
version of the length it says (`CheckpointHolds`); behind the probe the file is what the GET is to continue (`ProbeHolds`), and
during the copy what was read of one response, no older than the probe (`CopyHolds`). All three hold until a crash or a
missing ETag (`hurt`). `DownloadAssumption`: the resource has at least one version, each of some natural size.

**Bodies.** Every body in hand and every `GetBody` came from a modifier of the request's plan (`FromPlan`): the last one, or under
`ApplyStd` an earlier one. As long as no form was replayed, the buffer of a form that has not been sent is outside the
pool and has the request's bytes (`PoolKept`). `BodiesAssumption` lists the kinds of arguments and modifiers.

**Dispatch.** `DispatchInv` counts: a call has sent at most once per attempt, a response is held exactly while it is inspected, and
calls in flight together are disturbed (`Overlaps`). `DispatchIsBounded` follows, with the two conjuncts that `ResendsAreSafe` and
`NothingLeaks` have about this component. For `FailoverTriesEveryProxy`, `Ago` counts how many advances ago the cursor was at a
position, and `Window` says that an undisturbed call has tried the positions the cursor went over last, as many as it made
attempts; an error after the last attempt then means that all were tried. The property itself asks for a retry limit of at least the
number of proxies less one: with a smaller one a call gives up before it has gone round. The first attempt uses the position where
the cursor stands, which is why one less is enough.

**Retry, Pipeline.** `StepsApart` splits a step of `MCPipeline` into those of its components, so that the joint properties follow from one invariant
for each. `RetryInv`: before every send a try is left (`TriesLeft`); an attempt beyond the first was allowed by what the method, the key and the
configuration were when it was checked, and they stay so (`Allowed`); the body is whole or the rest of a stream (`BodyReady`); a response
is left open only on the named ways out (`Settled`); the breaker a call goes through is the one of the registry, or is being
published under the lock (`Agreed`). `PipeInv` follows body, length and declared length through the stages (`Bodied`, `Measured`), and the
dictionary from the request that advertised it to the response (`Advertises`). `CacheInv`: what is stored was made by a request
with the same key, from an answer that may be stored (`Entries`), and is as new as the last finished purge unless it was stored late
(`Current`, which must also look at the unsafe calls that have purged and not yet returned). Assumed: a kind of
request names its language; an answer that is not chunked and has one Content-Length is as long as that says
(`AnswersAssumption`), since `net/http` reads no further. `BodyKeepsToAnnouncement` further assumes `Framed`: every request validates framing or
every answer has the length it declares. Without it an answer with a wrong or a second length next to its chunks passes the guard on the declared one.
Both speak of the body before `applyCharsetTranscoding`, which the limit does not see when the length was declared.

**IoUring.** `Queue`: the counters are how many operations were taken, published and prepared, modulo their width, and the entries
between hold the operations in that order. `FillingHolds` says that a new entry overwrites none of them as long as `RingFull` is
checked, `TakingHolds` that the kernel reads them in order although both the counter and the index wrap; failed submissions leave
published entries behind, so `ktail` is only known to lie between. `OneOperation` says that without a failure at most one
operation exists, of the call that holds the lock, which is all that ties a completion to its call. `RingAssumption`: the size of
the ring divides the width of the counters, as powers of two do. Remainders are handled by a few lemmas (`Remainder`,
`WrapsTwice`, `WrappedDistance`, `SlotsDiffer`), since products are beyond the SMT solver wherever anything else is in its context.

**Builder, FastClient.** `BuilderInv`: a builder is in the pool or with one user, who found it without settings (`Pooled`, `OwnBuilder`), and
what a request carries are the settings of its user (`Wished`); the response follows the form of the call (`BodySettled`). A batch counts its
fetches, so the set of those it still waits for is what its invariant is about. `FastInv`: an adapter is in the pool, with one call or
unused (`AdaptersPooled`), and what a call carries belongs to its present target (`CallInv`): `Home` is the set of cookies
of a site, over which a redirect may carry them. `FormsAssumption` and `AdaptersAssumption` list the forms of calls and styles, and keep
the markers for "none" apart from builders and adapters.

**Client.** `SlicesInv` says which slices share an array: the two that a client keeps of its middlewares, its own and the one in its
configuration, share theirs with no other slice of middlewares and with no validators (`ArraysApart`), while validators may share
theirs. The lemmas about slices (`Appends`, `Clones`, `ViewsStay`, `AppendsLast`) say what `append` leaves alone: every array but the one
behind its slice, and the length of that one too. `Derives` follows `With` through the clone, the options and `applyConfig`, `Grows` the two
appends of `Use`; whatever the spare capacity, the views of the other clients stay. `EnginesInv` is the same for engines, which `With` clones
unless they are no `*http.Client`; a step may change an engine that others share only if it cannot be cloned whole (`Preserved`), which
is why the settings of the other kinds are outside the property; `NetInv` that a context holds the network settings of its caller or of a client it was used with;
`SendsInv` that a request under way owes a prefix of what its client has now; `HooksInv` that hooks are with the client or with one
call of `Close`, or have run. `OptionsAssumption` gives the options their types, `RoomsAssumption` the spare capacities.

**Cookies.** `JarInv`: what is in a jar was set by a call through the proxy that owns it, at a domain the setting host is in, one of each key.
`StoreInv` says the same of the memory, the file and a flush on its way between them; `SavedInv` that a jar in force which
is not dirty is what was saved, or is about to be. Jars are numbered by their making, so the lemmas are about appending to the
sequences that describe them. `CookieAssumption`: the inputs are through known proxies and their hosts are names.

**Only model-checked**, and why:

- all liveness (`CallsReturn`, `ConnectingEnds`, `EveryCallReturns`): fairness and ENABLED are outside the prover;
- `LatencyIsCurrent` sorts the samples, `StoreIsExact` sums the sizes of the dictionaries and matches
  wildcards, `WireKeepsAll` compares what `ReorderHeaders` and the record framer compute with reference definitions: each needs an induction over data;
- `RoutersFollowRules`: the trie of `ProxyRouting` is searched with a RECURSIVE operator, which costs the prover its SMT backend.

## 6. Findings

Three runs show the code doing other than its comments say; `PROJECT.json` quotes the lines.

- `reauth_blocked`: `ReAuth` documents that blocked requests are replayed once the refresh succeeded. A waiter reads `lastErr` only
  after it re-acquires the mutex; a later refresh that failed meanwhile supplies its error (`middleware/reauth.go:63`).
- `ws_race`: the reader answers pings and closes through buffers that writers use, without the lock that their comment names
  (`realtime/ws/wsconn.go:443`).
- `dial_hangs`: the race over addresses awaits one result per address, although a blocked address sends none and a failure during
  the stagger has been received (`netutil/netdial/netdial.go:400`).

Other sentences of the repository that the modelled code does not keep are stated as formulas beside the properties
that hold, without a run of their own:

| formula | module | promise | what the code does |
|---|---|---|---|
| `ChainWrapsEngine` | `Client` | `client.go:53` | the chain is built over the engine before a custom one replaces it |
| `EnginesAreIndependent` | `Client` | `client.go:147` | a doer that wraps an `*http.Client` is shared by `With` and configured in place; clients whose transport cannot be cloned share its dialer |
| `ValidatorsAreIndependent` | `Client` | `client.go:147` | validators of derived clients share one array |
| `ResultClosesBody` | `Builder` | `typed.go:561` | `FetchResult` captures the response, drops it and leaves its body open |
| `WinnerIsKept` | `Hedging` | `config.go:825` | under the default engine, whose Timeout gives the request a context of its own, a second attempt that wins is taken for the first and its body cut off |
| `NothingOrphaned` | `ConnPool` | `internal/transport/pool.go:462` | a second dial overwrites a live h2 or h3 connection in its map (187, 314), which is never closed |
| `EveryLoserClosed` | `Dialer` | `netutil/netdial/netdial.go:323` | a caller that leaves the race with its context or with a result of the stagger drains nothing |
| `OnlyOffered` | `WsDial` | `realtime/ws/websocket.go:247` | without subprotocols any is accepted, and compression that was not offered is used |
| `DenialEndsStale` | `DnsCache` | `dns/cache.go:56` | a denial by `LookupDNSRecords` is a failure like any other while a stale entry is in reserve |
| `AttemptsAreProxied`, `RateLimitRotates` | `Dispatch` | `config.go:819` | the address of a proxy reaches the cookie jar only, if the request has a configuration; 502 and 503 rotate, 429 does not |
| `ReadsAreLimited` | `Pipeline` | `config.go:861` | transcoding enlarges a body whose declared length is trusted |
| `ReplayIsOwn`, `WritersEnd` | `Bodies` | `middleware/retry.go:387`, `mod/multipart.go:185` | a replay may read an earlier modifier's body, the rest of a reader, or a buffer given back; a pipe that is never sent keeps its goroutine |
| `BodyFollowsRedirect` | `FastClient` | `fast/README.md:105` | a streamed body is spent when a 307 or 308 asks for it again |
| `PartitionsKept` | `Cookies` | `cookie/jar.go:191` | a restart loses the partition of a cookie |
| `SeamlessResumption` | `Downloads` | `realtime/stream/download.go:88` | after a crash or without an ETag the file may mix versions |
| `BrokenIsResumed` | `Streams` | `realtime/stream/stream.go:434` | a connection that breaks off ends the stream with an error |
| `ConnectAgrees` | `WsDial` | `realtime/ws/websocket.go:247` | over HTTP/2 subprotocol and compression are not checked |
| `EofMeansClosed` | `WsConn` | `realtime/ws/wsconn.go:413` | the iteration limit of the read loop ends in `io.EOF` |
| `AlwaysReassembled` | `WsConn` | `realtime/ws/wsconn.go:413` | after a refused header or a deadline inside a frame the next call reads payload as frames |
| `LookupsIndependent` | `DnsTransports` | `dns/doq.go:39` | a caller who gives up closes the connection of all |
| `OnlyIdleClosed` | `H3Engine` | `h3_engine.go:431` | connections that carry an exchange are closed too |
| `CloseTerminates` | `IoUring` | `netutil/iouring/conn_linux.go:197` | a read that waits for the peer holds the lock `Close` needs |
| `TicketsIsolated` | `ProxyRouting` | `proxy/session.go:14` | `SetProxyKey` during a handshake stores its ticket under the new key |
| `FoundById`, `WildcardIsGlob` | `Dictionaries` | `netutil/dict/store.go:274`, `dict.go:171` | a dictionary that goes takes its id along although another one has it; a part is sought at its first occurrence only |
| `RetryAfterIsOptional` | `Retry` | `middleware/retry.go` | Retry-After is honoured without the option |

The hazards of `PROJECT.json` that no property covers have a note with the reason: they are of this kind.

## 7. What is not modelled

- **Codecs, ECH, GREASE**: encodings by reflection and wire formats without state; a model would be the code again.
- **Text**: header values, event and JSON lines, dates, PAC files, DNS and TLS messages, what transcoding makes of a character. Where a property
  depends on what a conversion keeps (cache keys, header order, padding, wildcards, cookie domains), that is modelled.
- **Libraries outside the repository**: HTTP/2 and QUIC streams (mach), `dedup.Group`, expiring caches, the states of a circuit
  breaker, `net.Resolver`, permessage-deflate. They appear as the outcomes the code in the repository distinguishes.
- **Options** that assign one field, request configuration, adapters between request types: sequential assignments, of
  which `Client` has one representative of each kind.
- **Kernel interfaces**: sockets, probes, memory mapping of io_uring. **Nik, IPC, test utilities, scripts**: helpers
  without shared state.
- **HAR, traces, metrics**: output that nothing reads back.
- **Time** is a counter of ticks with the deadlines that matter; the durations themselves are constants. Floating-point
  averages are the samples they come from.

## 8. Plan

The model covers the parts the repository's own logic is in. Every invariant the runs check is proved but for those listed as only
model-checked. What is left: a body that is partly consumed by a failed attempt (`BalancerFailsOver` without `WithBody = {}`) once the code rewinds it.
