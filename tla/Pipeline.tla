------------------------------ MODULE Pipeline ------------------------------
(***************************************************************************)
(* The transaction pipeline (pipeline/pipeline.go): Execute runs Prepare,  *)
(* the cache lookup, the dispatch and the post-processing stages of        *)
(* StdHandler for calls that share one response cache and one dictionary   *)
(* store.  What the dispatch does is in Dispatch and Hedging; here it is   *)
(* one step that yields an answer of the origin or an error.               *)
(*                                                                         *)
(* A query is a set of <<name, value>> pairs, and so are the cookies of a  *)
(* request; a cache key is the pair of what NormalizeCacheURL keeps of the *)
(* one and ComputeCookieIndicesHash of the other.                          *)
(***************************************************************************)
EXTENDS Integers, FiniteSets

CONSTANTS
  Calls,          \* calls of Execute
  Kinds,          \* requests explored
  Answers,        \* answers of the origin explored
  CacheRules,     \* CacheConfig.NoVarySearch
  CookieIndices,  \* CacheConfig.CookieIndices
  SizeLimit,      \* tx.SizeLimit in units of body, 0 for none
  MaxDictionary,  \* dict.DefaultMaxDictionarySize in the same units
  MaxRunning      \* bound on concurrent calls

ASSUME SizesAssumption == SizeLimit \in Nat /\ MaxDictionary \in Nat \ {0}
ASSUME RunningAssumption == MaxRunning \in Nat

Unknown == 0 - 1
Unsafe == {"POST", "PUT", "DELETE", "PATCH"}
None == "none"

(* Every request names its language.  A body that is not sent in chunks is  *)
(* as long as its one Content-Length says: net/http reads no further.       *)
ASSUME KindsAssumption == \A q \in Kinds : q.lang # None
ASSUME AnswersAssumption ==
  /\ Answers # {}
  /\ \A a \in Answers :
       /\ a.size \in Nat /\ a.coded \in Nat /\ a.grows \in Nat /\ a.lengths \subseteq Nat
       /\ ~a.chunked /\ ~(Cardinality(a.lengths) > 1) => a.lengths \subseteq {a.coded}

(* shouldIgnoreQueryParam *)
ShouldIgnoreQueryParam(name, rules) ==
  IF rules.all THEN name \notin rules.except ELSE name \in rules.ignore

(* NormalizeCacheURL and filterQueryParams *)
NormalizeCacheURL(query, rules) ==
  {p \in query : ~ShouldIgnoreQueryParam(p[1], rules)}

(* ComputeCookieIndicesHash: the hash stands for the cookies it is made of. *)
ComputeCookieIndicesHash(q, names) == {p \in q.cookies : p[1] \in names}

(* What tells two resources of the origin apart is what the client's rules  *)
(* keep of a query.                                                         *)
Resource(q) == NormalizeCacheURL(q.query, CacheRules)

Resources == {Resource(q) : q \in Kinds}

VARIABLES
  req,        \* the request of each call
  ppc,
  ans,        \* the answer each call works on, any one before it has come
  length,     \* resp.ContentLength
  declared,   \* the Content-Length header values left
  wire,       \* the connection's body: none, open or closed
  content,    \* what the caller reads: the stream, a whole copy, or less
  decoded,    \* the body has been decompressed
  limited,    \* the body is behind a LimitCheckingReadCloser
  advertised, \* Available-Dictionary of the request, 0 for none
  decodedBy,  \* the dictionary the body was decoded with, 0 for none
  outcome,    \* what Execute returned
  served,     \* the cache entry returned, empty unless it was a hit
  floor,      \* version already purged for when the call began (a ghost)
  store,      \* the cache store: key -> entry
  dictionary, \* the dictionary store's match for the path, 0 for none
  version,    \* the origin's resources
  purged      \* newest version of an unsafe call that has purged and returned (a ghost)

pipeVars == <<req, ppc, ans, length, declared, wire, content, decoded, limited,
              advertised, decodedBy, outcome, served, floor, store, dictionary,
              version, purged>>

PipeInit ==
  /\ req \in [Calls -> Kinds]
  /\ ppc = [c \in Calls |-> "prepare"]
  /\ ans = [c \in Calls |-> [ver |-> 0, head |-> CHOOSE a \in Answers : TRUE]]
  /\ length = [c \in Calls |-> Unknown]
  /\ declared = [c \in Calls |-> {}]
  /\ wire = [c \in Calls |-> None]
  /\ content = [c \in Calls |-> None]
  /\ decoded = [c \in Calls |-> FALSE]
  /\ limited = [c \in Calls |-> FALSE]
  /\ advertised = [c \in Calls |-> 0]
  /\ decodedBy = [c \in Calls |-> 0]
  /\ outcome = [c \in Calls |-> None]
  /\ served = [c \in Calls |-> {}]
  /\ floor = [c \in Calls |-> 0]
  /\ store = [k \in {} |-> None]
  /\ dictionary = 0
  /\ version = [u \in Resources |-> 0]
  /\ purged = [u \in Resources |-> 0]

Set(f, c, v) == [f EXCEPT ![c] = v]

-----------------------------------------------------------------------------
(* Faulty variants of single steps, which the properties must tell apart    *)
(* from the code.                                                           *)
KeepLength(c) == length[c]
NoVary(q, e) == TRUE

-----------------------------------------------------------------------------
(* The cache key. *)

(* ParseNoVarySearchHeader returns at a bare "params", so it never reads an *)
(* except list next to one.                                                 *)
ParseNoVarySearchHeader(header) ==
  IF header.all
    THEN [all |-> TRUE, ignore |-> {}, except |-> {}]
    ELSE [all |-> FALSE, ignore |-> header.params, except |-> header.except]

(* resolveEffectiveNoVarySearch *)
EffectiveNoVarySearch(a) ==
  IF ~a.nvs.given
    THEN CacheRules
    ELSE LET parsed == ParseNoVarySearchHeader(a.nvs) IN
         [parsed EXCEPT !.ignore = @ \cup CacheRules.ignore]

(* resolveEffectiveCookieIndices *)
EffectiveCookieIndices(a) == a.indices \cup CookieIndices

LookupKey(q) ==
  <<NormalizeCacheURL(q.query, CacheRules), ComputeCookieIndicesHash(q, CookieIndices)>>

StorageKey(q, a) ==
  <<NormalizeCacheURL(q.query, EffectiveNoVarySearch(a)),
    ComputeCookieIndicesHash(q, EffectiveCookieIndices(a))>>

(* invalidateCache names no cookie. *)
PurgeKey(q) == <<NormalizeCacheURL(q.query, CacheRules), {}>>

(* matchVaryHeaders *)
MatchVaryHeaders(q, e) == e.vary = None \/ e.vary = q.lang

Without(f, k) == [x \in DOMAIN f \ {k} |-> f[x]]
With(f, k, e) == [x \in DOMAIN f \cup {k} |-> IF x = k THEN e ELSE f[x]]

-----------------------------------------------------------------------------
(* initTx and Prepare: a dictionary that matches is advertised. *)
Prepare(c) ==
  /\ ppc[c] = "prepare"
  /\ Cardinality({d \in Calls : ppc[d] \notin {"prepare", "done"}}) < MaxRunning
  /\ advertised' = Set(advertised, c, dictionary)
  /\ floor' = Set(floor, c, purged[Resource(req[c])])
  /\ ppc' = Set(ppc, c, IF "cache" \in req[c].flags THEN "lookup" ELSE "dispatch")
  /\ UNCHANGED <<req, ans, length, declared, wire, content, decoded, limited, decodedBy,
                 outcome, served, store, dictionary, version, purged>>

(* The store's Get: neither missing nor expired. *)
Live(k) == k \in DOMAIN store

Hits(q) ==
  /\ q.method = "GET"
  /\ ~q.noCache
  /\ Live(LookupKey(q))
  /\ MatchVaryHeaders(q, store[LookupKey(q)])

(* GetCache: a hit is returned without any of the post-processing. *)
GetCache(c) ==
  /\ ppc[c] = "lookup"
  /\ IF Hits(req[c])
       THEN /\ served' = Set(served, c, {store[LookupKey(req[c])]})
            /\ outcome' = Set(outcome, c, "response")
            /\ ppc' = Set(ppc, c, "done")
       ELSE /\ ppc' = Set(ppc, c, "dispatch")
            /\ UNCHANGED <<served, outcome>>
  /\ UNCHANGED <<req, ans, length, declared, wire, content, decoded, limited, advertised,
                 decodedBy, floor, store, dictionary, version, purged>>

(* The origin: an unsafe method that succeeds makes a new version, and an   *)
(* answer is coded with a dictionary only for a request that names one.     *)
Sends(c, a) ==
  /\ a.coding = "dcz" => advertised[c] # 0
  /\ req[c].method # "GET" => ~a.nvs.given /\ ~a.asDict

(* DispatchRequest returns a response. *)
DispatchAnswers(c, a) ==
  LET u == Resource(req[c])
      v == IF req[c].method \in Unsafe /\ a.status < 400 THEN version[u] + 1 ELSE version[u]
  IN
  /\ ppc[c] = "dispatch"
  /\ Sends(c, a)
  /\ version' = [version EXCEPT ![u] = v]
  /\ ans' = Set(ans, c, [ver |-> v, head |-> a])
  /\ declared' = Set(declared, c, a.lengths)
  /\ length' = Set(length, c, IF a.chunked \/ a.lengths = {} THEN Unknown
                                ELSE CHOOSE n \in a.lengths : TRUE)
  /\ wire' = Set(wire, c, "open")
  /\ content' = Set(content, c, "stream")
  /\ ppc' = Set(ppc, c, "guard")
  /\ UNCHANGED <<req, decoded, limited, advertised, decodedBy, outcome, served, floor, store,
                 dictionary, purged>>

(* PostProcess with an error: enrichError. *)
DispatchFails(c) ==
  /\ ppc[c] = "dispatch"
  /\ outcome' = Set(outcome, c, "error")
  /\ ppc' = Set(ppc, c, "done")
  /\ UNCHANGED <<req, ans, length, declared, wire, content, decoded, limited, advertised,
                 decodedBy, served, floor, store, dictionary, version, purged>>

-----------------------------------------------------------------------------
(* The post-processing stages, in the order of PostProcess. *)

(* validateResponseSmugglingGuards: conflicting Content-Length or Location  *)
(* values and control characters are refused.                               *)
Smuggled(a) ==
  Cardinality(a.lengths) > 1 \/ Cardinality(a.locations) > 1 \/ a.controlChars

(* resp.Body.Close() before an error is returned. *)
Closed(c) == Set(wire, c, "closed")

(* A stage refuses the response. *)
Reject(c) ==
  /\ wire' = Closed(c)
  /\ outcome' = Set(outcome, c, "error")
  /\ ppc' = Set(ppc, c, "done")

Guarded(c) == "validate" \in req[c].flags

(* validateTransferEncodingAndContentLength leaves a chunked answer without *)
(* a declared length.                                                       *)
StrippedLengths(c) ==
  IF Guarded(c) /\ ans[c].head.chunked THEN {} ELSE declared[c]

(* The dictionary applyContentDecompression decodes with: the one of the    *)
(* request's configuration, or what the store matches by now.               *)
DecodingDictionary(c) ==
  IF req[c].config /\ advertised[c] # 0 THEN advertised[c] ELSE dictionary

(* applyContentDecompression finds a reader for the coding. *)
Decodes(c) ==
  /\ "decompress" \in req[c].flags
  /\ ~req[c].acceptsCoding
  /\ \/ ans[c].head.coding = "gzip"
     \/ ans[c].head.coding = "dcz" /\ DecodingDictionary(c) # 0

(* resetDecompressedHeader *)
ResetLength(c) == Unknown

(* stageValidateSmuggling, then stageDecompressAndTranscode.  Transcoding   *)
(* to UTF-8 (applyCharsetTranscoding) makes the body larger, by a.grows,    *)
(* and leaves the declared length as it is, for a coded body too.           *)
GuardAndDecode(c) ==
  /\ ppc[c] = "guard"
  /\ IF Guarded(c) /\ Smuggled(ans[c].head)
       THEN /\ Reject(c)
            /\ UNCHANGED <<length, declared, decoded, decodedBy>>
       ELSE /\ decoded' = Set(decoded, c, Decodes(c))
            /\ decodedBy' = Set(decodedBy, c,
                 IF Decodes(c) /\ ans[c].head.coding = "dcz" THEN DecodingDictionary(c) ELSE 0)
            /\ length' = Set(length, c, IF Decodes(c) THEN ResetLength(c) ELSE length[c])
            /\ declared' = Set(declared, c, IF Decodes(c) THEN {} ELSE StrippedLengths(c))
            /\ ppc' = Set(ppc, c, "capture")
            /\ UNCHANGED <<wire, outcome>>
  /\ UNCHANGED <<req, ans, content, limited, advertised, served, floor, store, dictionary,
                 version, purged>>

Decompressed(c) == IF decoded[c] THEN ans[c].head.size ELSE ans[c].head.coded
BodySize(c) == Decompressed(c) + ans[c].head.grows

(* stageDictionaryCapture: the body is read up to the dictionary limit and  *)
(* closed; a read error leaves an empty body, a longer one its beginning.   *)
DictionaryCapture(c) ==
  LET a == ans[c].head IN
  /\ ppc[c] = "capture"
  /\ ppc' = Set(ppc, c, "store")
  /\ IF a.asDict /\ a.status = 200
       THEN /\ wire' = Closed(c)
            /\ content' = Set(content, c, CASE a.readFails -> "empty"
                                            [] ~a.readFails /\ BodySize(c) > MaxDictionary -> "cut"
                                            [] OTHER -> "copy")
            /\ dictionary' = IF a.readFails THEN dictionary ELSE dictionary + 1
       ELSE UNCHANGED <<wire, content, dictionary>>
  /\ UNCHANGED <<req, ans, length, declared, decoded, limited, advertised, decodedBy, outcome,
                 served, floor, store, version, purged>>

Storable(a) == a.status = 200 /\ a.store /\ a.vary # "*"

Entry(c) ==
  [ver |-> ans[c].ver, req |-> req[c], head |-> ans[c].head,
   vary |-> IF ans[c].head.vary = "lang" THEN req[c].lang ELSE None,
   late |-> ans[c].ver < version[Resource(req[c])]]

(* invalidateCache overwrites the entry with one that never decodes. *)
Purge(q) == Without(store, PurgeKey(q))

(* saveToCache returns at a read error, with the body partly consumed and   *)
(* still open; else it is read and replaced by a copy.                      *)
SaveToCache(c) ==
  LET a == ans[c].head IN
  IF ~Storable(a)
    THEN UNCHANGED <<wire, content, store>>
    ELSE IF content[c] = "stream" /\ a.readFails
           THEN /\ content' = Set(content, c, "rest")
                /\ UNCHANGED <<wire, store>>
           ELSE /\ wire' = Closed(c)
                /\ content' = Set(content, c, IF content[c] = "stream" THEN "copy" ELSE content[c])
                /\ store' = With(store, StorageKey(req[c], a), Entry(c))

(* invalidateCache is reached with a method and a status that purge. *)
Purges(c) ==
  "cache" \in req[c].flags /\ req[c].method \in Unsafe /\ ans[c].head.status < 400

(* stageCacheStorage *)
CacheStorage(c) ==
  /\ ppc[c] = "store"
  /\ ppc' = Set(ppc, c, "limit")
  /\ IF "cache" \in req[c].flags /\ req[c].method = "GET"
       THEN SaveToCache(c)
       ELSE /\ store' = IF Purges(c) THEN Purge(req[c]) ELSE store
            /\ UNCHANGED <<wire, content>>
  /\ UNCHANGED <<req, ans, length, declared, decoded, limited, advertised, decodedBy, outcome,
                 served, floor, dictionary, version, purged>>

(* limitResponseSize trusts resp.ContentLength, then the header. *)
KnownLength(c) ==
  IF length[c] > 0 THEN length[c]
  ELSE IF declared[c] # {} THEN CHOOSE n \in declared[c] : TRUE
  ELSE length[c]

TooLarge(c) == SizeLimit > 0 /\ KnownLength(c) > SizeLimit

(* validateResponse: a validator, a soft error detector or the peek at the  *)
(* body refuses the response.                                               *)
Refused(c, peekFails) ==
  /\ Guarded(c)
  /\ ~ans[c].head.valid \/ peekFails

(* applyMultiReadBuffering is asked to buffer the body. *)
Buffers(c) == "multiread" \in req[c].flags

(* stageSizeLimit, stageValidateResponse and stageMultiReadBuffering: what  *)
(* the caller gets.  Only the body of a stream can fail to be read.         *)
Finish(c, peekFails, bufferFails) ==
  /\ ppc[c] = "limit"
  /\ peekFails \/ bufferFails => ans[c].head.readFails /\ content[c] \in {"stream", "rest"}
  /\ bufferFails => Buffers(c)
  /\ IF TooLarge(c) \/ Refused(c, peekFails) \/ bufferFails
       THEN Reject(c) /\ UNCHANGED limited
       ELSE /\ limited' = Set(limited, c, SizeLimit > 0 /\ KnownLength(c) <= 0)
            /\ outcome' = Set(outcome, c, "response")
            /\ ppc' = Set(ppc, c, "done")
            /\ UNCHANGED wire
  /\ LET u == Resource(req[c]) IN
     purged' = IF Purges(c) /\ ans[c].ver > purged[u]
                 THEN [purged EXCEPT ![u] = ans[c].ver] ELSE purged
  /\ UNCHANGED <<req, ans, length, declared, content, decoded, advertised, decodedBy, served,
                 floor, store, dictionary, version>>

(* The time to live of an entry is over: Get misses it, the janitor removes *)
(* it.                                                                      *)
Expire(k) ==
  /\ k \in DOMAIN store
  /\ store' = Without(store, k)
  /\ UNCHANGED <<req, ppc, ans, length, declared, wire, content, decoded, limited, advertised,
                 decodedBy, outcome, served, floor, dictionary, version, purged>>

PipeStep(c) ==
  \/ Prepare(c) \/ GetCache(c) \/ DispatchFails(c)
  \/ \E a \in Answers : DispatchAnswers(c, a)
  \/ GuardAndDecode(c) \/ DictionaryCapture(c) \/ CacheStorage(c)
  \/ \E peekFails, bufferFails \in BOOLEAN : Finish(c, peekFails, bufferFails)

PipeNext ==
  \/ \E c \in Calls : PipeStep(c)
  \/ \E k \in DOMAIN store : Expire(k)

PipeDone == \A c \in Calls : ppc[c] = "done"

PipeSpec == PipeInit /\ [][PipeNext]_pipeVars

-----------------------------------------------------------------------------
(* Whichever stage ends a call, an error leaves no body open, and a         *)
(* response carries its whole body: the stream nobody has read from, or a   *)
(* complete copy with the connection released.  The exceptions are a body   *)
(* that fails while the pipeline reads it and a dictionary longer than the  *)
(* dictionary limit.                                                        *)
BodiesSettled ==
  \A c \in Calls :
    ppc[c] = "done" /\ wire[c] # None =>
      \/ outcome[c] = "error" /\ wire[c] = "closed"
      \/ outcome[c] = "response" /\ wire[c] = "open" /\ content[c] = "stream"
      \/ outcome[c] = "response" /\ wire[c] = "closed" /\ content[c] = "copy"
      \/ outcome[c] = "response" /\ ans[c].head.readFails
      \/ outcome[c] = "response" /\ content[c] = "cut" /\ BodySize(c) > MaxDictionary

(* A hit was stored for a request this one may share an answer with: equal  *)
(* in the header Vary names, in the cookies the client's indices name and   *)
(* in every query parameter that neither the client's rules nor the stored  *)
(* answer's let a cache ignore.                                             *)
HitsShareAnswers ==
  \A c \in Calls : \A e \in served[c] :
      LET q == req[c]
          Compared(query) == NormalizeCacheURL(NormalizeCacheURL(query, CacheRules),
                                               EffectiveNoVarySearch(e.head))
      IN /\ e.head.vary = "lang" => e.req.lang = q.lang
         /\ ComputeCookieIndicesHash(e.req, CookieIndices) = ComputeCookieIndicesHash(q, CookieIndices)
         /\ Compared(e.req.query) = Compared(q.query)

(* invalidateCache "purges stored GET responses upon successful execution   *)
(* of unsafe HTTP methods": a GET that begins after an unsafe call has      *)
(* returned is not answered with what the origin held before it, unless a   *)
(* GET in flight at the time put that back.  The purge names no cookie, so  *)
(* this is about requests without a cookie the client's indices name.       *)
NoHitBeforeUnsafe ==
  \A c \in Calls : \A e \in served[c] :
    /\ Resource(e.req) = Resource(req[c])
    /\ ComputeCookieIndicesHash(req[c], CookieIndices) = {}
    => e.ver >= floor[c] \/ e.late

(* With a size limit no response of the network holds more than it: not by  *)
(* its declared length and not by what decompression makes of it.  This is  *)
(* the body before it is transcoded to UTF-8: what that adds is not counted *)
(* when the length was declared, for the limit then trusts it.              *)
SizeIsLimited ==
  \A c \in Calls :
    /\ SizeLimit > 0
    /\ outcome[c] = "response"
    /\ wire[c] # None
    => Decompressed(c) <= SizeLimit \/ limited[c]

(* A body is decoded with the dictionary its request advertised, although   *)
(* another call may have captured a newer one in the meantime; only without *)
(* a request configuration does the pipeline ask the store again.           *)
DecodedAsAdvertised ==
  \A c \in Calls :
    decodedBy[c] # 0 /\ req[c].config => decodedBy[c] = advertised[c]

-----------------------------------------------------------------------------
(* "The maximum permissible response body size in bytes ... bounding body   *)
(* reads" (config.go:861): of the body the caller reads.                    *)
ReadsAreLimited ==
  \A c \in Calls :
    SizeLimit > 0 /\ outcome[c] = "response" /\ wire[c] # None => BodySize(c) <= SizeLimit \/ limited[c]
=============================================================================
