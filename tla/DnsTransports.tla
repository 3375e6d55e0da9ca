---------------------------- MODULE DnsTransports ----------------------------
(***************************************************************************)
(* The resolvers that speak to a server (dns/dot.go, doq.go, doh.go) and   *)
(* those that combine them (dns/dns.go).  A lookup asks for the A and the  *)
(* AAAA records: concurrently over DoQ, where all lookups share one QUIC   *)
(* connection, and over DoH; one after the other over the connection a DoT *)
(* lookup dials for itself.                                                *)
(*                                                                         *)
(* A query is named <<lookup, family>>, an answer by the query it is for.  *)
(***************************************************************************)
EXTENDS Naturals, Sequences, SequencesExt, FiniteSets

CONSTANTS
  Plans,      \* the transports of the lookups, and how they are combined
  MaxConns,   \* bound on the QUIC connections
  MaxStrays   \* bound on the answers a DoT server repeats

ASSUME DnsTransportsAssumption == MaxConns \in Nat /\ MaxStrays \in Nat

Families == {4, 6}

VARIABLES
  plan,      \* by: the transport of each lookup; how: "each", "fallback" or "race"
  query,     \* where each query is
  via,       \* the QUIC connection a query uses, 0 for none
  current,   \* DoQResolver.conn, 0 for nil
  quic,      \* every QUIC connection: "live" or "dead"
  dialling,  \* the query that dials under r.mu, <<>> for none
  tls,       \* the DoT connection of each lookup: "none", "open", "closed"
  pipe,      \* answers in flight on it
  strays,    \* answers repeated
  taken,     \* the answer each query took
  gone,      \* lookups whose context is done
  final      \* what the combining resolver returned

transportVars == <<plan, query, via, current, quic, dialling, tls, pipe, strays, taken, gone, final>>
doqVars == <<via, current, quic, dialling>>
dotVars == <<tls, pipe, strays>>

Asked == DOMAIN plan.by
Queries == Asked \X Families
Settled == {"ok", "err"}
NoQuery == <<0, 0>>

TransportInit ==
  /\ plan \in Plans
  /\ query = [q \in Queries |-> "idle"]
  /\ via = [q \in Queries |-> 0]
  /\ current = 0 /\ quic = <<>> /\ dialling = NoQuery
  /\ tls = [l \in Asked |-> "none"] /\ pipe = [l \in Asked |-> <<>>] /\ strays = 0
  /\ taken = [q \in Queries |-> NoQuery]
  /\ gone = {} /\ final = "none"

-----------------------------------------------------------------------------
(* Faulty variants of single steps, which the properties must tell apart    *)
(* from the code.                                                           *)
TakeAny(q, answer) == TRUE

-----------------------------------------------------------------------------
Becomes(q, pc) == query' = [query EXCEPT ![q] = pc]
Unasked(l) == \A f \in Families : query[<<l, f>>] = "idle"
LookupDone(l) == \A f \in Families : query[<<l, f>>] \in Settled

(* LookupDNSRecords: the records of both families, or the first error if    *)
(* both queries failed.                                                     *)
BothFailed(l) == \A f \in Families : query[<<l, f>>] = "err"

(* FallbackResolver asks the next resolver after a failure; FastRaceResolver *)
(* asks all at once.                                                         *)
MayAsk(l) ==
  /\ final = "none" /\ Unasked(l)
  /\ plan.how = "fallback" => \A k \in 1..(l - 1) : LookupDone(k) /\ BothFailed(k)

StartLookup(l) ==
  /\ MayAsk(l)
  /\ query' = [q \in Queries |->
       IF q[1] # l THEN query[q]
       ELSE CASE plan.by[l] = "doq" -> "connect"
              [] plan.by[l] = "doh" -> "wait"
              [] OTHER -> IF q[2] = 4 THEN "dial" ELSE "next"]
  /\ UNCHANGED <<plan, doqVars, dotVars, taken, gone, final>>

-----------------------------------------------------------------------------
(* DoH: a request of its own for every query. *)
HttpAnswer(q, ok) ==
  /\ plan.by[q[1]] = "doh" /\ query[q] = "wait"
  /\ Becomes(q, IF ok THEN "ok" ELSE "err")
  /\ taken' = IF ok THEN [taken EXCEPT ![q] = q] ELSE taken
  /\ UNCHANGED <<plan, doqVars, dotVars, gone, final>>

-----------------------------------------------------------------------------
(* DoQ.  getOrCreateConn holds r.mu while it dials. *)
UseConn(q) ==
  /\ query[q] = "connect" /\ dialling = NoQuery
  /\ IF current # 0 /\ quic[current] = "live"
       THEN Becomes(q, "open") /\ via' = [via EXCEPT ![q] = current] /\ UNCHANGED dialling
       ELSE Becomes(q, "dialling") /\ dialling' = q /\ UNCHANGED via
  /\ UNCHANGED <<plan, current, quic, dotVars, taken, gone, final>>

DialQuic(q, ok) ==
  /\ query[q] = "dialling"
  /\ ok => Len(quic) < MaxConns /\ q[1] \notin gone
  /\ dialling' = NoQuery
  /\ IF ok
       THEN /\ quic' = Append(quic, "live") /\ current' = Len(quic) + 1
            /\ via' = [via EXCEPT ![q] = Len(quic) + 1] /\ Becomes(q, "open")
       ELSE Becomes(q, "err") /\ UNCHANGED <<quic, current, via>>
  /\ UNCHANGED <<plan, dotVars, taken, gone, final>>

QuicClosed(c) == IF c = 0 THEN quic ELSE [quic EXCEPT ![c] = "dead"]

(* The connection closeConn leaves behind. *)
AfterClose == QuicClosed(current)

(* OpenStreamSync: a failure, which the end of the caller's own context is  *)
(* too, closes whatever connection is current by now.                       *)
OpenStream(q, ok) ==
  /\ query[q] = "open" /\ dialling = NoQuery
  /\ ok => q[1] \notin gone /\ quic[via[q]] = "live"
  /\ ~ok => q[1] \in gone \/ quic[via[q]] = "dead"
  /\ IF ok
       THEN Becomes(q, "wait") /\ UNCHANGED <<quic, current>>
       ELSE Becomes(q, "err") /\ quic' = AfterClose /\ current' = 0
  /\ UNCHANGED <<plan, via, dialling, dotVars, taken, gone, final>>

(* sendDoQQuery and readDoQResponse: neither looks at the context. *)
QuicAnswer(q, ok) ==
  /\ plan.by[q[1]] = "doq" /\ query[q] = "wait"
  /\ ok => quic[via[q]] = "live"
  /\ Becomes(q, IF ok THEN "ok" ELSE "err")
  /\ taken' = IF ok THEN [taken EXCEPT ![q] = q] ELSE taken
  /\ UNCHANGED <<plan, doqVars, dotVars, gone, final>>

ConnLost(c) ==
  /\ quic[c] = "live"
  /\ quic' = QuicClosed(c)
  /\ UNCHANGED <<plan, query, via, current, dialling, dotVars, taken, gone, final>>

-----------------------------------------------------------------------------
(* DoT.  A handshake that fails fails both queries. *)
DialTLS(l, ok) ==
  /\ query[<<l, 4>>] = "dial"
  /\ tls' = [tls EXCEPT ![l] = IF ok THEN "open" ELSE "none"]
  /\ query' = IF ok THEN [query EXCEPT ![<<l, 4>>] = "wait"]
                    ELSE [query EXCEPT ![<<l, 4>>] = "err", ![<<l, 6>>] = "err"]
  /\ UNCHANGED <<plan, doqVars, pipe, strays, taken, gone, final>>

(* The server answers the question, or an earlier one once more. *)
ServerAnswers(l, f) ==
  /\ tls[l] = "open" /\ Len(pipe[l]) < 2
  /\ \/ query[<<l, f>>] = "wait" /\ UNCHANGED strays
     \/ query[<<l, f>>] \in Settled /\ strays < MaxStrays /\ strays' = strays + 1
  /\ pipe' = [pipe EXCEPT ![l] = Append(@, <<l, f>>)]
  /\ UNCHANGED <<plan, query, doqVars, tls, taken, gone, final>>

(* The identifiers must match. *)
Matches(q, answer) == answer = q

(* After the A query, whatever came of it, the AAAA query goes out on the   *)
(* same connection; after that the connection is closed.                    *)
EndWire(q, ok) ==
  /\ query' = IF q[2] = 4 THEN [query EXCEPT ![q] = IF ok THEN "ok" ELSE "err", ![<<q[1], 6>>] = "wait"]
                          ELSE [query EXCEPT ![q] = IF ok THEN "ok" ELSE "err"]
  /\ tls' = IF q[2] = 4 THEN tls ELSE [tls EXCEPT ![q[1]] = "closed"]

ExchangeWire(q) ==
  /\ plan.by[q[1]] = "dot" /\ query[q] = "wait" /\ pipe[q[1]] # <<>>
  /\ LET answer == Head(pipe[q[1]])
         ok == Matches(q, answer)
     IN EndWire(q, ok) /\ taken' = IF ok THEN [taken EXCEPT ![q] = answer] ELSE taken
  /\ pipe' = [pipe EXCEPT ![q[1]] = Tail(@)]
  /\ UNCHANGED <<plan, doqVars, strays, gone, final>>

(* SetDeadline covers both exchanges. *)
Timed(l) == tls[l] = "open"

ExchangeTimesOut(q) ==
  /\ plan.by[q[1]] = "dot" /\ query[q] = "wait" /\ Timed(q[1])
  /\ EndWire(q, FALSE)
  /\ UNCHANGED <<plan, doqVars, pipe, strays, taken, gone, final>>

-----------------------------------------------------------------------------
(* The context of a lookup ends; over DoT and DoH that is one more failure. *)
CallerLeaves(l) ==
  /\ plan.by[l] = "doq" /\ l \notin gone /\ ~LookupDone(l)
  /\ gone' = gone \cup {l}
  /\ UNCHANGED <<plan, query, doqVars, dotVars, taken, final>>

(* FallbackResolver and FastRaceResolver return the first success, or the   *)
(* failure of all.                                                          *)
Combine ==
  /\ final = "none" /\ plan.how # "each"
  /\ \/ (\E l \in Asked : LookupDone(l) /\ ~BothFailed(l)) /\ final' = "ok"
     \/ (\A l \in Asked : LookupDone(l) /\ BothFailed(l)) /\ final' = "error"
  /\ UNCHANGED <<plan, query, doqVars, dotVars, taken, gone>>

DotStep(l) ==
  \/ \E ok \in BOOLEAN : DialTLS(l, ok)
  \/ \E f \in Families : ExchangeWire(<<l, f>>) \/ ExchangeTimesOut(<<l, f>>)

TransportNext ==
  \/ \E l \in Asked : StartLookup(l) \/ DotStep(l) \/ CallerLeaves(l) \/ \E f \in Families : ServerAnswers(l, f)
  \/ \E q \in Queries : UseConn(q)
  \/ \E q \in Queries, ok \in BOOLEAN : DialQuic(q, ok) \/ OpenStream(q, ok) \/ QuicAnswer(q, ok) \/ HttpAnswer(q, ok)
  \/ \E c \in DOMAIN quic : ConnLost(c)
  \/ Combine

(* DoT lookups run on and their deadline passes; nothing is assumed of a    *)
(* server.                                                                  *)
TransportFairness == \A l \in 1..2 : WF_transportVars(l \in Asked /\ DotStep(l))

TransportSpec == TransportInit /\ [][TransportNext]_transportVars /\ TransportFairness

-----------------------------------------------------------------------------
(* A query takes no answer but its own, though both queries of a DoT lookup *)
(* read one connection, on which the server may repeat itself, and the      *)
(* second goes out after a first that failed; and the combining resolvers   *)
(* fail only when every resolver failed for both families, and serve only   *)
(* what one of them answered.                                               *)
AnswersBelong ==
  /\ \A q \in Queries : query[q] = "ok" => taken[q] = q
  /\ final = "error" => \A q \in Queries : query[q] = "err"
  /\ final = "ok" => \E q \in Queries : query[q] = "ok"

(* Lookups that come and go, fail and lose connections never leave a QUIC   *)
(* connection behind: only the current one is ever alive.                   *)
OneQuicConn == \A c \in DOMAIN quic : quic[c] = "live" => c = current

(* A DoT lookup is under way. *)
Resolving == \E l \in Asked : query[<<l, 4>>] = "dial" \/ (tls[l] # "none" /\ ~LookupDone(l))

-----------------------------------------------------------------------------
(* "eliminating head-of-line blocking" (dns/doq.go:39): a lookup over DoQ   *)
(* is not failed by another caller who gives up.                            *)
LookupsIndependent ==
  [][\A q \in Queries, ok \in BOOLEAN :
       OpenStream(q, ok) /\ ~ok /\ q[1] \in gone =>
         \A p \in Queries : query[p] = "wait" /\ via[p] # 0 => quic'[via[p]] = quic[via[p]]]_transportVars
=============================================================================
