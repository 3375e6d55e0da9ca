---------------------------- MODULE Network_proofs ----------------------------
(***************************************************************************)
(* Proofs about what makes a connection, for any number of lookups,        *)
(* requests, addresses and answers, and each of them together with the     *)
(* others as in MCSpec: DnsTransports, Dialer, H3Engine, WsDial and WsH2;  *)
(* and about ConnPool, which keeps them, for any number of requests,       *)
(* origins and calls of CloseIdleConnections, in every configuration of    *)
(* its toggles.                                                            *)
(***************************************************************************)
EXTENDS MCNetwork, FiniteSetTheorems, TLAPS

(* Lookups. *)

QuicStates == {"live", "dead"}

(* Where a query can be depends on its transport, and the AAAA query of a   *)
(* DoT lookup waits for the A query.                                        *)
QueryOrder ==
  /\ \A q \in Queries : query[q] \in {"connect", "open", "dialling"} => plan.by[q[1]] = "doq"
  /\ \A l \in Asked :
       \/ query[<<l, 4>>] = "dial"
       \/ query[<<l, 4>>] = "wait" /\ plan.by[l] = "dot"
       => query[<<l, 6>>] = "next"

(* Nobody has a live connection while one is dialled. *)
QuicKept ==
  /\ quic \in Seq(QuicStates) /\ current \in 0 .. Len(quic)
  /\ \A q \in Queries : query[q] = "dialling" => dialling = q /\ (current # 0 => quic[current] # "live")
  /\ OneQuicConn

LookupInv ==
  /\ DOMAIN query = Queries /\ DOMAIN taken = Queries
  /\ QueryOrder /\ QuicKept /\ AnswersBelong

(* A step moves only queries that are not settled, and answers with their   *)
(* own answer those that succeed.                                           *)
Proceeds ==
  /\ plan' = plan /\ DOMAIN query' = Queries /\ DOMAIN taken' = Queries
  /\ \A q \in Queries : query[q] \in Settled => query'[q] = query[q] /\ taken'[q] = taken[q]
  /\ \A q \in Queries : query'[q] = "ok" /\ query[q] # "ok" => taken'[q] = q

(* The two queries of a lookup. *)
LEMMA QueryNames == \A l \in Asked : <<l, 4>> \in Queries /\ <<l, 6>> \in Queries
  BY DEF Queries, Families

(* What has been answered or returned stays as it is. *)
LEMMA AnswersStay ==
  ASSUME LookupInv, Proceeds, final' = final
  PROVE  AnswersBelong'
  <1>1. Queries' = Queries /\ Asked' = Asked
    BY DEF Proceeds, Queries, Asked
  <1>2. \A q \in Queries : query'[q] = "ok" => taken'[q] = q
    BY DEF LookupInv, AnswersBelong, Proceeds, Settled
  <1>3. final = "error" => \A q \in Queries : query'[q] = "err"
    BY DEF LookupInv, AnswersBelong, Proceeds, Settled
  <1>4. final = "ok" => \E q \in Queries : query'[q] = "ok"
    BY DEF LookupInv, AnswersBelong, Proceeds, Settled
  <1> QED
    BY <1>1, <1>2, <1>3, <1>4 DEF AnswersBelong

(* StartLookup overwrites no query that was asked before. *)
LEMMA StartLookupInv == ASSUME LookupInv, NEW l \in Asked, StartLookup(l) PROVE LookupInv'
  <1> DEFINE to(q) == CASE plan.by[l] = "doq" -> "connect"
                        [] plan.by[l] = "doh" -> "wait"
                        [] OTHER -> IF q[2] = 4 THEN "dial" ELSE "next"
  <1>1. /\ MayAsk(l) /\ query' = [q \in Queries |-> IF q[1] # l THEN query[q] ELSE to(q)]
        /\ UNCHANGED <<plan, via, current, quic, dialling, taken, final>>
    BY DEF StartLookup, doqVars
  <1>2. Queries' = Queries /\ Asked' = Asked
    BY <1>1 DEF Queries, Asked
  <1>3. \A q \in Queries : q[1] = l => query[q] = "idle"
    BY <1>1 DEF MayAsk, Unasked, Queries
  <1>4. Proceeds
    BY <1>1, <1>3 DEF Proceeds, LookupInv, Settled
  <1>5. QueryOrder'
    <2>1. ASSUME NEW q \in Queries, query'[q] \in {"connect", "open", "dialling"} PROVE plan.by[q[1]] = "doq"
      BY <1>1, <2>1 DEF LookupInv, QueryOrder
    <2>2. ASSUME NEW k \in Asked, query'[<<k, 4>>] = "dial" \/ (query'[<<k, 4>>] = "wait" /\ plan.by[k] = "dot")
          PROVE  query'[<<k, 6>>] = "next"
      BY <1>1, <2>2, QueryNames DEF LookupInv, QueryOrder
    <2> QED
      BY <1>1, <1>2, <2>1, <2>2 DEF QueryOrder
  <1>6. QuicKept'
    BY <1>1, <1>2 DEF LookupInv, QuicKept, OneQuicConn
  <1> QED
    BY <1>1, <1>2, <1>4, <1>5, <1>6, AnswersStay DEF LookupInv, Proceeds

(* A single query moves on to pc, with its own answer if it succeeds. *)
LEMMA QueryMoves ==
  ASSUME LookupInv, NEW q \in Queries, NEW pc, query[q] \notin Settled, query' = [query EXCEPT ![q] = pc],
         plan' = plan, taken' = (IF pc = "ok" THEN [taken EXCEPT ![q] = q] ELSE taken), final' = final
  PROVE  Proceeds /\ AnswersBelong'
  <1>1. Proceeds
    BY DEF Proceeds, LookupInv
  <1> QED
    BY <1>1, AnswersStay

(* A DoH request answers its own query. *)
LEMMA HttpAnswerInv ==
  ASSUME LookupInv, NEW q \in Queries, NEW ok \in BOOLEAN, HttpAnswer(q, ok) PROVE LookupInv'
  <1>1. /\ plan.by[q[1]] = "doh" /\ query[q] = "wait"
        /\ query' = [query EXCEPT ![q] = IF ok THEN "ok" ELSE "err"]
        /\ taken' = (IF ok THEN [taken EXCEPT ![q] = q] ELSE taken)
        /\ UNCHANGED <<plan, via, current, quic, dialling, final>>
    BY DEF HttpAnswer, Becomes, doqVars
  <1>2. Queries' = Queries /\ Asked' = Asked
    BY <1>1 DEF Queries, Asked
  <1>3. Proceeds /\ AnswersBelong'
    <2> DEFINE pc == IF ok THEN "ok" ELSE "err"
    <2>1. taken' = (IF pc = "ok" THEN [taken EXCEPT ![q] = q] ELSE taken)
      BY <1>1
    <2> QED
      BY <1>1, <2>1, QueryMoves DEF Settled
  <1>4. \A k \in Queries : query'[k] = query[k] \/ (k = q /\ query'[k] \in Settled)
    BY <1>1 DEF LookupInv, Settled
  <1>5. QueryOrder'
    <2>1. ASSUME NEW k \in Asked, query'[<<k, 4>>] = "dial" \/ (query'[<<k, 4>>] = "wait" /\ plan.by[k] = "dot")
          PROVE  query'[<<k, 6>>] = "next"
      BY <1>1, <1>4, <2>1, QueryNames DEF LookupInv, QueryOrder, Settled
    <2> QED
      BY <1>1, <1>2, <1>4, <2>1 DEF QueryOrder, LookupInv, Settled
  <1>6. QuicKept'
    BY <1>1, <1>2, <1>4 DEF LookupInv, QuicKept, OneQuicConn, Settled
  <1> QED
    BY <1>2, <1>3, <1>5, <1>6 DEF LookupInv, Proceeds

(* Steps of a query over DoQ keep the order of the others. *)
LEMMA DoqOrder ==
  ASSUME LookupInv, NEW q \in Queries, NEW pc, query' = [query EXCEPT ![q] = pc], plan' = plan,
         plan.by[q[1]] = "doq", query[q] \notin {"next"}, pc # "dial"
  PROVE  QueryOrder'
  <1>1. Queries' = Queries /\ Asked' = Asked /\ \A k \in Queries : query'[k] = IF k = q THEN pc ELSE query[k]
    BY DEF Queries, Asked, LookupInv
  <1>2. ASSUME NEW k \in Asked, query'[<<k, 4>>] = "dial" \/ (query'[<<k, 4>>] = "wait" /\ plan.by[k] = "dot")
        PROVE  query'[<<k, 6>>] = "next"
    <2>1. <<k, 4>> \in Queries /\ <<k, 6>> \in Queries
      BY QueryNames
    <2>2. <<k, 4>> # q
      BY <1>1, <1>2, <2>1
    <2>3. query[<<k, 6>>] = "next"
      BY <1>1, <1>2, <2>1, <2>2 DEF LookupInv, QueryOrder
    <2> QED
      BY <1>1, <2>1, <2>3
  <1> QED
    BY <1>1, <1>2 DEF QueryOrder, LookupInv

(* A query over DoQ takes the live connection or dials while there is none. *)
LEMMA UseConnInv == ASSUME LookupInv, NEW q \in Queries, UseConn(q) PROVE LookupInv'
  <1>1. /\ query[q] = "connect" /\ dialling = NoQuery /\ UNCHANGED <<plan, current, quic, taken, final>>
        /\ \/ current # 0 /\ quic[current] = "live" /\ query' = [query EXCEPT ![q] = "open"] /\ dialling' = dialling
           \/ /\ ~(current # 0 /\ quic[current] = "live")
              /\ query' = [query EXCEPT ![q] = "dialling"] /\ dialling' = q
    BY DEF UseConn, Becomes
  <1>2. Queries' = Queries /\ Asked' = Asked
    BY <1>1 DEF Queries, Asked
  <1>3. Proceeds /\ AnswersBelong'
    BY <1>1, QueryMoves DEF Settled
  <1>4. QueryOrder'
    BY <1>1, DoqOrder DEF LookupInv, QueryOrder
  <1>5. \A k \in Queries : query[k] # "dialling"
    <2>1. \A k \in Queries : k # NoQuery
      BY DEF Queries, Families, NoQuery
    <2> QED
      BY <1>1, <2>1 DEF LookupInv, QuicKept
  <1>6. QuicKept'
    BY <1>1, <1>2, <1>5 DEF LookupInv, QuicKept, OneQuicConn
  <1> QED
    BY <1>2, <1>3, <1>4, <1>6 DEF LookupInv, Proceeds

(* The dial under r.mu makes the only live connection. *)
LEMMA DialQuicInv ==
  ASSUME LookupInv, NEW q \in Queries, NEW ok \in BOOLEAN, DialQuic(q, ok) PROVE LookupInv'
  <1>1. /\ query[q] = "dialling" /\ dialling' = NoQuery /\ UNCHANGED <<plan, taken, final>>
        /\ \/ /\ quic' = Append(quic, "live") /\ current' = Len(quic) + 1
              /\ query' = [query EXCEPT ![q] = "open"]
           \/ query' = [query EXCEPT ![q] = "err"] /\ UNCHANGED <<quic, current>>
    BY DEF DialQuic, Becomes
  <1>2. Queries' = Queries /\ Asked' = Asked
    BY <1>1 DEF Queries, Asked
  <1>3. Proceeds /\ AnswersBelong'
    BY <1>1, QueryMoves DEF Settled
  <1>4. QueryOrder'
    BY <1>1, DoqOrder DEF LookupInv, QueryOrder
  <1>5. \A k \in Queries : query'[k] # "dialling"
    BY <1>1 DEF LookupInv, QuicKept
  <1>6. quic \in Seq(QuicStates) /\ current \in 0 .. Len(quic) /\ (current # 0 => quic[current] # "live")
        /\ OneQuicConn
    BY <1>1 DEF LookupInv, QuicKept
  <1>7. \A c \in DOMAIN quic : quic[c] # "live"
    BY <1>6 DEF OneQuicConn
  <1>8. CASE quic' = Append(quic, "live") /\ current' = Len(quic) + 1
    <2>1. quic' \in Seq(QuicStates) /\ current' \in 0 .. Len(quic')
      BY <1>6, <1>8 DEF QuicStates
    <2>2. \A c \in DOMAIN quic' : quic'[c] = "live" => c = current'
      BY <1>6, <1>7, <1>8
    <2> QED
      BY <1>2, <1>3, <1>4, <1>5, <2>1, <2>2 DEF LookupInv, Proceeds, QuicKept, OneQuicConn
  <1>9. CASE UNCHANGED <<quic, current>>
    BY <1>2, <1>3, <1>4, <1>5, <1>6, <1>9 DEF LookupInv, Proceeds, QuicKept, OneQuicConn
  <1> QED
    BY <1>1, <1>8, <1>9

(* A connection dies. *)
LEMMA QuicDies ==
  ASSUME quic \in Seq(QuicStates), NEW c \in 0 .. Len(quic)
  PROVE  /\ QuicClosed(c) \in Seq(QuicStates) /\ Len(QuicClosed(c)) = Len(quic)
         /\ c # 0 => QuicClosed(c)[c] = "dead"
         /\ \A d \in DOMAIN quic : QuicClosed(c)[d] = "live" => quic[d] = "live"
  BY DEF QuicClosed, QuicStates

(* closeConn closes the live connection, whoever uses it. *)
LEMMA OpenStreamInv ==
  ASSUME LookupInv, NEW q \in Queries, NEW ok \in BOOLEAN, OpenStream(q, ok) PROVE LookupInv'
  <1>1. /\ query[q] = "open" /\ dialling = NoQuery /\ UNCHANGED <<plan, dialling, taken, final>>
        /\ \/ query' = [query EXCEPT ![q] = "wait"] /\ UNCHANGED <<quic, current>>
           \/ query' = [query EXCEPT ![q] = "err"] /\ quic' = QuicClosed(current) /\ current' = 0
    BY DEF OpenStream, Becomes, AfterClose
  <1>2. Queries' = Queries /\ Asked' = Asked
    BY <1>1 DEF Queries, Asked
  <1>3. Proceeds /\ AnswersBelong'
    BY <1>1, QueryMoves DEF Settled
  <1>4. QueryOrder'
    BY <1>1, DoqOrder DEF LookupInv, QueryOrder
  <1>5. \A k \in Queries : query'[k] # "dialling"
    <2>1. \A k \in Queries : k # NoQuery
      BY DEF Queries, Families, NoQuery
    <2> QED
      BY <1>1, <2>1 DEF LookupInv, QuicKept
  <1>6. quic \in Seq(QuicStates) /\ current \in 0 .. Len(quic) /\ OneQuicConn
    BY DEF LookupInv, QuicKept
  <1>7. CASE quic' = QuicClosed(current) /\ current' = 0
    <2>1. quic' \in Seq(QuicStates) /\ Len(quic') = Len(quic) /\ (current # 0 => quic'[current] = "dead")
          /\ \A d \in DOMAIN quic : quic'[d] = "live" => quic[d] = "live"
      BY <1>6, <1>7, QuicDies
    <2>2. DOMAIN quic' = DOMAIN quic /\ 0 \in 0 .. Len(quic')
      BY <1>6, <2>1
    <2>3. \A d \in DOMAIN quic' : quic'[d] # "live"
      BY <1>6, <2>1, <2>2 DEF OneQuicConn
    <2> QED
      BY <1>2, <1>3, <1>4, <1>5, <1>7, <2>1, <2>2, <2>3 DEF LookupInv, Proceeds, QuicKept, OneQuicConn
  <1>8. CASE UNCHANGED <<quic, current>>
    BY <1>2, <1>3, <1>4, <1>5, <1>6, <1>8 DEF LookupInv, Proceeds, QuicKept, OneQuicConn
  <1> QED
    BY <1>1, <1>7, <1>8

(* A stream answers its own query. *)
LEMMA QuicAnswerInv ==
  ASSUME LookupInv, NEW q \in Queries, NEW ok \in BOOLEAN, QuicAnswer(q, ok) PROVE LookupInv'
  <1> DEFINE pc == IF ok THEN "ok" ELSE "err"
  <1>1. /\ plan.by[q[1]] = "doq" /\ query[q] = "wait" /\ query' = [query EXCEPT ![q] = pc]
        /\ taken' = (IF pc = "ok" THEN [taken EXCEPT ![q] = q] ELSE taken)
        /\ UNCHANGED <<plan, via, current, quic, dialling, final>>
    BY DEF QuicAnswer, Becomes, doqVars
  <1>2. Queries' = Queries /\ Asked' = Asked
    BY <1>1 DEF Queries, Asked
  <1>3. Proceeds /\ AnswersBelong'
    BY <1>1, QueryMoves DEF Settled
  <1>4. QueryOrder'
    BY <1>1, DoqOrder
  <1>5. \A k \in Queries : query'[k] = "dialling" => query[k] = "dialling"
    BY <1>1 DEF LookupInv
  <1>6. QuicKept'
    BY <1>1, <1>2, <1>5 DEF LookupInv, QuicKept, OneQuicConn
  <1> QED
    BY <1>2, <1>3, <1>4, <1>6 DEF LookupInv, Proceeds

(* A connection lost on the way stays current until the next query. *)
LEMMA ConnLostInv == ASSUME LookupInv, NEW c \in DOMAIN quic, ConnLost(c) PROVE LookupInv'
  <1>1. quic' = QuicClosed(c) /\ UNCHANGED <<plan, query, current, dialling, taken, final>>
    BY DEF ConnLost
  <1>2. Queries' = Queries /\ Asked' = Asked
    BY <1>1 DEF Queries, Asked
  <1>3. quic \in Seq(QuicStates) /\ current \in 0 .. Len(quic) /\ OneQuicConn /\ c \in 1 .. Len(quic)
    BY DEF LookupInv, QuicKept
  <1>4. quic' \in Seq(QuicStates) /\ Len(quic') = Len(quic) /\ \A d \in DOMAIN quic : quic'[d] = "live" => quic[d] = "live"
    BY <1>1, <1>3, QuicDies
  <1>5. DOMAIN quic' = DOMAIN quic /\ OneQuicConn'
    BY <1>1, <1>3, <1>4 DEF OneQuicConn
  <1>6. current # 0 => current \in DOMAIN quic
    BY <1>3
  <1>7. QuicKept'
    BY <1>1, <1>2, <1>3, <1>4, <1>5, <1>6 DEF LookupInv, QuicKept
  <1>8. Proceeds
    BY <1>1 DEF Proceeds, LookupInv
  <1>9. AnswersBelong' /\ QueryOrder'
    BY <1>1, <1>2, <1>8, AnswersStay DEF LookupInv, QueryOrder
  <1> QED
    BY <1>2, <1>7, <1>8, <1>9 DEF LookupInv, Proceeds

(* Steps of a DoT lookup l leave QUIC and the queries of the others alone.   *)
LEMMA DotOrder ==
  ASSUME LookupInv, NEW l \in Asked, UNCHANGED <<plan, current, quic, dialling>>, DOMAIN query' = Queries,
         \A q \in Queries : q[1] # l => query'[q] = query[q],
         \A f \in Families : query'[<<l, f>>] # query[<<l, f>>] => query'[<<l, f>>] \in Settled \cup {"wait"},
         query'[<<l, 4>>] = query[<<l, 4>>] => query'[<<l, 6>>] = query[<<l, 6>>] \/ query[<<l, 6>>] # "next",
         query'[<<l, 4>>] = "wait" => query'[<<l, 6>>] = "next"
  PROVE  QueryOrder' /\ QuicKept'
  <1>1. Queries' = Queries /\ Asked' = Asked
    BY DEF Queries, Asked
  <1>2. \A q \in Queries : q[1] = l => \E f \in Families : q = <<l, f>>
    BY DEF Queries
  <1>3. \A q \in Queries : query'[q] = query[q] \/ query'[q] \in Settled \cup {"wait"}
    BY <1>2
  <1>4. \A q \in Queries : query'[q] \in {"connect", "open", "dialling"} => plan.by[q[1]] = "doq"
    BY <1>3 DEF LookupInv, QueryOrder, Settled
  <1>5. ASSUME NEW k \in Asked, query'[<<k, 4>>] = "dial" \/ (query'[<<k, 4>>] = "wait" /\ plan.by[k] = "dot")
        PROVE  query'[<<k, 6>>] = "next"
    <2>1. <<k, 4>> \in Queries /\ <<k, 6>> \in Queries /\ 4 \in Families
      BY QueryNames DEF Families
    <2>2. CASE k # l
      BY <1>5, <2>1, <2>2 DEF LookupInv, QueryOrder
    <2>3. CASE k = l
      BY <1>5, <2>1, <2>3 DEF LookupInv, QueryOrder, Settled
    <2> QED
      BY <2>2, <2>3
  <1>6. QuicKept'
    BY <1>1, <1>3 DEF LookupInv, QuicKept, OneQuicConn, Settled
  <1> QED
    BY <1>1, <1>4, <1>5, <1>6 DEF QueryOrder

(* A DoT handshake that fails settles both queries of the lookup. *)
LEMMA DialTLSInv ==
  ASSUME LookupInv, NEW l \in Asked, NEW ok \in BOOLEAN, DialTLS(l, ok) PROVE LookupInv'
  <1>1. /\ query[<<l, 4>>] = "dial" /\ UNCHANGED <<plan, via, current, quic, dialling, taken, final>>
        /\ query' = IF ok THEN [query EXCEPT ![<<l, 4>>] = "wait"]
                    ELSE [query EXCEPT ![<<l, 4>>] = "err", ![<<l, 6>>] = "err"]
    BY DEF DialTLS, doqVars
  <1>2. Queries' = Queries /\ Asked' = Asked
    BY <1>1 DEF Queries, Asked
  <1>3. <<l, 4>> \in Queries /\ <<l, 6>> \in Queries /\ query[<<l, 6>>] = "next" /\ DOMAIN query = Queries
    BY <1>1, QueryNames DEF LookupInv, QueryOrder
  <1>4. /\ DOMAIN query' = Queries
        /\ query'[<<l, 4>>] = (IF ok THEN "wait" ELSE "err") /\ query'[<<l, 6>>] = (IF ok THEN "next" ELSE "err")
        /\ \A q \in Queries : q # <<l, 4>> /\ q # <<l, 6>> => query'[q] = query[q]
    BY <1>1, <1>3
  <1>5. Proceeds
    BY <1>1, <1>3, <1>4 DEF Proceeds, LookupInv, Settled
  <1>6. QueryOrder' /\ QuicKept'
    BY <1>1, <1>3, <1>4, DotOrder DEF Families, Settled
  <1> QED
    BY <1>1, <1>2, <1>5, <1>6, AnswersStay DEF LookupInv, Proceeds

(* The end of an exchange starts the AAAA query or closes the connection. *)
LEMMA EndWireInv ==
  ASSUME LookupInv, NEW l \in Asked, NEW f \in Families, NEW ok \in BOOLEAN, EndWire(<<l, f>>, ok),
         plan.by[l] = "dot", query[<<l, f>>] = "wait", UNCHANGED <<plan, via, current, quic, dialling, final>>,
         taken' = IF ok THEN [taken EXCEPT ![<<l, f>>] = <<l, f>>] ELSE taken
  PROVE  LookupInv'
  <1> DEFINE pc == IF ok THEN "ok" ELSE "err"
  <1>1. Queries' = Queries /\ Asked' = Asked
    BY DEF Queries, Asked
  <1>2. <<l, 4>> \in Queries /\ <<l, 6>> \in Queries /\ DOMAIN query = Queries /\ DOMAIN taken = Queries
    BY QueryNames DEF LookupInv
  <1>3. f = 4 \/ f = 6
    BY DEF Families
  <1>4. query' = IF f = 4 THEN [query EXCEPT ![<<l, f>>] = pc, ![<<l, 6>>] = "wait"]
                 ELSE [query EXCEPT ![<<l, f>>] = pc]
    BY DEF EndWire
  <1>5. CASE f = 4
    <2>1. query[<<l, 4>>] = "wait" /\ query[<<l, 6>>] = "next"
      BY <1>5 DEF LookupInv, QueryOrder
    <2>2. /\ DOMAIN query' = Queries /\ query'[<<l, 4>>] = pc /\ query'[<<l, 6>>] = "wait"
          /\ \A q \in Queries : q # <<l, 4>> /\ q # <<l, 6>> => query'[q] = query[q]
      BY <1>2, <1>4, <1>5
    <2>3. DOMAIN taken' = Queries /\ (ok => taken'[<<l, 4>>] = <<l, 4>>)
          /\ \A q \in Queries : q # <<l, 4>> => taken'[q] = taken[q]
      BY <1>2, <1>5
    <2>4. Proceeds
      BY <2>1, <2>2, <2>3 DEF Proceeds, Settled
    <2>5. QueryOrder' /\ QuicKept'
      BY <2>1, <2>2, DotOrder DEF Families, Settled
    <2> QED
      BY <1>1, <2>4, <2>5, AnswersStay DEF LookupInv, Proceeds
  <1>6. CASE f = 6
    <2>1. query[<<l, 6>>] = "wait" /\ query[<<l, 4>>] # "wait"
      BY <1>6 DEF LookupInv, QueryOrder
    <2>2. /\ DOMAIN query' = Queries /\ query'[<<l, 6>>] = pc
          /\ \A q \in Queries : q # <<l, 6>> => query'[q] = query[q]
      BY <1>2, <1>4, <1>6
    <2>3. DOMAIN taken' = Queries /\ (ok => taken'[<<l, 6>>] = <<l, 6>>)
          /\ \A q \in Queries : q # <<l, 6>> => taken'[q] = taken[q]
      BY <1>2, <1>6
    <2>4. Proceeds
      BY <2>1, <2>2, <2>3 DEF Proceeds, Settled
    <2>5. QueryOrder' /\ QuicKept'
      BY <1>2, <2>1, <2>2, DotOrder DEF Families, Settled
    <2> QED
      BY <1>1, <2>4, <2>5, AnswersStay DEF LookupInv, Proceeds
  <1> QED
    BY <1>3, <1>5, <1>6

(* An exchange takes its own answer, or none. *)
LEMMA ExchangeInv ==
  ASSUME LookupInv, NEW l \in Asked, NEW f \in Families, ExchangeWire(<<l, f>>) \/ ExchangeTimesOut(<<l, f>>)
  PROVE  LookupInv'
  <1> DEFINE q == <<l, f>>
             answer == Head(pipe[l])
             ok == Matches(q, answer)
  <1>1. CASE ExchangeWire(q)
    <2>1. /\ EndWire(q, ok) /\ taken' = (IF ok THEN [taken EXCEPT ![q] = answer] ELSE taken)
          /\ plan.by[l] = "dot" /\ query[q] = "wait" /\ UNCHANGED <<plan, via, current, quic, dialling, final>>
      BY <1>1 DEF ExchangeWire, doqVars
    <2>2. ok \in BOOLEAN /\ (ok => answer = q)
      BY DEF Matches
    <2>3. taken' = (IF ok THEN [taken EXCEPT ![q] = q] ELSE taken)
      BY <2>1, <2>2
    <2> HIDE DEF ok
    <2> QED
      BY <2>1, <2>2, <2>3, EndWireInv
  <1>2. CASE ExchangeTimesOut(q)
    <2>1. /\ EndWire(q, FALSE) /\ taken' = taken
          /\ plan.by[l] = "dot" /\ query[q] = "wait" /\ UNCHANGED <<plan, via, current, quic, dialling, final>>
      BY <1>2 DEF ExchangeTimesOut, doqVars
    <2> QED
      BY <2>1, EndWireInv
  <1> QED
    BY <1>1, <1>2

(* FallbackResolver and FastRaceResolver return. *)
LEMMA CombineInv == ASSUME LookupInv, Combine PROVE LookupInv'
  <1>1. /\ final = "none" /\ UNCHANGED <<plan, query, via, current, quic, dialling, taken>>
        /\ \/ (\E l \in Asked : LookupDone(l) /\ ~BothFailed(l)) /\ final' = "ok"
           \/ (\A l \in Asked : LookupDone(l) /\ BothFailed(l)) /\ final' = "error"
    BY DEF Combine, doqVars
  <1>2. Queries' = Queries /\ Asked' = Asked
    BY <1>1 DEF Queries, Asked
  <1>3. \A q \in Queries : query[q] = "ok" => taken[q] = q
    BY DEF LookupInv, AnswersBelong
  <1>4. final' = "ok" => \E q \in Queries : query[q] = "ok"
    <2> SUFFICES ASSUME NEW l \in Asked, LookupDone(l), ~BothFailed(l) PROVE \E q \in Queries : query[q] = "ok"
      BY <1>1
    <2>1. PICK f \in Families : query[<<l, f>>] # "err"
      BY DEF BothFailed
    <2>2. query[<<l, f>>] = "ok" /\ <<l, f>> \in Queries
      BY <2>1 DEF LookupDone, Settled, Queries
    <2> QED
      BY <2>2
  <1>5. final' = "error" => \A q \in Queries : query[q] = "err"
    <2> SUFFICES ASSUME \A l \in Asked : BothFailed(l), NEW q \in Queries PROVE query[q] = "err"
      BY <1>1
    <2>1. PICK l \in Asked, f \in Families : q = <<l, f>>
      BY DEF Queries
    <2> QED
      BY <2>1 DEF BothFailed
  <1>6. AnswersBelong'
    BY <1>1, <1>2, <1>3, <1>4, <1>5 DEF AnswersBelong
  <1> QED
    BY <1>1, <1>2, <1>6 DEF LookupInv, QueryOrder, QuicKept, OneQuicConn

(* Steps of the server and the callers change no answer. *)
LEMMA LookupIdle ==
  ASSUME LookupInv, UNCHANGED <<plan, query, current, quic, dialling, taken, final>> PROVE LookupInv'
  <1>1. Queries' = Queries /\ Asked' = Asked
    BY DEF Queries, Asked
  <1> QED
    BY <1>1 DEF LookupInv, QueryOrder, QuicKept, OneQuicConn, AnswersBelong

(* No query has been asked. *)
LEMMA LookupStarts == TransportInit => LookupInv
  <1> SUFFICES ASSUME TransportInit PROVE LookupInv
    OBVIOUS
  <1>1. quic \in Seq(QuicStates) /\ Len(quic) = 0 /\ current = 0
    BY DEF TransportInit
  <1>2. \A q \in Queries : query[q] = "idle"
    BY DEF TransportInit
  <1>3. QueryOrder
    BY <1>2, QueryNames DEF QueryOrder
  <1>4. QuicKept
    BY <1>1, <1>2 DEF QuicKept, OneQuicConn
  <1> QED
    BY <1>2, <1>3, <1>4 DEF TransportInit, LookupInv, AnswersBelong

(* Every step of the lookups keeps their invariant. *)
LEMMA LookupStep == LookupInv /\ [TransportNext]_transportVars => LookupInv'
  <1> SUFFICES ASSUME LookupInv, [TransportNext]_transportVars PROVE LookupInv'
    OBVIOUS
  <1>1. ASSUME NEW l \in Asked, StartLookup(l) PROVE LookupInv'
    BY <1>1, StartLookupInv
  <1>2. ASSUME NEW l \in Asked, DotStep(l) PROVE LookupInv'
    BY <1>2, DialTLSInv, ExchangeInv DEF DotStep
  <1>3. ASSUME NEW l \in Asked, CallerLeaves(l) PROVE LookupInv'
    BY <1>3, LookupIdle DEF CallerLeaves, doqVars
  <1>4. ASSUME NEW l \in Asked, NEW f \in Families, ServerAnswers(l, f) PROVE LookupInv'
    BY <1>4, LookupIdle DEF ServerAnswers, doqVars
  <1>5. ASSUME NEW q \in Queries, UseConn(q) PROVE LookupInv'
    BY <1>5, UseConnInv
  <1>6. ASSUME NEW q \in Queries, NEW ok \in BOOLEAN,
               DialQuic(q, ok) \/ OpenStream(q, ok) \/ QuicAnswer(q, ok) \/ HttpAnswer(q, ok)
        PROVE  LookupInv'
    BY <1>6, DialQuicInv, OpenStreamInv, QuicAnswerInv, HttpAnswerInv
  <1>7. ASSUME NEW c \in DOMAIN quic, ConnLost(c) PROVE LookupInv'
    BY <1>7, ConnLostInv
  <1>8. CASE Combine
    BY <1>8, CombineInv
  <1>9. CASE UNCHANGED transportVars
    BY <1>9, LookupIdle DEF transportVars
  <1> QED
    BY <1>1, <1>2, <1>3, <1>4, <1>5, <1>6, <1>7, <1>8, <1>9 DEF TransportNext

(* AnswersBelong for any number of lookups over any transports, combined in  *)
(* any way: a query over DoT, DoQ or DoH takes no answer but its own, and    *)
(* FallbackResolver and FastRaceResolver return what came of the queries.    *)
THEOREM LookupsAreAnswered == TransportSpec => []AnswersBelong
  <1>1. LookupInv => AnswersBelong
    BY DEF LookupInv
  <1> QED
    BY <1>1, LookupStarts, LookupStep, PTL DEF TransportSpec
-----------------------------------------------------------------------------
(* A dial. *)

AttemptStates == {"none", "dialing", "connected", "won", "ended"}

DialType ==
  /\ job.addrs \in Seq({"public", "private"}) /\ next \in Nat /\ next > 0
  /\ attempt \in [Addrs -> AttemptStates] /\ results \in Seq([ok : BOOLEAN, sock : Nat])

(* A race starts with nothing open, launches every address once and has no   *)
(* drain until it is decided; a drain that has ended found nobody at work.   *)
RaceOrder ==
  /\ at = "delay" => next = 1 /\ open = {} /\ results = <<>>
  /\ at \in {"delay", "race"} => \A a \in Addrs : a >= next => attempt[a] = "none"
  /\ drain # "none" => at \in {"filters", "done"}
  /\ drain = "ended" => results = <<>> /\ \A a \in Addrs : attempt[a] \notin Active

Pursued(s) == s \in Addrs /\ attempt[s] \in {"connected", "won"}
Reported(s) == \E i \in DOMAIN results : results[i].ok /\ results[i].sock = s

(* An open socket is in the hands of its attempt or in the channel, until    *)
(* the race is decided for one of them.                                      *)
SocketsKept ==
  /\ at = "race" => \A s \in open : Pursued(s) \/ Reported(s)
  /\ drain # "none" => \A s \in open : s = left.sock \/ Pursued(s) \/ Reported(s)

GuardKept == job.guard /\ ~job.nic => \A a \in Addrs : attempt[a] # "none" => job.addrs[a] # "private"

RaceInv == DialType /\ RaceOrder /\ SocketsKept /\ GuardKept /\ GuardedDial

(* Nothing is open. *)
LEMMA RaceStarts == DialerInit => RaceInv
  <1> SUFFICES ASSUME DialerInit PROVE RaceInv
    OBVIOUS
  <1>1. job.addrs \in Seq({"public", "private"})
    BY DialerAssumption DEF DialerInit
  <1>2. results \in Seq([ok : BOOLEAN, sock : Nat])
    <2>1. results = <<>>
      BY DEF DialerInit
    <2> QED
      BY <2>1
  <1>3. /\ at = "delay" /\ next = 1 /\ attempt = [a \in Addrs |-> "none"] /\ results = <<>>
        /\ drain = "none" /\ open = {} /\ touched = {}
    BY DEF DialerInit
  <1>4. DialType
    BY <1>1, <1>2, <1>3 DEF DialType, AttemptStates
  <1>5. RaceOrder /\ SocketsKept
    BY <1>3 DEF RaceOrder, SocketsKept
  <1>6. GuardKept /\ GuardedDial
    BY <1>3 DEF GuardKept, GuardedDial
  <1> QED
    BY <1>4, <1>5, <1>6 DEF RaceInv

(* Steps of the caller outside of a race. *)
LEMMA CallerInv ==
  ASSUME RaceInv, UNCHANGED <<job, attempt, results, drain>>, next' \in Nat, next' > 0,
         at' \notin {"delay", "race"}, at \notin {"filters", "done"},
         \/ touched' = touched
         \/ touched' = touched \cup {0}
         \/ \E a \in Addrs : ~Blocked(a) /\ touched' = touched \cup {a}
  PROVE  RaceInv'
  <1>1. Addrs' = Addrs
    BY DEF Addrs
  <1>2. drain = "none"
    BY DEF RaceInv, RaceOrder
  <1>3. 0 \notin Addrs
    BY DEF RaceInv, DialType, Addrs
  <1>4. GuardedDial'
    <2>1. ASSUME job.guard, ~job.nic, NEW a \in touched' \cap Addrs PROVE job.addrs[a] # "private"
      BY <1>3, <2>1 DEF RaceInv, GuardedDial, Blocked
    <2> QED
      BY <1>1, <2>1 DEF GuardedDial
  <1> QED
    BY <1>1, <1>2, <1>4 DEF RaceInv, DialType, RaceOrder, SocketsKept, GuardKept

(* The dial begins: a race starts from nothing. *)
LEMMA DelayInv == ASSUME RaceInv, Delay PROVE RaceInv'
  <1>1. UNCHANGED <<job, attempt, results, drain, next, open, touched>> /\ at = "delay"
    BY DEF Delay, Moves, raceVars
  <1>2. Addrs' = Addrs
    BY <1>1 DEF Addrs
  <1>3. CASE at' = "race"
    <2>1. drain = "none" /\ open = {}
      BY <1>1 DEF RaceInv, RaceOrder
    <2> QED
      BY <1>1, <1>2, <1>3, <2>1 DEF RaceInv, DialType, RaceOrder, SocketsKept, GuardKept, GuardedDial
  <1>4. CASE at' # "race"
    <2>1. at' # "delay"
      BY DEF Delay, Moves, Fail
    <2> QED
      BY <1>1, <1>4, <2>1, CallerInv DEF RaceInv, DialType
  <1> QED
    BY <1>3, <1>4

(* The proxy and the addresses in turn. *)
LEMMA OutsideInv ==
  ASSUME RaceInv,
         \/ Unresolved \/ NoAddressLeft
         \/ \E ok \in BOOLEAN : DialProxy(ok) \/ Connect(ok) \/ TryAddress(ok)
  PROVE  RaceInv'
  <1>1. next \in Nat /\ next > 0
    BY DEF RaceInv, DialType
  <1>2. CASE Unresolved \/ NoAddressLeft
    BY <1>1, <1>2, CallerInv DEF Unresolved, NoAddressLeft, Fail, raceVars
  <1>3. ASSUME NEW ok \in BOOLEAN, DialProxy(ok) PROVE RaceInv'
    BY <1>1, <1>3, CallerInv DEF DialProxy, Fail, Opened, raceVars
  <1>4. ASSUME NEW ok \in BOOLEAN, Connect(ok) PROVE RaceInv'
    BY <1>1, <1>4, CallerInv DEF Connect, Fail, raceVars
  <1>5. ASSUME NEW ok \in BOOLEAN, TryAddress(ok) PROVE RaceInv'
    <2>1. /\ UNCHANGED <<job, attempt, results, drain>> /\ at = "sequential" /\ next' = next + 1
          /\ next \in Addrs /\ at' \in {"filters", "sequential"}
          /\ touched' = touched \/ (~Blocked(next) /\ touched' = touched \cup {next})
      BY <1>5 DEF TryAddress, Opened, raceVars
    <2> QED
      BY <1>1, <2>1, CallerInv
  <1> QED
    BY <1>2, <1>3, <1>4, <1>5

(* A filter that fails closes the winner's socket and no other. *)
LEMMA FiltersInv == ASSUME RaceInv, NEW pass \in BOOLEAN, Filters(pass) PROVE RaceInv'
  <1>1. /\ UNCHANGED <<job, next, attempt, results, drain, touched>> /\ at = "filters" /\ at' = "done"
        /\ \/ open' = open /\ left' = [left EXCEPT !.as = "conn"]
           \/ open' = open \ {left.sock}
    BY DEF Filters, Fail, raceVars
  <1>2. Addrs' = Addrs
    BY <1>1 DEF Addrs
  <1>3. [left EXCEPT !.as = "conn"].sock = left.sock
    OBVIOUS
  <1>4. SocketsKept'
    <2>1. ASSUME drain # "none", NEW s \in open', ~Pursued(s), ~Reported(s) PROVE s = left'.sock
      BY <1>1, <1>3, <2>1 DEF RaceInv, SocketsKept
    <2> QED
      BY <1>1, <1>2, <2>1 DEF SocketsKept, Pursued, Reported
  <1> QED
    BY <1>1, <1>2, <1>4 DEF RaceInv, DialType, RaceOrder, GuardKept, GuardedDial

(* The race goes on: an address is passed over or launched, and a failure   *)
(* may be taken from the channel.                                           *)
LEMMA RaceGoesOn ==
  ASSUME RaceInv, at = "race", UNCHANGED <<job, at, drain, open, touched>>,
         \/ UNCHANGED <<next, attempt>>
         \/ next' = next + 1 /\ attempt' = attempt
         \/ next' = Len(job.addrs) + 1 /\ next \in Addrs /\ attempt' = attempt
         \/ /\ next' = next + 1 /\ attempt' = [attempt EXCEPT ![next] = "dialing"]
            /\ next \in Addrs /\ (job.nic \/ ~Blocked(next)),
         results' = results \/ (results # <<>> /\ ~Head(results).ok /\ results' = Tail(results))
  PROVE  RaceInv'
  <1>1. Addrs' = Addrs /\ Addrs = 1 .. Len(job.addrs) /\ Len(job.addrs) \in Nat
    BY DEF Addrs, RaceInv, DialType
  <1>2. results \in Seq([ok : BOOLEAN, sock : Nat]) /\ attempt \in [Addrs -> AttemptStates] /\ next \in Nat
        /\ next > 0 /\ drain = "none"
    BY DEF RaceInv, DialType, RaceOrder
  <1>3. results' \in Seq([ok : BOOLEAN, sock : Nat])
    <2> DEFINE Results == [ok : BOOLEAN, sock : Nat]
    <2>1. results \in Seq(Results)
      BY <1>2
    <2> HIDE DEF Results
    <2>2. results # <<>> => Tail(results) \in Seq(Results)
      BY <2>1
    <2> QED
      BY <2>1, <2>2 DEF Results
  <1>4. \A s : Reported(s) => Reported(s)'
    <2>1. CASE results' = results
      BY <2>1 DEF Reported
    <2>2. CASE results # <<>> /\ ~Head(results).ok /\ results' = Tail(results)
      <3> SUFFICES ASSUME NEW s, NEW i \in DOMAIN results, results[i].ok, results[i].sock = s PROVE Reported(s)'
        BY DEF Reported
      <3>1. i # 1 /\ i \in 1 .. Len(results)
        BY <1>2, <2>2
      <3>2. i - 1 \in DOMAIN results' /\ results'[i - 1] = results[i]
        BY <1>2, <2>2, <3>1
      <3> QED
        BY <3>2 DEF Reported
    <2> QED
      BY <2>1, <2>2
  <1>5. /\ attempt' \in [Addrs -> AttemptStates] /\ next' \in Nat /\ next' > 0
        /\ \A a \in Addrs :
             \/ attempt'[a] = attempt[a]
             \/ a = next /\ attempt[a] = "none" /\ attempt'[a] = "dialing" /\ (job.nic \/ ~Blocked(a))
    BY <1>1, <1>2 DEF RaceInv, RaceOrder, AttemptStates
  <1>6. DialType'
    BY <1>1, <1>2, <1>3, <1>5 DEF RaceInv, DialType, AttemptStates
  <1>7. \A a \in Addrs : a >= next' => attempt'[a] = "none"
    BY <1>1, <1>2 DEF RaceInv, RaceOrder
  <1>8. RaceOrder'
    BY <1>1, <1>2, <1>7 DEF RaceOrder
  <1>9. SocketsKept'
    BY <1>1, <1>2, <1>4, <1>5 DEF RaceInv, SocketsKept, Pursued
  <1>10. GuardKept' /\ GuardedDial'
    BY <1>1, <1>5 DEF RaceInv, GuardKept, GuardedDial, Blocked
  <1> QED
    BY <1>6, <1>8, <1>9, <1>10 DEF RaceInv

(* The caller leaves the race: with a result, or with none. *)
LEMMA RaceLeft ==
  ASSUME RaceInv, at = "race", UNCHANGED <<job, attempt, open, touched>>, next' \in Nat, next' > 0,
         results' \in Seq([ok : BOOLEAN, sock : Nat]), at' \notin {"delay", "race"},
         \/ drain' = "none"
         \/ /\ drain' = "running" /\ at' = "filters"
            /\ \A s : Reported(s) => s = left'.sock \/ Reported(s)'
  PROVE  RaceInv'
  <1>1. Addrs' = Addrs
    BY DEF Addrs
  <1>2. SocketsKept'
    BY <1>1 DEF RaceInv, SocketsKept, Pursued
  <1> QED
    BY <1>1, <1>2 DEF RaceInv, DialType, RaceOrder, GuardKept, GuardedDial

(* SkipBlocked, Launch and the loop that waits for the stagger delay. *)
LEMMA StaggerInv ==
  ASSUME RaceInv, SkipBlocked \/ Launch \/ StaggerResult PROVE RaceInv'
  <1>1. CASE SkipBlocked
    BY <1>1, RaceGoesOn DEF SkipBlocked, raceVars
  <1>2. CASE Launch
    BY <1>2, RaceGoesOn DEF Launch, MayStart, Proceed, Start
  <1>3. CASE StaggerResult
    <2>1. /\ MayStart /\ results # <<>> /\ results' = Tail(results) /\ UNCHANGED <<job, drain, open, touched>>
          /\ \/ Head(results).ok /\ at' = "filters" /\ UNCHANGED <<next, attempt>>
             \/ ~Head(results).ok /\ Proceed /\ at' = at
      BY <1>3 DEF StaggerResult
    <2>2. CASE ~Head(results).ok
      BY <2>1, <2>2, RaceGoesOn DEF MayStart, Proceed, Start
    <2>3. CASE Head(results).ok
      <3>1. at = "race" /\ next \in Nat /\ next > 0 /\ results' \in Seq([ok : BOOLEAN, sock : Nat]) /\ drain = "none"
        BY <2>1 DEF MayStart, RaceInv, DialType, RaceOrder
      <3> QED
        BY <2>1, <2>3, <3>1, RaceLeft
    <2> QED
      BY <2>2, <2>3
  <1> QED
    BY <1>1, <1>2, <1>3

(* The last loop of a race takes a result. *)
LEMMA TakeResultInv == ASSUME RaceInv, TakeResult PROVE RaceInv'
  <1>1. /\ at = "race" /\ results # <<>> /\ results' = Tail(results) /\ UNCHANGED <<job, next, attempt, open, touched>>
        /\ \/ /\ Head(results).ok /\ at' = "filters" /\ left'.sock = Head(results).sock
              /\ drain' \in {drain, "running"}
           \/ ~Head(results).ok /\ UNCHANGED <<at, left, drain>>
    <2>1. /\ at = "race" /\ results # <<>> /\ results' = Tail(results)
          /\ UNCHANGED <<job, next, attempt, open, touched>>
          /\ IF Head(results).ok
               THEN at' = "filters" /\ left' = [as |-> "", sock |-> Head(results).sock]
                    /\ drain' = IF job.nic THEN drain ELSE "running"
               ELSE UNCHANGED <<at, left, drain>>
      BY DEF TakeResult
    <2> DEFINE s == Head(results).sock
    <2> HIDE DEF s
    <2>2. [as |-> "", sock |-> s].sock = s
      OBVIOUS
    <2> QED
      BY <2>1, <2>2 DEF s
  <1>2. results \in Seq([ok : BOOLEAN, sock : Nat]) /\ next \in Nat /\ next > 0 /\ drain = "none"
    BY <1>1 DEF RaceInv, DialType, RaceOrder
  <1>3. CASE ~Head(results).ok
    BY <1>1, <1>3, RaceGoesOn
  <1>4. CASE Head(results).ok
    <2>1. \A s : Reported(s) => s = left'.sock \/ Reported(s)'
      <3>1. left'.sock = results[1].sock
        <4>1. Head(results) = results[1]
          BY <1>1, <1>2
        <4> QED
          BY <1>1, <1>4, <4>1
      <3>2. ASSUME NEW i \in DOMAIN results, i # 1
            PROVE  i - 1 \in DOMAIN results' /\ results'[i - 1] = results[i]
        BY <1>1, <1>2, <3>2
      <3>3. ASSUME NEW s, Reported(s), s # left'.sock
            PROVE  Reported(s)'
        <4>1. PICK i \in DOMAIN results : results[i].ok /\ results[i].sock = s
          BY <3>3 DEF Reported
        <4>2. i # 1
          BY <3>1, <3>3, <4>1
        <4> QED
          BY <3>2, <4>1, <4>2 DEF Reported
      <3> QED
        BY <3>3
    <2>2. results' \in Seq([ok : BOOLEAN, sock : Nat])
      BY <1>1, <1>2
    <2> QED
      BY <1>1, <1>2, <1>4, <2>1, <2>2, RaceLeft
  <1> QED
    BY <1>3, <1>4

(* A race without a winner has no drain. *)
LEMMA GiveUpInv == ASSUME RaceInv, StaggerCancelled \/ AllFailed \/ RaceCancelled PROVE RaceInv'
  <1>1. /\ at = "race" /\ at' \in {"done", "sequential"} /\ next' = 1
        /\ UNCHANGED <<job, attempt, results, drain, open, touched>>
    BY DEF StaggerCancelled, AllFailed, RaceCancelled, MayStart, GiveUp, AfterRace
  <1>2. results \in Seq([ok : BOOLEAN, sock : Nat]) /\ drain = "none"
    BY <1>1 DEF RaceInv, DialType, RaceOrder
  <1> QED
    BY <1>1, <1>2, RaceLeft

(* A step of the attempt a: its socket stays in hand until it is closed. *)
LEMMA AttemptMoves ==
  ASSUME RaceInv, NEW a \in Addrs, attempt[a] \in Active, NEW pc \in {"connected", "won", "ended"},
         attempt' = [attempt EXCEPT ![a] = pc], UNCHANGED <<job, at, next, drain, left>>,
         results' \in Seq([ok : BOOLEAN, sock : Nat]), \A s : Reported(s) => Reported(s)',
         open' \subseteq open \cup {a}, touched' \subseteq touched \cup {a},
         a \in open' => pc # "ended" \/ Reported(a)' \/ (a \in open /\ attempt[a] = "dialing")
  PROVE  RaceInv'
  <1>1. Addrs' = Addrs /\ attempt \in [Addrs -> AttemptStates]
    BY DEF Addrs, RaceInv, DialType
  <1>2. \A b \in Addrs : attempt'[b] = IF b = a THEN pc ELSE attempt[b]
    BY <1>1
  <1>3. attempt[a] # "none" /\ drain # "ended" /\ at # "delay"
    <2>1. attempt[a] # "none" /\ drain # "ended"
      BY DEF RaceInv, RaceOrder, Active
    <2>2. at = "delay" => a >= next
      BY DEF RaceInv, RaceOrder, DialType, Addrs
    <2> QED
      BY <2>1, <2>2 DEF RaceInv, RaceOrder
  <1>4. DialType'
    BY <1>1, <1>2 DEF RaceInv, DialType, AttemptStates
  <1>5. RaceOrder'
    BY <1>1, <1>2, <1>3 DEF RaceInv, RaceOrder
  <1>6. \A s : Pursued(s) => s = a \/ Pursued(s)'
    BY <1>1, <1>2 DEF Pursued
  <1>7. a \in open' => Pursued(a)' \/ Reported(a)' \/ (a \in open /\ attempt[a] = "dialing")
    BY <1>1, <1>2 DEF Pursued
  <1>8. attempt[a] = "dialing" => ~Pursued(a)
    BY DEF Pursued
  <1>9. SocketsKept'
    BY <1>6, <1>7, <1>8 DEF RaceInv, SocketsKept
  <1>10. GuardKept' /\ GuardedDial'
    BY <1>1, <1>2, <1>3 DEF RaceInv, GuardKept, GuardedDial
  <1> QED
    BY <1>4, <1>5, <1>9, <1>10 DEF RaceInv

(* The goroutine of an address. *)
LEMMA AttemptInv == ASSUME RaceInv, NEW a \in Addrs, AttemptStep(a) PROVE RaceInv'
  <1>1. results \in Seq([ok : BOOLEAN, sock : Nat]) /\ a \in Nat
    BY DEF RaceInv, DialType, Addrs
  <1>2. ASSUME NEW r \in [ok : BOOLEAN, sock : Nat], results' = Append(results, r)
        PROVE  /\ results' \in Seq([ok : BOOLEAN, sock : Nat]) /\ \A s : Reported(s) => Reported(s)'
               /\ r.ok => Reported(r.sock)'
    <2>1. results' \in Seq([ok : BOOLEAN, sock : Nat])
      BY <1>1, <1>2
    <2>2. \A i \in DOMAIN results : i \in DOMAIN results' /\ results'[i] = results[i]
      BY <1>1, <1>2
    <2>3. Len(results) + 1 \in DOMAIN results' /\ results'[Len(results) + 1] = r
      BY <1>1, <1>2
    <2> QED
      BY <2>1, <2>2, <2>3 DEF Reported
  <1>3. ASSUME NEW ok \in BOOLEAN, AttemptDials(a, ok) PROVE RaceInv'
    <2>1. attempt[a] = "dialing" /\ UNCHANGED <<job, at, next, drain, left>>
      BY <1>3 DEF AttemptDials
    <2>2. CASE ok
      <3>1. attempt' = [attempt EXCEPT ![a] = "connected"] /\ open' = open \cup {a} /\ touched' = touched \cup {a}
            /\ results' = results
        BY <1>3, <2>2 DEF AttemptDials, Opened
      <3>2. \A s : Reported(s) => Reported(s)'
        BY <3>1 DEF Reported
      <3> QED
        BY <1>1, <2>1, <3>1, <3>2, AttemptMoves DEF Active
    <2>3. CASE ~ok
      <3>1. attempt' = [attempt EXCEPT ![a] = "ended"] /\ open' = open /\ touched' = touched
            /\ results' = Append(results, [ok |-> FALSE, sock |-> 0])
        BY <1>3, <2>3 DEF AttemptDials
      <3>2. results' \in Seq([ok : BOOLEAN, sock : Nat]) /\ \A s : Reported(s) => Reported(s)'
        BY <1>2, <3>1
      <3> QED
        BY <2>1, <3>1, <3>2, AttemptMoves DEF Active
    <2> QED
      BY <2>2, <2>3
  <1>4. CASE AttemptJudges(a)
    <2>1. /\ attempt[a] = "connected" /\ UNCHANGED <<job, at, next, drain, left, results, touched>>
          /\ \/ attempt' = [attempt EXCEPT ![a] = "won"] /\ open' = open
             \/ attempt' = [attempt EXCEPT ![a] = "ended"] /\ open' = open \ {a}
      BY <1>4 DEF AttemptJudges
    <2>2. \A s : Reported(s) => Reported(s)'
      BY <2>1 DEF Reported
    <2>3. CASE attempt' = [attempt EXCEPT ![a] = "won"] /\ open' = open
      <3>1. open' \subseteq open \cup {a} /\ touched' \subseteq touched \cup {a} /\ attempt[a] \in Active
        BY <2>1, <2>3 DEF Active
      <3>2. results' \in Seq([ok : BOOLEAN, sock : Nat])
        BY <1>1, <2>1
      <3> QED
        BY <2>1, <2>2, <2>3, <3>1, <3>2, AttemptMoves
    <2>4. CASE attempt' = [attempt EXCEPT ![a] = "ended"] /\ open' = open \ {a}
      <3>1. open' \subseteq open \cup {a} /\ a \notin open'
        BY <2>4
      <3> QED
        BY <1>1, <2>1, <2>2, <2>4, <3>1, AttemptMoves DEF Active
    <2> QED
      BY <2>1, <2>3, <2>4
  <1>5. CASE AttemptSends(a)
    <2>1. /\ attempt[a] = "won" /\ UNCHANGED <<job, at, next, drain, left, open, touched>>
          /\ attempt' = [attempt EXCEPT ![a] = "ended"] /\ results' = Append(results, [ok |-> TRUE, sock |-> a])
      BY <1>5 DEF AttemptSends
    <2> DEFINE r == [ok |-> TRUE, sock |-> a]
    <2>2. r \in [ok : BOOLEAN, sock : Nat] /\ r.ok /\ r.sock = a /\ results' = Append(results, r)
      BY <1>1, <2>1
    <2> HIDE DEF r
    <2>3. results' \in Seq([ok : BOOLEAN, sock : Nat]) /\ (\A s : Reported(s) => Reported(s)') /\ Reported(r.sock)'
      BY <1>2, <2>2
    <2>4. r.sock = a /\ r.sock' = a
      BY <2>2 DEF r
    <2>5. Reported(a)'
      BY <2>3, <2>4
    <2>6. open' \subseteq open \cup {a} /\ touched' \subseteq touched \cup {a} /\ attempt[a] \in Active
      BY <2>1 DEF Active
    <2> QED
      BY <2>1, <2>3, <2>5, <2>6, AttemptMoves
  <1> QED
    BY <1>3, <1>4, <1>5 DEF AttemptStep

(* After wg.Wait the channel holds every socket but the winner's. *)
LEMMA DrainInv == ASSUME RaceInv, Drain PROVE RaceInv'
  <1>1. /\ drain = "running" /\ (\A a \in Addrs : attempt[a] \notin Active) /\ drain' = "ended" /\ results' = <<>>
        /\ open' = Rest({results[i].sock : i \in {k \in DOMAIN results : results[k].ok}})
        /\ UNCHANGED <<job, at, next, attempt, touched, left>>
    BY DEF Drain
  <1>2. Addrs' = Addrs
    BY <1>1 DEF Addrs
  <1>3. \A s \in open' : s \in open /\ ~Reported(s)
    BY <1>1 DEF Rest, Reported
  <1>4. \A s : ~Pursued(s)
    BY <1>1 DEF Pursued, Active
  <1>5. \A s \in open' : s = left'.sock
    BY <1>1, <1>3, <1>4 DEF RaceInv, SocketsKept
  <1>6. at \in {"filters", "done"}
    BY <1>1 DEF RaceInv, RaceOrder
  <1>7. results' \in Seq([ok : BOOLEAN, sock : Nat])
    BY <1>1
  <1> QED
    BY <1>1, <1>2, <1>5, <1>6, <1>7 DEF RaceInv, DialType, RaceOrder, SocketsKept, GuardKept, GuardedDial

(* The end of the context alone closes nothing. *)
LEMMA RaceIdle ==
  ASSUME RaceInv, UNCHANGED <<job, at, next, attempt, results, drain, open, touched, left>> PROVE RaceInv'
  <1>1. Addrs' = Addrs
    BY DEF Addrs
  <1> QED
    BY <1>1 DEF RaceInv, DialType, RaceOrder, SocketsKept, GuardKept, GuardedDial, Pursued, Reported

(* Every step of a dial keeps its invariant. *)
LEMMA RaceStep == RaceInv /\ [DialerNext]_dialerVars => RaceInv'
  <1> SUFFICES ASSUME RaceInv, [DialerNext]_dialerVars PROVE RaceInv'
    OBVIOUS
  <1>1. CASE Delay
    BY <1>1, DelayInv
  <1>2. CASE Unresolved \/ NoAddressLeft \/ \E ok \in BOOLEAN : DialProxy(ok) \/ Connect(ok) \/ TryAddress(ok)
    BY <1>2, OutsideInv
  <1>3. ASSUME NEW ok \in BOOLEAN, Filters(ok) PROVE RaceInv'
    BY <1>3, FiltersInv
  <1>4. CASE SkipBlocked \/ Launch \/ StaggerResult
    BY <1>4, StaggerInv
  <1>5. CASE TakeResult
    BY <1>5, TakeResultInv
  <1>6. CASE StaggerCancelled \/ AllFailed \/ RaceCancelled
    BY <1>6, GiveUpInv
  <1>7. ASSUME NEW a \in Addrs, AttemptStep(a) PROVE RaceInv'
    BY <1>7, AttemptInv
  <1>8. CASE Drain
    BY <1>8, DrainInv
  <1>9. CASE ContextOver \/ UNCHANGED dialerVars
    BY <1>9, RaceIdle DEF ContextOver, dialerVars, raceVars
  <1> QED
    BY <1>1, <1>2, <1>3, <1>4, <1>5, <1>6, <1>7, <1>8, <1>9 DEF DialerNext, CallerStep

(* How the caller left a race decides what may stay open.                   *)

(* As long as the race runs, the results that wait, and the attempts that   *)
(* may still report, are no more than the last loop takes.                  *)
Unreported == {a \in Addrs : attempt[a] \in Active \cup {"none"}}
Counted ==
  at \in {"delay", "race"} => expects \in Nat /\ Len(results) + Cardinality(Unreported) <= expects

(* Without a race, and after one that failed, nothing is open but what the  *)
(* caller holds.                                                            *)
Calm ==
  /\ exit \in {"", "stagger", "last", "context", "failed"}
  /\ at \in {"delay", "race"} => exit = ""
  /\ exit \in {"", "failed"} /\ at \notin {"delay", "race"} =>
       /\ \A a \in Addrs : attempt[a] \notin Active
       /\ \A s \in open : CASE at = "connect" -> s = 0
                            [] at \in {"filters", "done"} -> s = left.sock
                            [] OTHER -> FALSE
  /\ at \in {"proxy", "connect"} => exit = ""

(* After one that was decided or given up, an attempt has the socket or has *)
(* reported it.                                                             *)
LeftOpen ==
  /\ exit = "context" => over /\ at \in {"sequential", "done"} /\ \A s \in open : Pursued(s) \/ Reported(s)
  /\ exit \in {"stagger", "last"} =>
       at \in {"filters", "done"} /\ \A s \in open : s = left.sock \/ Pursued(s) \/ Reported(s)
  /\ exit = "last" /\ ~job.nic => drain \in {"running", "ended"}

(* One attempt alone wins completed in a race over interfaces. *)
NoneWon ==
  /\ \A a \in Addrs : attempt[a] # "won"
  /\ \A i \in DOMAIN results : ~results[i].ok
OneWinner ==
  job.nic =>
    /\ \A a, b \in Addrs : attempt[a] = "won" /\ attempt[b] = "won" => a = b
    /\ \A i, j \in DOMAIN results : results[i].ok /\ results[j].ok => i = j
    /\ \A a \in Addrs, i \in DOMAIN results : ~(attempt[a] = "won" /\ results[i].ok)
    /\ ~completed => NoneWon
    /\ exit \in {"stagger", "last"} => completed /\ NoneWon

StrayInv == Counted /\ Calm /\ LeftOpen /\ OneWinner

(* The attempts are no more than the addresses. *)
LEMMA UnreportedFinite ==
  ASSUME RaceInv
  PROVE  /\ IsFiniteSet(Unreported) /\ Cardinality(Unreported) \in Nat /\ Addrs = 1 .. Len(job.addrs)
         /\ Cardinality(Unreported) <= Len(job.addrs) /\ Len(job.addrs) \in Nat
  <1>1. Addrs = 1 .. Len(job.addrs) /\ Len(job.addrs) \in Nat
    BY DEF Addrs, RaceInv, DialType
  <1>2. IsFiniteSet(Addrs) /\ Cardinality(Addrs) = Len(job.addrs)
    BY <1>1, FS_Interval
  <1>3. Unreported \in SUBSET Addrs
    BY DEF Unreported
  <1> QED
    BY <1>1, <1>2, <1>3, FS_Subset, FS_CardinalityType

(* The head of the channel is gone. *)
LEMMA Shifted ==
  ASSUME RaceInv, results # <<>>, results' = Tail(results)
  PROVE  /\ Len(results') = Len(results) - 1 /\ Head(results) = results[1] /\ 1 \in DOMAIN results
         /\ \A i \in DOMAIN results' : i + 1 \in DOMAIN results /\ i + 1 # 1 /\ results'[i] = results[i + 1]
         /\ \A i \in DOMAIN results : i # 1 => i - 1 \in DOMAIN results' /\ results'[i - 1] = results[i]
  BY DEF RaceInv, DialType

(* A dial begins without a race. *)
LEMMA StrayStarts == ASSUME DialerInit, RaceInv PROVE StrayInv
  <1>1. Counted
    <2>1. results = <<>> /\ expects = Len(job.addrs)
      BY DEF DialerInit
    <2>2. Len(results) = 0
      BY <2>1
    <2> QED
      BY <2>1, <2>2, UnreportedFinite DEF Counted
  <1>2. /\ at = "delay" /\ attempt = [a \in Addrs |-> "none"] /\ results = <<>> /\ exit = ""
    BY DEF DialerInit
  <1>3. Calm /\ LeftOpen
    BY <1>2 DEF Calm, LeftOpen
  <1>4. OneWinner
    <2>1. \A a \in Addrs : attempt[a] # "won"
      BY <1>2
    <2>2. DOMAIN results = {}
      <3>1. results = <<>> /\ Len(<<>>) = 0
        BY <1>2
      <3>2. results \in Seq([ok : BOOLEAN, sock : Nat])
        BY DEF RaceInv, DialType
      <3>3. DOMAIN results = 1 .. Len(results)
        BY <3>2
      <3> QED
        BY <3>1, <3>3
    <2> QED
      BY <1>2, <2>1, <2>2 DEF OneWinner, NoneWon
  <1> QED
    BY <1>1, <1>3, <1>4 DEF StrayInv

(* Steps of the caller outside of a race. *)
LEMMA StrayOutside ==
  ASSUME RaceInv, StrayInv,
         \/ Delay \/ Unresolved \/ NoAddressLeft
         \/ \E ok \in BOOLEAN : DialProxy(ok) \/ Connect(ok) \/ TryAddress(ok) \/ Filters(ok)
  PROVE  StrayInv'
  <1>1. /\ UNCHANGED <<job, raceVars, over>> /\ Addrs' = Addrs /\ at # "race" /\ at' # "delay"
    BY DEF Delay, Unresolved, NoAddressLeft, DialProxy, Connect, TryAddress, Filters, Moves, Fail, Addrs
  <1>2. at = "delay" => open = {} /\ \A a \in Addrs : attempt[a] = "none"
    BY DEF RaceInv, RaceOrder, DialType, Addrs
  <1>3. Counted'
    <2>1. at' = "race" => at = "delay"
      BY DEF Delay, Unresolved, NoAddressLeft, DialProxy, Connect, TryAddress, Filters, Moves, Fail
    <2>2. Unreported' = Unreported
      BY <1>1 DEF Unreported, raceVars
    <2> QED
      BY <1>1, <2>1, <2>2 DEF StrayInv, Counted, raceVars
  <1>4. OneWinner'
    BY <1>1 DEF StrayInv, OneWinner, NoneWon, raceVars
  <1>5. \A s : (Pursued(s) <=> Pursued(s)') /\ (Reported(s) <=> Reported(s)')
    BY <1>1 DEF Pursued, Reported, raceVars
  <1>6. CASE Delay \/ Unresolved
    <2>1. at = "delay" /\ open' = open /\ exit = ""
      BY <1>6 DEF Delay, Unresolved, Moves, StrayInv, Calm
    <2>2. at' \in {"done", "proxy", "race", "sequential"}
      BY <1>6 DEF Delay, Unresolved, Moves, Fail
    <2> QED
      BY <1>1, <1>2, <1>3, <1>4, <2>1, <2>2 DEF StrayInv, Calm, LeftOpen, raceVars, Active
  <1>7. CASE NoAddressLeft
    <2>1. at = "sequential" /\ at' = "done" /\ open' = open
      BY <1>7 DEF NoAddressLeft, Fail
    <2>2. exit \notin {"stagger", "last"}
      BY <2>1 DEF StrayInv, LeftOpen
    <2> QED
      BY <1>1, <1>3, <1>4, <1>5, <2>1, <2>2 DEF StrayInv, Calm, LeftOpen, raceVars
  <1>8. ASSUME NEW ok \in BOOLEAN, DialProxy(ok) PROVE StrayInv'
    <2>1. at = "proxy" /\ exit = "" /\ at' \in {"connect", "done"}
          /\ (open' = open \/ (at' = "connect" /\ open' = open \cup {0}))
      BY <1>8 DEF DialProxy, Fail, Opened, StrayInv, Calm
    <2> QED
      BY <1>1, <1>3, <1>4, <2>1 DEF StrayInv, Calm, LeftOpen, raceVars
  <1>9. ASSUME NEW ok \in BOOLEAN, Connect(ok) PROVE StrayInv'
    <2>1. at = "connect" /\ exit = "" /\ at' \in {"filters", "done"} /\ left'.sock = 0
          /\ (open' = open \/ open' = open \ {0})
      <3>1. at = "connect" /\ exit = ""
        BY <1>9 DEF Connect, StrayInv, Calm
      <3>2. CASE ok
        <4>1. at' = "filters" /\ left' = [as |-> "", sock |-> 0] /\ open' = open
          BY <1>9, <3>2 DEF Connect
        <4> QED
          BY <3>1, <4>1
      <3>3. CASE ~ok
        <4>1. at' = "done" /\ left' = [as |-> "error", sock |-> 0] /\ open' = open \ {0}
          BY <1>9, <3>3 DEF Connect, Fail
        <4> QED
          BY <3>1, <4>1
      <3> QED
        BY <3>2, <3>3
    <2> QED
      BY <1>1, <1>3, <1>4, <2>1 DEF StrayInv, Calm, LeftOpen, raceVars
  <1>10. ASSUME NEW ok \in BOOLEAN, TryAddress(ok) PROVE StrayInv'
    <2>1. /\ at = "sequential" /\ at' \in {"filters", "sequential"}
          /\ \/ at' = at /\ open' = open /\ left' = left
             \/ at' = "filters" /\ ~over /\ left'.sock = next /\ open' = open \cup {next}
      <3>1. CASE ok
        <4>1. /\ at = "sequential" /\ at' = "filters" /\ ~over /\ left' = [as |-> "", sock |-> next]
              /\ open' = open \cup {next}
          BY <1>10, <3>1 DEF TryAddress, Opened
        <4> QED
          BY <4>1
      <3>2. CASE ~ok
        <4>1. at = "sequential" /\ at' = at /\ open' = open /\ left' = left
          BY <1>10, <3>2 DEF TryAddress
        <4> QED
          BY <4>1
      <3> QED
        BY <3>1, <3>2
    <2>2. exit \in {"", "failed", "context"}
      BY <2>1 DEF StrayInv, Calm, LeftOpen
    <2> QED
      BY <1>1, <1>3, <1>4, <1>5, <2>1, <2>2 DEF StrayInv, Calm, LeftOpen, raceVars
  <1>11. ASSUME NEW ok \in BOOLEAN, Filters(ok) PROVE StrayInv'
    <2>1. /\ at = "filters" /\ at' = "done" 
          /\ \/ open' = open /\ left' = [left EXCEPT !.as = "conn"]
             \/ open' = open \ {left.sock}
      BY <1>11 DEF Filters, Fail
    <2>2. [left EXCEPT !.as = "conn"].sock = left.sock
      OBVIOUS
    <2>3. \A s \in open' : s \in open /\ (s = left.sock => s = left'.sock)
      BY <2>1, <2>2
    <2> QED
      BY <1>1, <1>3, <1>4, <1>5, <2>1, <2>3 DEF StrayInv, Calm, LeftOpen, raceVars
  <1> QED
    BY <1>6, <1>7, <1>8, <1>9, <1>10, <1>11

(* The race goes on. *)
LEMMA StrayRaces ==
  ASSUME RaceInv, StrayInv, at = "race", UNCHANGED <<job, at, exit, over, completed, open, left>>,
         \/ attempt' = attempt
         \/ next \in Addrs /\ attempt' = [attempt EXCEPT ![next] = "dialing"],
         \/ results' = results /\ expects' = expects
         \/ results # <<>> /\ ~Head(results).ok /\ results' = Tail(results) /\ expects' \in {expects, expects - 1},
         expects' # expects => expects > 0
  PROVE  StrayInv'
  <1>1. Addrs' = Addrs /\ attempt \in [Addrs -> AttemptStates] /\ exit = ""
    BY DEF Addrs, RaceInv, DialType, StrayInv, Calm
  <1>2. \A a \in Addrs : attempt'[a] = attempt[a] \/ (attempt[a] = "none" /\ attempt'[a] = "dialing")
    <2>1. next \in Addrs => attempt[next] = "none"
      BY DEF RaceInv, RaceOrder, DialType
    <2> QED
      BY <1>1, <2>1
  <1>3. Unreported' = Unreported
    BY <1>1, <1>2 DEF Unreported, Active
  <1>4. Counted'
    <2>1. Len(results) \in Nat /\ Cardinality(Unreported) \in Nat
      BY UnreportedFinite DEF RaceInv, DialType
    <2> QED
      BY <1>3, <2>1, Shifted DEF StrayInv, Counted
  <1>5. OneWinner'
    <2>1. \A a \in Addrs : attempt'[a] = "won" => attempt[a] = "won"
      BY <1>2
    <2>2. \A i \in DOMAIN results' : \E k \in {0, 1} : i + k \in DOMAIN results /\ results'[i] = results[i + k]
                                       /\ (results' = results <=> k = 0)
      <3>1. CASE results' = results
        BY <3>1 DEF RaceInv, DialType
      <3>2. CASE results # <<>> /\ results' = Tail(results)
        <4>1. results' # results
          <5>1. Len(results) \in Nat /\ Len(results') = Len(results) - 1
            BY <3>2, Shifted DEF RaceInv, DialType
          <5> QED
            BY <5>1
        <4>2. \A i \in DOMAIN results' : i + 1 \in DOMAIN results /\ results'[i] = results[i + 1]
          BY <3>2, Shifted
        <4> QED
          BY <4>1, <4>2
      <3> QED
        BY <3>1, <3>2
    <2>3. \A i \in DOMAIN results' : results'[i].ok =>
            \E k \in {0, 1} : i + k \in DOMAIN results /\ results[i + k].ok /\ (results' = results <=> k = 0)
      BY <2>2
    <2>4. \A i \in DOMAIN results' : i \in Int
      <3>1. results' = results => results' \in Seq([ok : BOOLEAN, sock : Nat])
        BY DEF RaceInv, DialType
      <3>2. results # <<>> /\ results' = Tail(results) => results' \in Seq([ok : BOOLEAN, sock : Nat])
        BY DEF RaceInv, DialType
      <3> QED
        BY <3>1, <3>2
    <2>5. ASSUME job.nic, NEW i \in DOMAIN results', NEW j \in DOMAIN results', results'[i].ok, results'[j].ok
          PROVE  i = j
      <3>1. PICK k \in {0, 1} : i + k \in DOMAIN results /\ results[i + k].ok /\ (results' = results <=> k = 0)
        BY <2>3, <2>5
      <3>2. PICK l \in {0, 1} : j + l \in DOMAIN results /\ results[j + l].ok /\ (results' = results <=> l = 0)
        BY <2>3, <2>5
      <3>3. k = l /\ i + k = j + l
        BY <2>5, <3>1, <3>2 DEF StrayInv, OneWinner
      <3> QED
        BY <2>4, <3>3
    <2>6. /\ job.nic => \A a \in Addrs, i \in DOMAIN results' : ~(attempt'[a] = "won" /\ results'[i].ok)
          /\ NoneWon => NoneWon'
      BY <1>1, <2>1, <2>3 DEF StrayInv, OneWinner, NoneWon
    <2> QED
      BY <1>1, <2>1, <2>5, <2>6 DEF StrayInv, OneWinner
  <1> QED
    BY <1>1, <1>4, <1>5 DEF StrayInv, Calm, LeftOpen

(* The caller leaves the race with a result. *)
LEMMA StrayWon ==
  ASSUME RaceInv, StrayInv, at = "race", UNCHANGED <<job, attempt, over, open>>, at' = "filters",
         results # <<>>, Head(results).ok, results' = Tail(results), left'.sock = Head(results).sock,
         exit' \in {"stagger", "last"}, completed => completed',
         exit' = "last" /\ ~job.nic => drain' = "running"
  PROVE  StrayInv'
  <1>1. Addrs' = Addrs /\ exit = ""
    BY DEF Addrs, StrayInv, Calm
  <1>2. \A s : Reported(s) => s = left'.sock \/ Reported(s)'
    <2> SUFFICES ASSUME NEW s, NEW i \in DOMAIN results, results[i].ok, results[i].sock = s, s # left'.sock
                 PROVE  Reported(s)'
      BY DEF Reported
    <2>1. i # 1
      BY Shifted
    <2> QED
      BY <2>1, Shifted DEF Reported
  <1>3. OneWinner'
    <2> SUFFICES ASSUME job.nic PROVE completed' /\ NoneWon'
      BY <1>1 DEF OneWinner, NoneWon
    <2>1. 1 \in DOMAIN results /\ results[1].ok
      BY Shifted
    <2>2. completed
      BY <2>1 DEF StrayInv, OneWinner, NoneWon
    <2>3. \A a \in Addrs : attempt[a] # "won"
      BY <2>1 DEF StrayInv, OneWinner
    <2>4. \A i \in DOMAIN results' : ~results'[i].ok
      BY <2>1, Shifted DEF StrayInv, OneWinner
    <2> QED
      BY <1>1, <2>2, <2>3, <2>4 DEF NoneWon
  <1>4. \A s \in open : s = left'.sock \/ Pursued(s)' \/ Reported(s)'
    BY <1>1, <1>2 DEF RaceInv, SocketsKept, Pursued
  <1> QED
    BY <1>1, <1>3, <1>4 DEF StrayInv, Counted, Calm, LeftOpen

(* The caller leaves the race without one: if every attempt failed, nothing *)
(* is open.                                                                 *)
LEMMA StrayGivenUp ==
  ASSUME RaceInv, StrayInv, StaggerCancelled \/ AllFailed \/ RaceCancelled PROVE StrayInv'
  <1>1. /\ at = "race" /\ at' \in {"done", "sequential"} /\ Addrs' = Addrs /\ exit = ""
        /\ UNCHANGED <<job, attempt, results, completed, over, open>>
        /\ \/ exit' = "context" /\ over
           \/ exit' = "failed" /\ expects = 0
    BY DEF StaggerCancelled, AllFailed, RaceCancelled, MayStart, GiveUp, AfterRace, Addrs, ContextSeen, StrayInv, Calm
  <1>2. OneWinner'
    BY <1>1 DEF StrayInv, OneWinner, NoneWon
  <1>3. \A s : (Pursued(s) <=> Pursued(s)') /\ (Reported(s) <=> Reported(s)')
    BY <1>1 DEF Pursued, Reported
  <1>4. \A s \in open : Pursued(s) \/ Reported(s)
    BY <1>1 DEF RaceInv, SocketsKept
  <1>5. CASE exit' = "context" /\ over
    BY <1>1, <1>2, <1>3, <1>4, <1>5 DEF StrayInv, Counted, Calm, LeftOpen
  <1>6. CASE exit' = "failed" /\ expects = 0
    <2>1. Len(results) = 0 /\ Cardinality(Unreported) = 0
      <3>1. Len(results) \in Nat /\ Cardinality(Unreported) \in Nat
        BY UnreportedFinite DEF RaceInv, DialType
      <3> QED
        <4>1. Len(results) + Cardinality(Unreported) <= expects
          BY <1>1 DEF StrayInv, Counted
        <4> HIDE DEF Unreported
        <4> QED
          BY <1>6, <3>1, <4>1
    <2>2. Unreported = {}
      BY <2>1, UnreportedFinite, FS_EmptySet
    <2>3. \A a \in Addrs : attempt[a] \notin Active
      BY <2>2 DEF Unreported
    <2>4. DOMAIN results = {}
      BY <2>1 DEF RaceInv, DialType
    <2>5. open = {}
      BY <1>4, <2>3, <2>4 DEF Pursued, Reported, Active
    <2> QED
      BY <1>1, <1>2, <1>6, <2>3, <2>5 DEF StrayInv, Counted, Calm, LeftOpen
  <1> QED
    BY <1>1, <1>5, <1>6

(* A step of the attempt a. *)
LEMMA StrayAttempts ==
  ASSUME RaceInv, StrayInv, NEW a \in Addrs, attempt[a] \in Active, NEW pc \in {"connected", "won", "ended"},
         attempt' = [attempt EXCEPT ![a] = pc], UNCHANGED <<job, at, expects, over, drain, exit, left>>,
         results' = results \/ (pc = "ended" /\ \E r \in [ok : BOOLEAN, sock : Nat] : results' = Append(results, r)),
         \A s : Reported(s) => Reported(s)',
         \A s \in open' : s \in open \/ s = a,
         a \in open' => pc # "ended" \/ Reported(a)' \/ (a \in open /\ attempt[a] = "dialing"),
         OneWinner'
  PROVE  StrayInv'
  <1>1. Addrs' = Addrs /\ attempt \in [Addrs -> AttemptStates] /\ results \in Seq([ok : BOOLEAN, sock : Nat])
    BY DEF Addrs, RaceInv, DialType
  <1>2. \A b \in Addrs : attempt'[b] = IF b = a THEN pc ELSE attempt[b]
    BY <1>1
  <1>3. a \in Unreported /\ Unreported' = IF pc = "ended" THEN Unreported \ {a} ELSE Unreported
    BY <1>1, <1>2 DEF Unreported, Active
  <1>4. Counted'
    <2>1. IsFiniteSet(Unreported) /\ Cardinality(Unreported) \in Nat /\ Len(results) \in Nat
      BY <1>1, UnreportedFinite
    <2>2. Cardinality(Unreported \ {a}) = Cardinality(Unreported) - 1
      BY <1>3, <2>1, FS_RemoveElement
    <2>3. Len(results') = Len(results) \/ (pc = "ended" /\ Len(results') = Len(results) + 1)
      BY <1>1
    <2> QED
      BY <1>3, <2>1, <2>2, <2>3 DEF StrayInv, Counted
  <1>5. exit \notin {"", "failed"} \/ at \in {"delay", "race"}
    BY DEF StrayInv, Calm
  <1>6. \A s : Pursued(s) => s = a \/ Pursued(s)'
    BY <1>1, <1>2 DEF Pursued
  <1>7. a \in open' => Pursued(a)' \/ Reported(a)' \/ (a \in open /\ attempt[a] = "dialing")
    BY <1>1, <1>2 DEF Pursued
  <1>8. attempt[a] = "dialing" => ~Pursued(a)
    BY DEF Pursued
  <1>9. LeftOpen'
    BY <1>6, <1>7, <1>8 DEF StrayInv, LeftOpen
  <1> QED
    BY <1>4, <1>5, <1>9 DEF StrayInv, Calm

(* The goroutine of an address: the CompareAndSwap of completed lets one    *)
(* attempt of a race over interfaces report.                                *)
LEMMA StrayAttempt == ASSUME RaceInv, StrayInv, NEW a \in Addrs, AttemptStep(a) PROVE StrayInv'
  <1>1. /\ results \in Seq([ok : BOOLEAN, sock : Nat]) /\ a \in Nat /\ Addrs' = Addrs
        /\ attempt \in [Addrs -> AttemptStates]
    <2>1. job' = job
      BY DEF AttemptStep, AttemptJudges, AttemptSends, AttemptDials
    <2> QED
      BY <2>1 DEF RaceInv, DialType, Addrs
  <1>2. ASSUME NEW r \in [ok : BOOLEAN, sock : Nat], results' = Append(results, r)
        PROVE  /\ \A s : Reported(s) => Reported(s)'
               /\ Len(results) + 1 \in DOMAIN results' /\ results'[Len(results) + 1] = r
               /\ \A i \in DOMAIN results' : i = Len(results) + 1 \/ (i \in DOMAIN results /\ results'[i] = results[i])
    <2>1. \A i \in DOMAIN results : i \in DOMAIN results' /\ results'[i] = results[i]
      BY <1>1, <1>2
    <2> QED
      BY <1>1, <1>2, <2>1 DEF Reported
  <1>3. ASSUME NEW ok \in BOOLEAN, AttemptDials(a, ok) PROVE StrayInv'
    <2>1. attempt[a] = "dialing" /\ UNCHANGED <<job, at, expects, over, drain, exit, left, completed>>
      BY <1>3 DEF AttemptDials
    <2>2. CASE ok
      <3>1. attempt' = [attempt EXCEPT ![a] = "connected"] /\ open' = open \cup {a} /\ results' = results
        BY <1>3, <2>2 DEF AttemptDials, Opened
      <3>2. \A s : Reported(s) => Reported(s)'
        BY <3>1 DEF Reported
      <3>3. OneWinner'
        BY <1>1, <2>1, <3>1 DEF StrayInv, OneWinner, NoneWon
      <3>4. attempt[a] \in Active
        BY <2>1 DEF Active
      <3> QED
        BY <2>1, <3>1, <3>2, <3>3, <3>4, StrayAttempts
    <2>3. CASE ~ok
      <3> DEFINE r == [ok |-> FALSE, sock |-> 0]
      <3>1. attempt' = [attempt EXCEPT ![a] = "ended"] /\ open' = open /\ results' = Append(results, r)
        BY <1>3, <2>3 DEF AttemptDials
      <3>2. r \in [ok : BOOLEAN, sock : Nat] /\ ~r.ok
        OBVIOUS
      <3>3. /\ \A b \in Addrs : attempt'[b] = "won" => attempt[b] = "won"
            /\ \A i \in DOMAIN results' : results'[i].ok => i \in DOMAIN results /\ results[i].ok
        BY <1>1, <1>2, <3>1, <3>2
      <3>4. OneWinner'
        BY <1>1, <2>1, <3>3 DEF StrayInv, OneWinner, NoneWon
      <3>5. attempt[a] \in Active
        BY <2>1 DEF Active
      <3>6. \A s : Reported(s) => Reported(s)'
        BY <1>2, <3>1, <3>2
      <3> HIDE DEF r
      <3> QED
        BY <2>1, <3>1, <3>2, <3>4, <3>5, <3>6, StrayAttempts
    <2> QED
      BY <2>2, <2>3
  <1>4. CASE AttemptJudges(a)
    <2> DEFINE wins == IF job.nic THEN ~completed ELSE ~cancelled /\ ~over
    <2>1. /\ attempt[a] = "connected" /\ UNCHANGED <<job, at, expects, over, drain, exit, left, results>>
          /\ attempt' = [attempt EXCEPT ![a] = IF wins THEN "won" ELSE "ended"]
          /\ completed' = (completed \/ (job.nic /\ wins))
          /\ open' = IF wins THEN open ELSE open \ {a}
      BY <1>4 DEF AttemptJudges
    <2>2. \A s : Reported(s) => Reported(s)'
      BY <2>1 DEF Reported
    <2>3. OneWinner'
      <3> SUFFICES ASSUME job.nic PROVE OneWinner'
        BY <2>1 DEF OneWinner
      <3>1. CASE completed
        BY <1>1, <2>1, <3>1 DEF StrayInv, OneWinner, NoneWon
      <3>2. CASE ~completed
        <4>1. /\ NoneWon /\ exit \notin {"stagger", "last"} /\ completed'
              /\ \A b \in Addrs : attempt'[b] = "won" => b = a
          BY <1>1, <2>1, <3>2 DEF StrayInv, OneWinner, NoneWon
        <4> QED
          BY <1>1, <2>1, <4>1 DEF OneWinner, NoneWon
      <3> QED
        BY <3>1, <3>2
    <2>4. attempt[a] \in Active
      BY <2>1 DEF Active
    <2>5. CASE wins
      BY <2>1, <2>2, <2>3, <2>4, <2>5, StrayAttempts
    <2>6. CASE ~wins
      BY <2>1, <2>2, <2>3, <2>4, <2>6, StrayAttempts
    <2> QED
      BY <2>5, <2>6
  <1>5. CASE AttemptSends(a)
    <2> DEFINE r == [ok |-> TRUE, sock |-> a]
    <2>1. /\ attempt[a] = "won" /\ UNCHANGED <<job, at, expects, over, drain, exit, left, completed, open>>
          /\ attempt' = [attempt EXCEPT ![a] = "ended"] /\ results' = Append(results, r)
      BY <1>5 DEF AttemptSends
    <2>2. r \in [ok : BOOLEAN, sock : Nat] /\ r.ok /\ r.sock = a
      BY <1>1
    <2>3. OneWinner'
      <3> SUFFICES ASSUME job.nic PROVE OneWinner'
        BY <2>1 DEF OneWinner
      <3>1. /\ \A i \in DOMAIN results : ~results[i].ok
            /\ completed /\ exit \notin {"stagger", "last"}
            /\ \A b \in Addrs : attempt[b] = "won" => b = a
        BY <2>1 DEF StrayInv, OneWinner, NoneWon
      <3>2. \A i \in DOMAIN results' : results'[i].ok => i = Len(results) + 1
        BY <1>2, <2>1, <2>2, <3>1
      <3>3. \A b \in Addrs : attempt'[b] # "won"
        BY <1>1, <2>1, <3>1
      <3> QED
        BY <1>1, <2>1, <3>1, <3>2, <3>3 DEF OneWinner
    <2>4. attempt[a] \in Active
      BY <2>1 DEF Active
    <2>5. \A s : Reported(s) => Reported(s)'
      BY <1>2, <2>1, <2>2
    <2>6. Reported(a)'
      <3>1. Len(results) + 1 \in DOMAIN results' /\ results'[Len(results) + 1] = r
        BY <1>2, <2>1, <2>2
      <3> QED
        BY <2>2, <3>1 DEF Reported
    <2> HIDE DEF r
    <2> QED
      BY <2>1, <2>2, <2>3, <2>4, <2>5, <2>6, StrayAttempts
  <1> QED
    BY <1>3, <1>4, <1>5 DEF AttemptStep

(* The drain closes what the channel holds. *)
LEMMA StrayDrained == ASSUME RaceInv, StrayInv, Drain PROVE StrayInv'
  <1>1. /\ drain = "running" /\ drain' = "ended" /\ results' = <<>>
        /\ open' = Rest({results[i].sock : i \in {k \in DOMAIN results : results[k].ok}})
        /\ UNCHANGED <<job, at, attempt, expects, completed, over, exit, left>> /\ Addrs' = Addrs
    BY DEF Drain, Addrs
  <1>2. at \in {"filters", "done"} /\ DOMAIN results' = {}
    BY <1>1 DEF RaceInv, RaceOrder
  <1>3. \A s \in open' : s \in open /\ ~Reported(s)
    BY <1>1 DEF Rest, Reported
  <1>4. \A s : Pursued(s) <=> Pursued(s)'
    BY <1>1 DEF Pursued
  <1>5. OneWinner'
    BY <1>1, <1>2 DEF StrayInv, OneWinner, NoneWon
  <1> QED
    BY <1>1, <1>2, <1>3, <1>4, <1>5 DEF StrayInv, Counted, Calm, LeftOpen

(* Every step of a dial keeps it. *)
LEMMA StrayStep == RaceInv /\ StrayInv /\ [DialerNext]_dialerVars => StrayInv'
  <1> SUFFICES ASSUME RaceInv, StrayInv, [DialerNext]_dialerVars PROVE StrayInv'
    OBVIOUS
  <1>1. CASE \/ Delay \/ Unresolved \/ NoAddressLeft
             \/ \E ok \in BOOLEAN : DialProxy(ok) \/ Connect(ok) \/ TryAddress(ok) \/ Filters(ok)
    BY <1>1, StrayOutside
  <1>2. CASE SkipBlocked
    BY <1>2, StrayRaces DEF SkipBlocked, raceVars
  <1>3. CASE Launch
    BY <1>3, StrayRaces DEF Launch, MayStart, Proceed, Start
  <1>4. CASE StaggerResult /\ ~Head(results).ok
    BY <1>4, StrayRaces DEF StaggerResult, MayStart, Proceed, Start
  <1>5. CASE StaggerResult /\ Head(results).ok
    <2> DEFINE s == Head(results).sock
    <2>1. /\ at = "race" /\ UNCHANGED <<job, attempt, over, open>> /\ at' = "filters"
          /\ results # <<>> /\ results' = Tail(results) /\ left' = [as |-> "", sock |-> s]
          /\ exit' = "stagger" /\ completed' = TRUE
      BY <1>5 DEF StaggerResult, MayStart
    <2>2. left'.sock = s
      BY <2>1
    <2> HIDE DEF s
    <2> QED
      BY <1>5, <2>1, <2>2, StrayWon DEF s
  <1>6. CASE TakeResult /\ ~Head(results).ok
    BY <1>6, StrayRaces DEF TakeResult
  <1>7. CASE TakeResult /\ Head(results).ok
    <2> DEFINE s == Head(results).sock
    <2>1. /\ at = "race" /\ UNCHANGED <<job, attempt, over, open>> /\ at' = "filters"
          /\ results # <<>> /\ results' = Tail(results) /\ left' = [as |-> "", sock |-> s]
          /\ exit' = "last" /\ completed' = completed /\ (~job.nic => drain' = "running")
      BY <1>7 DEF TakeResult
    <2>2. left'.sock = s
      BY <2>1
    <2> HIDE DEF s
    <2> QED
      BY <1>7, <2>1, <2>2, StrayWon DEF s
  <1>8. CASE StaggerCancelled \/ AllFailed \/ RaceCancelled
    BY <1>8, StrayGivenUp
  <1>9. ASSUME NEW a \in Addrs, AttemptStep(a) PROVE StrayInv'
    BY <1>9, StrayAttempt
  <1>10. CASE Drain
    BY <1>10, StrayDrained
  <1>11. CASE ContextOver \/ UNCHANGED dialerVars
    <2>1. /\ UNCHANGED <<job, at, raceVars, open, left>> /\ Addrs' = Addrs /\ (over => over')
      BY <1>11 DEF ContextOver, dialerVars, raceVars, Addrs
    <2>2. Unreported' = Unreported /\ \A s : (Pursued(s) <=> Pursued(s)') /\ (Reported(s) <=> Reported(s)')
      BY <2>1 DEF Unreported, Pursued, Reported, raceVars
    <2> QED
      BY <2>1, <2>2 DEF StrayInv, Counted, Calm, LeftOpen, OneWinner, NoneWon, raceVars
  <1> QED
    BY <1>1, <1>2, <1>3, <1>4, <1>5, <1>6, <1>7, <1>8, <1>9, <1>10, <1>11 DEF DialerNext, CallerStep

(* What the invariants say of a race that is over. *)
LEMMA RaceEnds == RaceInv /\ StrayInv => LosersClosed
  <1> SUFFICES ASSUME RaceInv, StrayInv, RaceOver
               PROVE  /\ Losers # {} => exit = "context" \/ (exit = "stagger" /\ ~job.nic)
                      /\ job.nic => \A s, t \in Losers : s = t
    BY DEF LosersClosed
  <1>1. \A s : ~Pursued(s)
    BY DEF RaceOver, Pursued, Active
  <1>2. ASSUME NEW s \in Losers PROVE Reported(s) /\ (exit = "context" \/ (exit = "stagger" /\ ~job.nic))
    <2>1. s \in open /\ s # left.sock
      BY DEF Losers
    <2>2. exit \in {"stagger", "last", "context"}
      BY <2>1 DEF RaceOver, StrayInv, Calm
    <2>3. Reported(s)
      BY <1>1, <2>1, <2>2 DEF StrayInv, LeftOpen
    <2>4. exit = "last" /\ ~job.nic => drain = "ended"
      BY DEF StrayInv, LeftOpen, RaceOver
    <2>5. drain # "ended"
      BY <2>3 DEF RaceInv, RaceOrder, Reported
    <2>6. ~(exit \in {"stagger", "last"} /\ job.nic)
      BY <2>3 DEF StrayInv, OneWinner, NoneWon, Reported
    <2> QED
      BY <2>2, <2>3, <2>4, <2>5, <2>6
  <1>3. ASSUME job.nic, NEW s \in Losers, NEW t \in Losers PROVE s = t
    BY <1>2, <1>3 DEF Reported, StrayInv, OneWinner
  <1> QED
    BY <1>2, <1>3

(* For any dial to any addresses: a dial leaves no socket open but the       *)
(* winner's, on every way out but the two that drain nothing, and the SSRF   *)
(* guard of netdial.DialL4 holds on every path.                              *)
THEOREM DialsLeaveOneSocket == DialerSpec => [](LosersClosed /\ GuardedDial)
  <1>1. RaceInv /\ StrayInv => LosersClosed /\ GuardedDial
    BY RaceEnds DEF RaceInv
  <1>2. DialerInit => RaceInv /\ StrayInv
    BY RaceStarts, StrayStarts
  <1> QED
    BY <1>1, <1>2, RaceStep, StrayStep, PTL DEF DialerSpec
-----------------------------------------------------------------------------
(* The HTTP/3 engine. *)

ToDial == {"dial", "publish"}

H3Type ==
  /\ DOMAIN h3pc = H3Requests /\ DOMAIN cc = H3Requests /\ aim \in [H3Requests -> H3Origins]
  /\ h3conn \in Seq({"open", "closed"}) /\ conns \in [H3Origins -> 0 .. Len(h3conn)]
  /\ DOMAIN h3dials = H3Origins
  /\ \A r \in H3Requests : h3pc[r] = "publish" => cc[r] \in 0 .. Len(h3conn)

(* One request dials for an origin, which has no open connection then; a     *)
(* closed engine forgets its dials but starts none.                          *)
OneDialer ==
  /\ \A r, s \in H3Requests : h3pc[r] \in ToDial /\ h3pc[s] \in ToDial /\ aim[r] = aim[s] => r = s
  /\ \A r \in H3Requests : h3pc[r] \in ToDial /\ ~h3closed => h3dials[aim[r]] = r /\ ~H3Open(conns[aim[r]])

EmptyWhenClosed == h3closed => \A o \in H3Origins : conns[o] = NoH3Conn

InHand(c) ==
  \/ c \in Pooled3
  \/ fixed /\ c = 1
  \/ \E r \in H3Requests : cc[r] = c /\ h3pc[r] \in {"publish", "abandon"}

OpenInHand == \A c \in DOMAIN h3conn : h3conn[c] = "open" => InHand(c)

ObjectsHeld == held \subseteq H3Requests /\ \A r \in held : h3pc[r] \in {"exchange", "body"}

H3Inv == H3Type /\ OneDialer /\ EmptyWhenClosed /\ OpenInHand /\ ObjectsHeld

(* The invariant of the engine says what NoStrayH3Conn does. *)
LEMMA H3Promises == H3Inv => NoStrayH3Conn
  <1> SUFFICES ASSUME H3Inv PROVE NoStrayH3Conn
    OBVIOUS
  <1>1. h3closed => Pooled3 = {}
    BY DEF H3Inv, EmptyWhenClosed, Pooled3
  <1>2. \A c \in DOMAIN h3conn : h3conn[c] = "open" =>
          \/ c \in Pooled3 /\ ~h3closed
          \/ fixed /\ c = 1
          \/ \E r \in H3Requests : cc[r] = c /\ h3pc[r] \in {"publish", "abandon"}
    BY <1>1 DEF H3Inv, OpenInHand, InHand
  <1>3. \A r, s \in H3Requests : h3pc[r] = "dial" /\ h3pc[s] = "dial" /\ aim[r] = aim[s] => r = s
    BY DEF H3Inv, OneDialer, ToDial
  <1> QED
    BY <1>2, <1>3 DEF H3Inv, ObjectsHeld, NoStrayH3Conn

(* A new engine has at most the connection it was given. *)
LEMMA H3Starts == H3Init => H3Inv
  <1> SUFFICES ASSUME H3Init PROVE H3Inv
    OBVIOUS
  <1>1. h3conn \in Seq({"open", "closed"}) /\ Len(h3conn) \in Nat /\ (h3conn # <<>> => fixed /\ Len(h3conn) = 1)
    <2>1. CASE h3conn = <<"open">> /\ fixed
      BY <2>1
    <2>2. CASE h3conn = <<>>
      BY <2>2
    <2> QED
      BY <2>1, <2>2 DEF H3Init
  <1>2. H3Type
    BY <1>1 DEF H3Init, H3Type, NoH3Conn
  <1>3. OpenInHand
    <2>1. \A c \in DOMAIN h3conn : fixed /\ c = 1
      BY <1>1
    <2> QED
      BY <2>1 DEF OpenInHand, InHand
  <1> QED
    BY <1>2, <1>3 DEF H3Init, H3Inv, OneDialer, EmptyWhenClosed, ObjectsHeld, ToDial

(* At most the connection of the request r is another. *)
Keeps(r) == DOMAIN cc' = H3Requests /\ \A s \in H3Requests \ {r} : cc'[s] = cc[s]

(* A request moves on with the pool and the connections left alone. *)
Passes(r, pc) ==
  /\ h3pc[r] \notin ToDial \cup {"abandon"} /\ pc \notin ToDial
  /\ h3pc' = [h3pc EXCEPT ![r] = pc] /\ Keeps(r)
  /\ UNCHANGED <<aim, conns, h3dials, h3conn, fixed, h3closed>>
  /\ held' \subseteq held \cup {r} /\ (r \in held' => pc \in {"exchange", "body"})

(* Such a step disturbs nobody. *)
LEMMA H3Moves ==
  ASSUME H3Inv, NEW r \in H3Requests, NEW pc, Passes(r, pc)
  PROVE  H3Inv'
  <1> USE DEF Passes
  <1>1. /\ DOMAIN h3pc' = H3Requests /\ DOMAIN cc' = H3Requests
        /\ \A s \in H3Requests : h3pc'[s] = (IF s = r THEN pc ELSE h3pc[s]) /\ (s # r => cc'[s] = cc[s])
    BY DEF H3Inv, H3Type, Keeps
  <1>2. H3Type'
    BY <1>1 DEF H3Inv, H3Type, ToDial
  <1>3. OneDialer'
    BY <1>1 DEF H3Inv, OneDialer, H3Open
  <1>4. EmptyWhenClosed'
    BY DEF H3Inv, EmptyWhenClosed
  <1>5. OpenInHand'
    <2>1. Pooled3' = Pooled3
      BY DEF Pooled3
    <2>2. ASSUME NEW d, InHand(d) PROVE InHand(d)'
      BY <1>1, <2>1, <2>2 DEF InHand, ToDial
    <2> QED
      BY <2>2 DEF H3Inv, OpenInHand
  <1>6. ObjectsHeld'
    BY <1>1 DEF H3Inv, ObjectsHeld
  <1> QED
    BY <1>2, <1>3, <1>4, <1>5, <1>6 DEF H3Inv

(* Lookups under the read lock, waits and exchanges. *)
LEMMA H3RequestInv ==
  ASSUME H3Inv, NEW r \in H3Requests,
         \/ H3Lookup(r) \/ H3WaitCancelled(r) \/ WaitDone(r) \/ CloseBody(r)
         \/ \E ok \in BOOLEAN : Populate(r, ok) \/ H3Do(r, ok)
  PROVE  H3Inv'
  <1>1. cc' = cc \/ (\E c : cc' = [cc EXCEPT ![r] = c]) => Keeps(r)
    BY DEF H3Inv, H3Type, Keeps
  <1>2. h3pc[r] \in {"start", "lock", "wait"} => r \notin held
    BY DEF H3Inv, ObjectsHeld
  <1>3. CASE H3Lookup(r)
    <2>1. /\ h3pc[r] = "start" /\ UNCHANGED <<aim, conns, h3dials, h3conn, fixed, h3closed, held>>
          /\ \E pc \in {"failed", "exchange", "lock"} : h3pc' = [h3pc EXCEPT ![r] = pc]
      BY <1>3 DEF H3Lookup, H3Goes, Found
    <2>2. Keeps(r)
      BY <1>1, <1>3 DEF H3Lookup, Found
    <2>3. \E pc : Passes(r, pc)
      BY <1>2, <2>1, <2>2 DEF Passes, ToDial
    <2> QED
      BY <2>3, H3Moves
  <1>4. CASE H3WaitCancelled(r)
    <2>1. /\ h3pc[r] = "wait" /\ h3pc' = [h3pc EXCEPT ![r] = "failed"]
          /\ UNCHANGED <<aim, cc, conns, h3dials, h3conn, fixed, h3closed, held>>
      BY <1>4 DEF H3WaitCancelled, H3Goes
    <2>2. Keeps(r) /\ r \notin held'
      BY <1>1, <1>2, <2>1
    <2>3. \E pc : Passes(r, pc)
      BY <2>1, <2>2 DEF Passes, ToDial
    <2> QED
      BY <2>3, H3Moves
  <1>5. CASE WaitDone(r)
    <2>1. /\ h3pc[r] = "wait" /\ UNCHANGED <<aim, conns, h3dials, h3conn, fixed, h3closed, held>>
          /\ \E pc \in {"failed", "exchange", "lock"} : h3pc' = [h3pc EXCEPT ![r] = pc]
      BY <1>5 DEF WaitDone, H3Goes
    <2>2. Keeps(r)
      BY <1>1, <1>5 DEF WaitDone
    <2>3. \E pc : Passes(r, pc)
      BY <1>2, <2>1, <2>2 DEF Passes, ToDial
    <2> QED
      BY <2>3, H3Moves
  <1>6. CASE CloseBody(r)
    <2>1. /\ h3pc[r] = "body" /\ h3pc' = [h3pc EXCEPT ![r] = "closed"] /\ held' = held \ {r}
          /\ UNCHANGED <<aim, cc, conns, h3dials, h3conn, fixed, h3closed>>
      BY <1>6 DEF CloseBody, H3Goes
    <2>2. Keeps(r) /\ held' \subseteq held \cup {r} /\ r \notin held'
      BY <1>1, <2>1
    <2>3. \E pc : Passes(r, pc)
      BY <2>1, <2>2 DEF Passes, ToDial
    <2> QED
      BY <2>3, H3Moves
  <1>7. ASSUME NEW ok \in BOOLEAN, Populate(r, ok) PROVE H3Inv'
    <2>1. /\ h3pc[r] = "exchange" /\ r \notin held /\ UNCHANGED <<aim, cc, conns, h3dials, h3conn, fixed, h3closed>>
          /\ held' = (IF ok THEN held \cup {r} ELSE held)
          /\ h3pc' = [h3pc EXCEPT ![r] = IF ok THEN "exchange" ELSE "failed"]
      BY <1>7 DEF Populate, H3Goes
    <2>2. Keeps(r) /\ held' \subseteq held \cup {r} /\ (r \in held' => ok)
      BY <1>1, <2>1
    <2> DEFINE pc == IF ok THEN "exchange" ELSE "failed"
    <2>3. Passes(r, pc)
      BY <2>1, <2>2 DEF Passes, ToDial
    <2> QED
      BY <2>3, H3Moves
  <1>8. ASSUME NEW ok \in BOOLEAN, H3Do(r, ok) PROVE H3Inv'
    <2>1. /\ h3pc[r] = "exchange" /\ UNCHANGED <<aim, cc, conns, h3dials, h3conn, fixed, h3closed>>
          /\ held' = (IF ok THEN held ELSE held \ {r})
          /\ h3pc' = [h3pc EXCEPT ![r] = IF ok THEN "body" ELSE "failed"]
      BY <1>8 DEF H3Do, H3Goes
    <2>2. Keeps(r) /\ held' \subseteq held \cup {r} /\ (r \in held' => ok)
      BY <1>1, <2>1
    <2> DEFINE pc == IF ok THEN "body" ELSE "failed"
    <2>3. Passes(r, pc)
      BY <2>1, <2>2 DEF Passes, ToDial
    <2> QED
      BY <2>3, H3Moves
  <1> QED
    BY <1>3, <1>4, <1>5, <1>6, <1>7, <1>8

(* Under the lock a request becomes the dialer only if there is none. *)
LEMMA H3LockInv == ASSUME H3Inv, NEW r \in H3Requests, H3Lock(r) PROVE H3Inv'
  <1> DEFINE o == aim[r]
  <1>1. /\ cc' = cc \/ (\E c : cc' = [cc EXCEPT ![r] = c]) => Keeps(r)
        /\ r \notin held
    BY DEF H3Inv, H3Type, Keeps, ObjectsHeld, H3Lock
  <1>2. h3pc[r] = "lock" /\ UNCHANGED <<aim, conns, h3conn, fixed, h3closed, held>>
    BY DEF H3Lock
  <1>3. CASE /\ ~h3closed /\ ~H3Open(conns[o]) /\ ~InFlightDial(o)
             /\ h3dials' = [h3dials EXCEPT ![o] = r] /\ h3pc' = [h3pc EXCEPT ![r] = "dial"] /\ cc' = cc
    <2>1. /\ DOMAIN h3pc' = H3Requests /\ h3pc'[r] = "dial" /\ \A s \in H3Requests \ {r} : h3pc'[s] = h3pc[s]
      BY <1>3 DEF H3Inv, H3Type
    <2>2. o \in H3Origins /\ DOMAIN h3dials' = H3Origins /\ h3dials'[o] = r
          /\ \A p \in H3Origins \ {o} : h3dials'[p] = h3dials[p]
      BY <1>3 DEF H3Inv, H3Type
    <2>3. H3Type'
      BY <1>2, <1>3, <2>1, <2>2 DEF H3Inv, H3Type
    <2>4. \A s \in H3Requests : h3pc[s] \in ToDial => aim[s] # o
      BY <1>3, H3Assumption DEF H3Inv, OneDialer, InFlightDial
    <2>5. OneDialer'
      <3>1. \A s, t \in H3Requests : h3pc'[s] \in ToDial /\ h3pc'[t] \in ToDial /\ aim[s] = aim[t] => s = t
        BY <2>1, <2>4 DEF H3Inv, OneDialer
      <3>2. \A s \in H3Requests : h3pc'[s] \in ToDial => h3dials'[aim[s]] = s /\ ~H3Open(conns[aim[s]])
        BY <1>3, <2>1, <2>2, <2>4 DEF H3Inv, H3Type, OneDialer
      <3> QED
        BY <1>2, <3>1, <3>2 DEF OneDialer, H3Open
    <2>6. OpenInHand'
      <3>1. ASSUME NEW d, InHand(d) PROVE InHand(d)'
        BY <1>2, <1>3, <2>1, <3>1 DEF InHand, Pooled3
      <3> QED
        BY <1>2, <3>1 DEF H3Inv, OpenInHand
    <2>7. EmptyWhenClosed' /\ ObjectsHeld'
      BY <1>1, <1>2, <2>1 DEF H3Inv, EmptyWhenClosed, ObjectsHeld
    <2> QED
      BY <2>3, <2>5, <2>6, <2>7 DEF H3Inv
  <1>4. CASE /\ h3dials' = h3dials
             /\ \E pc \in {"failed", "exchange", "wait"} : h3pc' = [h3pc EXCEPT ![r] = pc]
             /\ Keeps(r)
    <2>1. \E pc : Passes(r, pc)
      BY <1>1, <1>2, <1>4 DEF Passes, ToDial
    <2> QED
      BY <2>1, H3Moves
  <1> QED
    BY <1>1, <1>3, <1>4 DEF H3Lock, Found, H3Goes

(* The dialer returns with a connection or without one. *)
LEMMA H3DialInv == ASSUME H3Inv, NEW r \in H3Requests, NEW ok \in BOOLEAN, H3Dial(r, ok) PROVE H3Inv'
  <1>1. /\ h3pc[r] = "dial" /\ h3conn' = (IF ok THEN Append(h3conn, "open") ELSE h3conn)
        /\ cc' = [cc EXCEPT ![r] = IF ok THEN Len(h3conn) + 1 ELSE NoH3Conn]
        /\ h3pc' = [h3pc EXCEPT ![r] = "publish"]
        /\ UNCHANGED <<aim, conns, h3dials, fixed, h3closed, held>>
    BY DEF H3Dial, H3Goes
  <1>2. /\ DOMAIN h3pc' = H3Requests /\ DOMAIN cc' = H3Requests
        /\ \A s \in H3Requests \ {r} : h3pc'[s] = h3pc[s] /\ cc'[s] = cc[s]
        /\ h3pc'[r] = "publish" /\ cc'[r] = (IF ok THEN Len(h3conn) + 1 ELSE 0)
    BY <1>1 DEF H3Inv, H3Type, NoH3Conn
  <1>3. h3conn \in Seq({"open", "closed"}) /\ Len(h3conn) \in Nat /\ conns \in [H3Origins -> 0 .. Len(h3conn)]
        /\ aim \in [H3Requests -> H3Origins]
    BY DEF H3Inv, H3Type
  <1>4. /\ h3conn' \in Seq({"open", "closed"}) /\ Len(h3conn') = (IF ok THEN Len(h3conn) + 1 ELSE Len(h3conn))
        /\ \A c \in 1 .. Len(h3conn) : h3conn'[c] = h3conn[c]
    BY <1>1, <1>3
  <1>5. H3Type'
    <2>1. conns \in [H3Origins -> 0 .. Len(h3conn')] /\ cc'[r] \in 0 .. Len(h3conn')
      BY <1>2, <1>3, <1>4
    <2>2. \A s \in H3Requests \ {r} : h3pc'[s] = "publish" => cc'[s] \in 0 .. Len(h3conn')
      BY <1>2, <1>3, <1>4 DEF H3Inv, H3Type
    <2> QED
      BY <1>1, <1>2, <1>4, <2>1, <2>2 DEF H3Inv, H3Type
  <1>6. \A o \in H3Origins : H3Open(conns[o])' <=> H3Open(conns[o])
    <2>1. \A o \in H3Origins : conns[o] = 0 \/ conns[o] \in 1 .. Len(h3conn)
      BY <1>3
    <2> QED
      BY <1>1, <1>4, <2>1 DEF H3Open, NoH3Conn
  <1>7. OneDialer'
    BY <1>1, <1>2, <1>3, <1>6 DEF H3Inv, OneDialer, ToDial
  <1>8. OpenInHand'
    <2>1. ASSUME NEW c \in DOMAIN h3conn', h3conn'[c] = "open" PROVE InHand(c)'
      <3>1. c \in 1 .. Len(h3conn) \/ (ok /\ c = Len(h3conn) + 1)
        BY <1>3, <1>4
      <3>2. CASE c \in 1 .. Len(h3conn)
        <4>1. InHand(c)
          BY <1>3, <1>4, <2>1, <3>2 DEF H3Inv, OpenInHand
        <4> QED
          BY <1>1, <1>2, <4>1 DEF InHand, Pooled3
      <3>3. CASE ok /\ c = Len(h3conn) + 1
        BY <1>2, <3>3 DEF InHand
      <3> QED
        BY <3>1, <3>2, <3>3
    <2> QED
      BY <2>1 DEF OpenInHand
  <1>9. EmptyWhenClosed' /\ ObjectsHeld'
    BY <1>1, <1>2 DEF H3Inv, EmptyWhenClosed, ObjectsHeld
  <1> QED
    BY <1>5, <1>7, <1>8, <1>9 DEF H3Inv

(* The dialer publishes its connection in place of none that is open, or    *)
(* keeps it when the engine was closed.                                     *)
LEMMA PublishInv == ASSUME H3Inv, NEW r \in H3Requests, Publish(r) PROVE H3Inv'
  <1> DEFINE o == aim[r]
             taken3 == cc[r] # NoH3Conn /\ ~h3closed
  <1>1. /\ h3pc[r] = "publish" /\ h3dials' = [h3dials EXCEPT ![o] = Nobody]
        /\ UNCHANGED <<aim, cc, h3conn, fixed, h3closed, held>>
        /\ conns' = (IF taken3 THEN [conns EXCEPT ![o] = cc[r]] ELSE conns)
        /\ h3pc' = [h3pc EXCEPT ![r] = IF cc[r] = NoH3Conn THEN "failed" ELSE IF h3closed THEN "abandon" ELSE "exchange"]
    BY DEF Publish, SeenClosed, H3Goes
  <1>2. /\ o \in H3Origins /\ aim \in [H3Requests -> H3Origins] /\ cc[r] \in 0 .. Len(h3conn)
        /\ h3conn \in Seq({"open", "closed"}) /\ conns \in [H3Origins -> 0 .. Len(h3conn)]
    BY <1>1 DEF H3Inv, H3Type
  <1>3. /\ DOMAIN h3pc' = H3Requests /\ DOMAIN h3dials' = H3Origins /\ h3pc'[r] \notin ToDial
        /\ \A s \in H3Requests \ {r} : h3pc'[s] = h3pc[s]
        /\ \A p \in H3Origins \ {o} : h3dials'[p] = h3dials[p]
    BY <1>1, <1>2 DEF H3Inv, H3Type, ToDial
  <1>4. /\ conns' \in [H3Origins -> 0 .. Len(h3conn)] /\ conns'[o] = (IF taken3 THEN cc[r] ELSE conns[o])
        /\ \A p \in H3Origins \ {o} : conns'[p] = conns[p]
    BY <1>1, <1>2
  <1>5. H3Type'
    BY <1>1, <1>2, <1>3, <1>4 DEF H3Inv, H3Type, ToDial
  <1>6. \A s \in H3Requests \ {r} : h3pc[s] \in ToDial => aim[s] # o
    BY <1>1 DEF H3Inv, OneDialer, ToDial
  <1>7. OneDialer'
    <2>1. \A s, t \in H3Requests : h3pc'[s] \in ToDial /\ h3pc'[t] \in ToDial /\ aim[s] = aim[t] => s = t
      BY <1>3 DEF H3Inv, OneDialer
    <2>2. \A s \in H3Requests : h3pc'[s] \in ToDial /\ ~h3closed => h3dials'[aim[s]] = s /\ ~H3Open(conns'[aim[s]])
      <3> SUFFICES ASSUME NEW s \in H3Requests, h3pc'[s] \in ToDial, ~h3closed
                   PROVE  h3dials'[aim[s]] = s /\ ~H3Open(conns'[aim[s]])
        OBVIOUS
      <3>1. s # r /\ h3pc[s] \in ToDial
        BY <1>3
      <3>2. aim[s] \in H3Origins \ {o}
        BY <1>2, <1>6, <3>1
      <3>3. h3dials'[aim[s]] = h3dials[aim[s]] /\ conns'[aim[s]] = conns[aim[s]]
        BY <1>3, <1>4, <3>2
      <3> QED
        BY <3>1, <3>3 DEF H3Inv, OneDialer
    <2> QED
      BY <1>1, <2>1, <2>2 DEF OneDialer, H3Open
  <1>8. EmptyWhenClosed' /\ ObjectsHeld'
    BY <1>1, <1>3, <1>4 DEF H3Inv, EmptyWhenClosed, ObjectsHeld
  <1>9. OpenInHand'
    <2>1. ASSUME NEW c \in DOMAIN h3conn, h3conn[c] = "open" PROVE InHand(c)'
      <3>1. InHand(c) /\ c # NoH3Conn
        BY <1>2, <2>1 DEF H3Inv, OpenInHand, NoH3Conn
      <3>2. CASE c \in Pooled3
        <4>1. PICK p \in H3Origins : conns[p] = c
          BY <3>2 DEF Pooled3
        <4>2. conns'[p] = c
          <5>1. CASE h3closed
            BY <1>1, <4>1, <5>1
          <5>2. CASE ~h3closed
            <6>1. ~H3Open(conns[o])
              BY <1>1, <5>2 DEF H3Inv, OneDialer, ToDial
            <6>2. p # o
              BY <2>1, <3>1, <4>1, <6>1 DEF H3Open
            <6> QED
              BY <1>4, <4>1, <6>2
          <5> QED
            BY <5>1, <5>2
        <4> QED
          BY <3>1, <4>2 DEF InHand, Pooled3
      <3>3. CASE fixed /\ c = 1
        BY <1>1, <3>3 DEF InHand
      <3>4. ASSUME NEW s \in H3Requests, cc[s] = c, h3pc[s] \in {"publish", "abandon"} PROVE InHand(c)'
        <4>1. CASE s # r
          BY <1>1, <1>3, <3>4, <4>1 DEF InHand
        <4>2. CASE s = r
          <5>1. CASE h3closed
            <6>1. h3pc'[r] = "abandon"
              BY <1>1, <3>1, <3>4, <4>2, <5>1 DEF H3Inv, H3Type
            <6> QED
              BY <1>1, <3>4, <4>2, <6>1 DEF InHand
          <5>2. CASE ~h3closed
            <6>1. conns'[o] = c
              BY <1>4, <3>1, <3>4, <4>2, <5>2
            <6> QED
              BY <1>2, <3>1, <6>1 DEF InHand, Pooled3
          <5> QED
            BY <5>1, <5>2
        <4> QED
          BY <4>1, <4>2
      <3> QED
        BY <3>1, <3>2, <3>3, <3>4 DEF InHand
    <2> QED
      BY <1>1, <2>1 DEF OpenInHand
  <1> QED
    BY <1>5, <1>7, <1>8, <1>9 DEF H3Inv

(* Connections are closed, those that the pool forgets among them. *)
LEMMA ConnsShut ==
  ASSUME H3Inv, UNCHANGED <<aim, cc, fixed, held>>, h3closed => h3closed',
         h3conn' \in Seq({"open", "closed"}), Len(h3conn') = Len(h3conn),
         \A c \in 1 .. Len(h3conn) : h3conn'[c] = "open" => h3conn[c] = "open",
         \/ conns' = conns /\ h3closed' = h3closed /\ h3dials' = h3dials
         \/ /\ conns' = [o \in H3Origins |-> NoH3Conn]
            /\ \A c \in Pooled3 : h3conn'[c] # "open"
            /\ DOMAIN h3dials' = H3Origins /\ (h3dials' = h3dials \/ h3closed'),
         \/ h3pc' = h3pc
         \/ \E r \in H3Requests : /\ h3pc[r] = "abandon" /\ h3pc' = [h3pc EXCEPT ![r] = "failed"]
                                  /\ (cc[r] \in 1 .. Len(h3conn) => h3conn'[cc[r]] # "open")
  PROVE  H3Inv'
  <1>1. /\ h3conn \in Seq({"open", "closed"}) /\ Len(h3conn) \in Nat /\ conns \in [H3Origins -> 0 .. Len(h3conn)]
        /\ aim \in [H3Requests -> H3Origins] /\ DOMAIN h3pc = H3Requests
    BY DEF H3Inv, H3Type
  <1>2. /\ DOMAIN h3pc' = H3Requests
        /\ \A s \in H3Requests : h3pc'[s] = h3pc[s] \/ (h3pc[s] = "abandon" /\ h3pc'[s] = "failed")
    BY <1>1
  <1>3. conns' \in [H3Origins -> 0 .. Len(h3conn)] /\ \A o \in H3Origins : conns'[o] = conns[o] \/ conns'[o] = NoH3Conn
    BY <1>1 DEF NoH3Conn
  <1>4. H3Type'
    BY <1>1, <1>2, <1>3 DEF H3Inv, H3Type
  <1>5. \A o \in H3Origins : H3Open(conns[o])' => H3Open(conns[o])
    <2>1. \A o \in H3Origins : conns[o] = 0 \/ conns[o] \in 1 .. Len(h3conn)
      BY <1>1
    <2> QED
      BY <1>3, <2>1 DEF H3Open, NoH3Conn
  <1>6. OneDialer'
    <2>1. \A s, t \in H3Requests : h3pc'[s] \in ToDial /\ h3pc'[t] \in ToDial /\ aim[s] = aim[t] => s = t
      BY <1>2 DEF H3Inv, OneDialer, ToDial
    <2>2. ASSUME ~h3closed' PROVE ~h3closed /\ h3dials' = h3dials
      BY <2>2
    <2>3. \A s \in H3Requests : h3pc'[s] \in ToDial /\ ~h3closed' => h3dials'[aim[s]] = s /\ ~H3Open(conns[aim[s]])'
      BY <1>1, <1>2, <1>5, <2>2 DEF H3Inv, OneDialer, ToDial
    <2> QED
      BY <2>1, <2>3 DEF OneDialer
  <1>7. EmptyWhenClosed' /\ ObjectsHeld'
    BY <1>1, <1>2, <1>3 DEF H3Inv, EmptyWhenClosed, ObjectsHeld
  <1>8. OpenInHand'
    <2>1. ASSUME NEW c \in 1 .. Len(h3conn), h3conn'[c] = "open" PROVE InHand(c)'
      <3>1. InHand(c)
        <4>1. c \in DOMAIN h3conn /\ h3conn[c] = "open"
          BY <1>1, <2>1
        <4> QED
          BY <4>1 DEF H3Inv, OpenInHand
      <3>2. CASE c \in Pooled3
        <4>1. conns' = conns
          BY <2>1, <3>2
        <4> QED
          BY <3>2, <4>1 DEF InHand, Pooled3
      <3>3. CASE fixed /\ c = 1
        BY <3>3 DEF InHand
      <3>4. ASSUME NEW s \in H3Requests, cc[s] = c, h3pc[s] \in {"publish", "abandon"} PROVE InHand(c)'
        <4>1. h3pc'[s] = h3pc[s]
          BY <1>1, <1>2, <2>1, <3>4
        <4> QED
          BY <3>4, <4>1 DEF InHand
      <3> QED
        BY <3>1, <3>2, <3>3, <3>4 DEF InHand
    <2>2. DOMAIN h3conn' = 1 .. Len(h3conn)
      BY <1>1
    <2> QED
      BY <2>1, <2>2 DEF OpenInHand
  <1> QED
    BY <1>4, <1>6, <1>7, <1>8 DEF H3Inv

(* Abandon, CloseIdleConnections, Close and the end of a connection. *)
LEMMA H3CloseInv ==
  ASSUME H3Inv,
         \/ \E r \in H3Requests : Abandon(r)
         \/ CloseIdleH3 \/ CloseEngine
         \/ \E c \in DOMAIN h3conn : ConnEnds(c)
  PROVE  H3Inv'
  <1>1. h3conn \in Seq({"open", "closed"}) /\ DOMAIN h3conn = 1 .. Len(h3conn) /\ DOMAIN h3dials = H3Origins
        /\ Len(h3conn) \in Nat
    BY DEF H3Inv, H3Type
  <1>2. ASSUME NEW c, h3conn' = [h3conn EXCEPT ![c] = "closed"]
        PROVE  /\ h3conn' \in Seq({"open", "closed"}) /\ Len(h3conn') = Len(h3conn)
               /\ \A d \in 1 .. Len(h3conn) : h3conn'[d] = "open" => h3conn[d] = "open" /\ d # c
    <2>1. h3conn' = [d \in 1 .. Len(h3conn) |-> IF d = c THEN "closed" ELSE h3conn[d]]
      BY <1>1, <1>2
    <2>2. \A d \in 1 .. Len(h3conn) : h3conn[d] \in {"open", "closed"}
      BY <1>1
    <2> QED
      BY <1>1, <2>1, <2>2
  <1>3. ASSUME NEW cs, Shut(cs)
        PROVE  /\ h3conn' \in Seq({"open", "closed"}) /\ Len(h3conn') = Len(h3conn)
               /\ \A d \in 1 .. Len(h3conn) : h3conn'[d] = "open" => h3conn[d] = "open" /\ d \notin cs
    <2>1. h3conn' = [c \in 1 .. Len(h3conn) |-> IF c \in cs THEN "closed" ELSE h3conn[c]]
      BY <1>1, <1>3 DEF Shut
    <2>2. \A c \in 1 .. Len(h3conn) : h3conn[c] \in {"open", "closed"}
      BY <1>1
    <2> QED
      BY <1>1, <2>1, <2>2
  <1>4. \A c \in Pooled3 : c \in 1 .. Len(h3conn)
    BY DEF H3Inv, H3Type, Pooled3, NoH3Conn
  <1>5. ASSUME NEW r \in H3Requests, Abandon(r) PROVE H3Inv'
    <2>1. /\ h3pc[r] = "abandon" /\ h3conn' = [h3conn EXCEPT ![cc[r]] = "closed"]
          /\ h3pc' = [h3pc EXCEPT ![r] = "failed"]
          /\ UNCHANGED <<aim, cc, conns, h3dials, fixed, h3closed, held>>
      BY <1>5 DEF Abandon, H3Goes
    <2>2. /\ h3conn' \in Seq({"open", "closed"}) /\ Len(h3conn') = Len(h3conn)
          /\ \A d \in 1 .. Len(h3conn) : h3conn'[d] = "open" => h3conn[d] = "open" /\ d # cc[r]
      BY <1>2, <2>1
    <2> QED
      BY <2>1, <2>2, ConnsShut
  <1>6. CASE CloseIdleH3
    <2>1. Shut(Pooled3) /\ conns' = [o \in H3Origins |-> NoH3Conn]
          /\ UNCHANGED <<h3pc, aim, cc, h3dials, fixed, h3closed, held>>
      BY <1>6 DEF CloseIdleH3
    <2>2. /\ h3conn' \in Seq({"open", "closed"}) /\ Len(h3conn') = Len(h3conn)
          /\ \A d \in 1 .. Len(h3conn) : h3conn'[d] = "open" => h3conn[d] = "open" /\ d \notin Pooled3
      BY <1>3, <2>1
    <2>3. \A c \in Pooled3 : h3conn'[c] # "open"
      BY <1>4, <2>2
    <2> QED
      BY <1>1, <2>1, <2>2, <2>3, ConnsShut
  <1>7. CASE CloseEngine
    <2> DEFINE cs == Pooled3 \cup (IF fixed THEN {1} ELSE {})
    <2>1. Shut(cs) /\ conns' = [o \in H3Origins |-> NoH3Conn] /\ h3closed' = TRUE
          /\ h3dials' = [o \in H3Origins |-> Nobody] /\ UNCHANGED <<h3pc, aim, cc, fixed, held>>
      BY <1>7 DEF CloseEngine
    <2>2. /\ h3conn' \in Seq({"open", "closed"}) /\ Len(h3conn') = Len(h3conn)
          /\ \A d \in 1 .. Len(h3conn) : h3conn'[d] = "open" => h3conn[d] = "open" /\ d \notin cs
      BY <1>3, <2>1
    <2>3. \A c \in Pooled3 : h3conn'[c] # "open"
      BY <1>4, <2>2
    <2>4. DOMAIN h3dials' = H3Origins
      BY <2>1
    <2> QED
      BY <2>1, <2>2, <2>3, <2>4, ConnsShut
  <1>8. ASSUME NEW c \in DOMAIN h3conn, ConnEnds(c) PROVE H3Inv'
    <2>1. h3conn' = [h3conn EXCEPT ![c] = "closed"]
          /\ UNCHANGED <<h3pc, aim, cc, conns, h3dials, fixed, h3closed, held>>
      BY <1>8 DEF ConnEnds
    <2>2. /\ h3conn' \in Seq({"open", "closed"}) /\ Len(h3conn') = Len(h3conn)
          /\ \A d \in 1 .. Len(h3conn) : h3conn'[d] = "open" => h3conn[d] = "open" /\ d # c
      BY <1>2, <2>1
    <2> QED
      BY <2>1, <2>2, ConnsShut
  <1> QED
    BY <1>5, <1>6, <1>7, <1>8

(* Every step of the engine keeps its invariant. *)
LEMMA H3Step == H3Inv /\ [H3Next]_h3Vars => H3Inv'
  <1> SUFFICES ASSUME H3Inv, [H3Next]_h3Vars PROVE H3Inv'
    OBVIOUS
  <1>1. ASSUME NEW r \in H3Requests,
               \/ H3Lookup(r) \/ H3WaitCancelled(r) \/ WaitDone(r) \/ CloseBody(r)
               \/ \E ok \in BOOLEAN : Populate(r, ok) \/ H3Do(r, ok)
        PROVE  H3Inv'
    BY <1>1, H3RequestInv
  <1>2. ASSUME NEW r \in H3Requests, H3Lock(r) PROVE H3Inv'
    BY <1>2, H3LockInv
  <1>3. ASSUME NEW r \in H3Requests, NEW ok \in BOOLEAN, H3Dial(r, ok) PROVE H3Inv'
    BY <1>3, H3DialInv
  <1>4. ASSUME NEW r \in H3Requests, Publish(r) PROVE H3Inv'
    BY <1>4, PublishInv
  <1>5. CASE \/ \E r \in H3Requests : Abandon(r)
             \/ CloseIdleH3 \/ CloseEngine
             \/ \E c \in DOMAIN h3conn : ConnEnds(c)
    BY <1>5, H3CloseInv
  <1>6. ASSUME (\E r \in H3Requests : CtxEnds(r)) \/ UNCHANGED h3Vars PROVE H3Inv'
    <2>1. UNCHANGED <<h3pc, aim, cc, conns, h3dials, h3conn, fixed, h3closed, held>>
      BY <1>6 DEF CtxEnds, h3Vars
    <2> QED
      BY <2>1 DEF H3Inv, H3Type, OneDialer, EmptyWhenClosed, OpenInHand, InHand, ObjectsHeld, Pooled3, H3Open
  <1> QED
    BY <1>1, <1>2, <1>3, <1>4, <1>5, <1>6 DEF H3Next, H3ConnStep

(* For any number of requests and origins, whatever CloseIdleConnections and *)
(* Close do during a dial: no connection of the HTTP/3 engine is lost, no    *)
(* origin is dialled twice at once, and pooled objects are given back.       *)
THEOREM H3ConnsAreKept == H3Spec => []NoStrayH3Conn
  BY H3Promises, H3Starts, H3Step, PTL DEF H3Spec
-----------------------------------------------------------------------------
(* A WebSocket dial. *)

HandshakeOrder ==
  /\ alpn \in {"", "h2", "h3"}
  /\ dpc \in {"tryH3", "tryH2", "preface", "response", "guard", "refuse", "upgrade", "await", "connected"} => sock = "open"
  /\ dpc \in {"parse", "dial"} => sock = "none"
  /\ dpc = "failed" => sock # "open"
  /\ dpc \in {"preface", "response"} => alpn = "h2"
  /\ dpc \in {"upgrade", "await"} => alpn = ""
  /\ dpc \notin {"preface", "await", "failed"} => armed = FALSE

WsDialInv == HandshakeOrder /\ UpgradeAgrees

(* There is no socket yet. *)
LEMMA WsDialStarts == DialInit => WsDialInv
  BY DEF DialInit, WsDialInv, HandshakeOrder, UpgradeAgrees

(* Every step of the cascade keeps the order of the handshakes. *)
LEMMA WsDialStep == WsDialInv /\ [DialNext]_dialVars => WsDialInv'
  <1> SUFFICES ASSUME WsDialInv, [DialNext]_dialVars PROVE WsDialInv'
    OBVIOUS
  <1> USE DEF WsDialInv, HandshakeOrder, UpgradeAgrees, Offered
  <1>1. CASE ParseWSURL
    BY <1>1 DEF ParseWSURL, DialGoes, DialFails
  <1>2. CASE (\E p \in {"", "h2", "h3"} : DialBaseConnection(p)) \/ DialBaseFails
    BY <1>2 DEF DialBaseConnection, DialBaseFails, DialFails
  <1>3. CASE TryH3
    BY <1>3 DEF TryH3, DialGoes, DialSucceeds
  <1>4. CASE TryH2
    BY <1>4 DEF TryH2, DialGoes
  <1>5. CASE PrefaceSkips \/ (\E b \in BOOLEAN : PrefaceSettings(b)) \/ PrefaceFails
    BY <1>5 DEF PrefaceSkips, PrefaceSettings, PrefaceFails
  <1>6. CASE ResponseSkips \/ (\E r \in ConnectReplies : ResponseHeaders(r)) \/ ResponseFails
    BY <1>6 DEF ResponseSkips, ResponseHeaders, ResponseFails, DialGoes, DialSucceeds
  <1>7. CASE ProtocolGuard \/ Refuse \/ Upgrade
    BY <1>7 DEF ProtocolGuard, AfterGuard, Refuse, Upgrade, DialGoes, DialFails
  <1>8. ASSUME NEW r \in UpgradeReplies, UpgradeAnswer(r) PROVE WsDialInv'
    <2>1. CASE Switches(r)
      <3> DEFINE c == Agreed(r.protocol, r.compress)
      <3>1. c.protocol = r.protocol
        BY DEF Agreed
      <3> HIDE DEF c
      <3>2. /\ dpc = "await" /\ dpc' = "connected" /\ armed' = FALSE /\ agreed' = c /\ server' = c
            /\ UNCHANGED <<req, alpn, sock>>
        BY <1>8, <2>1 DEF UpgradeAnswer, DialSucceeds, c
      <3>3. ValidateSubprotocol(req.protocols, c.protocol)
        BY <2>1, <3>1 DEF Switches
      <3> QED
        BY <3>2, <3>3 DEF ValidateSubprotocol
    <2>2. CASE ~Switches(r)
      BY <1>8, <2>2 DEF UpgradeAnswer
    <2> QED
      BY <2>1, <2>2
  <1>9. CASE UpgradeFails \/ DeadlinePasses
    BY <1>9 DEF UpgradeFails, DeadlinePasses, PrefaceFails
  <1>10. CASE ContextEnds \/ UNCHANGED dialVars
    BY <1>10 DEF ContextEnds, dialVars
  <1> QED
    BY <1>1, <1>2, <1>3, <1>4, <1>5, <1>6, <1>7, <1>8, <1>9, <1>10 DEF DialNext, DialStep

(* Which is what DialAgrees asks for. *)
LEMMA WsDialPromises == WsDialInv => DialAgrees
  BY DEF WsDialInv, HandshakeOrder, DialAgrees, DialSettlesSocket
-----------------------------------------------------------------------------
(* All of them side by side: a step of one leaves the others alone. *)
LEMMA StepsApart ==
  [MCNext]_allVars =>
    /\ [TransportNext]_transportVars /\ [DialerNext]_dialerVars /\ [H3Next]_h3Vars /\ [DialNext]_dialVars
  BY DEF MCNext, allVars, wsVars

(* NoStrayConn for any dials, requests, lookups and origins: no HTTP/3 dial  *)
(* and no DoQ lookup leaves a connection behind, no race of netdial.go and   *)
(* multinic.go does but on the ways out that LosersClosed names, and no      *)
(* blocked address is ever connected to.                                     *)
THEOREM NoConnIsLeft == MCSpec => []NoStrayConn
  <1>1. (\E component \in {"pool", "dial", "h3", "dns", "ws", "ws2"} : Only(component)) =>
          RaceInv /\ StrayInv /\ H3Inv /\ LookupInv
    BY RaceStarts, StrayStarts, H3Starts, LookupStarts DEF Only
  <1>2. RaceInv /\ StrayInv /\ H3Inv /\ LookupInv /\ [MCNext]_allVars =>
          (RaceInv /\ StrayInv /\ H3Inv /\ LookupInv)'
    BY StepsApart, RaceStep, StrayStep, H3Step, LookupStep
  <1>3. RaceInv /\ StrayInv /\ H3Inv /\ LookupInv => NoStrayConn
    <2>1. RaceInv /\ StrayInv => LosersClosed /\ GuardedDial
      BY RaceEnds DEF RaceInv
    <2> QED
      BY <2>1, H3Promises DEF NoStrayConn, LookupInv, QuicKept
  <1> QED
    BY <1>1, <1>2, <1>3, PTL DEF MCSpec

(* DialAgrees for any WebSocket dials and any answers of the server, which   *)
(* may send the frames of its handshake in any order: the socket is settled, *)
(* and both ends of an HTTP/1.1 upgrade agree (websocket.go).                *)
THEOREM WsDialsAgree == MCSpec => []DialAgrees
  <1>1. (\E component \in {"pool", "dial", "h3", "dns", "ws", "ws2"} : Only(component)) => WsDialInv
    BY WsDialStarts DEF Only
  <1>2. WsDialInv /\ [MCNext]_allVars => WsDialInv'
    BY StepsApart, WsDialStep
  <1> QED
    BY <1>1, <1>2, WsDialPromises, PTL DEF MCSpec

-----------------------------------------------------------------------------
(* The connection pool. *)

PoolLabels ==
  {"idle", "h3.check", "h3.wait", "h3.dial", "h3.do", "tls.check", "tls.wait", "tls.dial",
   "tls.handshake", "h2.handshake", "h2.do", "h1.take", "h1.do", "done"}

Resolutions == ConnIds \cup {NoConn, Unmade, Pending}

PoolType ==
  /\ mode \in Modes
  /\ origin \in [Requests -> Origins]
  /\ https \in SUBSET Requests
  /\ poolPc \in [Requests -> PoolLabels]
  /\ using \in [Requests -> ConnIds \cup {NoConn}]
  /\ waitFor \in [Requests -> Requests \cup {None}]
  /\ mux \in [Protos -> [Origins -> ConnIds \cup {NoConn}]]
  /\ dials \in [Protos -> [Origins -> Requests \cup {None}]]
  /\ promise \in [Protos -> [Requests -> Resolutions]]
  /\ idle \in [Origins -> Seq(ConnIds)]
  /\ conn \in [ConnIds -> [kind : Kinds, state : {"open", "busy", "lost", "closed"}, full : BOOLEAN]]
  /\ closes \in Nat

(* Where a request owns the connection it holds. *)
Owning == {"tls.handshake", "h2.handshake", "h1.take", "h1.do"}
Owns(r) == poolPc[r] \in Owning /\ using[r] # NoConn

(* Where a request has not dialled TCP yet, and where not QUIC either. *)
BeforeQuic == {"idle", "h3.check", "h3.wait", "h3.dial"}
BeforeTcp == BeforeQuic \cup {"h3.do", "tls.check", "tls.wait", "tls.dial"}

(* What a request holds at each point of its way. *)
UsingFit(r) ==
  /\ poolPc[r] \notin Owning \cup {"h2.do", "h3.do"} => using[r] = NoConn
  /\ poolPc[r] \in {"tls.handshake", "h2.handshake"} => using[r] = <<r, "tcp">>
  /\ poolPc[r] = "tls.handshake" => conn[<<r, "tcp">>].kind = "tcp"
  /\ poolPc[r] = "h2.handshake" => conn[<<r, "tcp">>].kind = "tls" /\ UsesH2
  /\ poolPc[r] = "h1.take" => using[r] = NoConn \/ conn[using[r]].kind = "tls"
  /\ poolPc[r] = "h1.do" => using[r] # NoConn /\ conn[using[r]].kind \in {"tcp", "tls"}
  /\ poolPc[r] = "h2.do" => using[r] # NoConn /\ conn[using[r]].kind = "h2"
  /\ poolPc[r] = "h3.do" => using[r] # NoConn /\ conn[using[r]].kind = "h3"
  /\ r \in https /\ poolPc[r] = "h1.take" => using[r] # NoConn
  /\ r \in https /\ poolPc[r] = "h1.do" => conn[using[r]].kind = "tls"

(* A request dials at most once over TCP and once over QUIC. *)
DialsFresh(r) ==
  /\ poolPc[r] \in BeforeTcp \/ (poolPc[r] = "h1.take" /\ using[r] = NoConn) =>
       conn[<<r, "tcp">>].kind = "none"
  /\ poolPc[r] \in BeforeQuic => conn[<<r, "quic">>].kind = "none"

RequestsFit == \A r \in Requests : UsingFit(r) /\ DialsFresh(r)

(* Every map of the pool holds connections of its own kind. *)
KindsFit ==
  /\ \A o \in Origins : \A i \in 1 .. Len(idle[o]) : conn[idle[o][i]].kind \in {"tcp", "tls"}
  /\ \A p \in Protos, o \in Origins : mux[p][o] # NoConn => conn[mux[p][o]].kind = p
  /\ \A p \in Protos, r \in Requests :
       promise[p][r] \in ConnIds => conn[promise[p][r]].kind = p

(* An HTTP/1.1 connection, or one that may still become one, has one place. *)
Exclusive ==
  /\ \A r, s \in Requests : Owns(r) /\ Owns(s) /\ using[r] = using[s] => r = s
  /\ \A r \in Requests : Owns(r) =>
       \A o \in Origins : \A i \in 1 .. Len(idle[o]) : idle[o][i] # using[r]
  /\ \A o, q \in Origins : \A i \in 1 .. Len(idle[o]), j \in 1 .. Len(idle[q]) :
       idle[o][i] = idle[q][j] => o = q /\ i = j

(* Where the owner of a promise of protocol p is at work on it. *)
Dialing(p) == IF p = "h3" THEN {"h3.dial"} ELSE {"tls.dial", "tls.handshake", "h2.handshake"}

(* Promises are pending while their dialer works, and a map entry is one.   *)
DialsFit ==
  /\ \A p \in Protos, r \in Requests :
       promise[p][r] = Pending <=> poolPc[r] \in Dialing(p) /\ (p = "h2" => UsesH2)
  /\ \A p \in Protos, o \in Origins :
       dials[p][o] # None => origin[dials[p][o]] = o /\ promise[p][dials[p][o]] = Pending
  /\ \A p \in Protos, r \in Requests : poolPc[r] = WaitLabel(p) =>
       waitFor[r] \in Requests /\ promise[p][waitFor[r]] # Unmade
  /\ closes = 0 => \A p \in Protos, r \in Requests :
       promise[p][r] = Pending => dials[p][origin[r]] = r

(* A live socket is in the idle stack or in the hands of a request. *)
LiveSocket(c) == Alive(c) /\ conn[c].kind \in {"tcp", "tls"}
LiveConnsKept ==
  \A c \in ConnIds : LiveSocket(c) =>
    \/ \E o \in Origins : \E i \in 1 .. Len(idle[o]) : idle[o][i] = c
    \/ \E r \in Requests : Owns(r) /\ using[r] = c

PoolInv == PoolType /\ RequestsFit /\ KindsFit /\ Exclusive /\ DialsFit /\ LiveConnsKept

-----------------------------------------------------------------------------
(* The values a promise or a variable holds for "nothing" are no connections. *)
LEMMA NoConnections ==
  /\ NoConn \notin ConnIds /\ Unmade \notin ConnIds /\ Pending \notin ConnIds
  /\ NoConn # Unmade /\ NoConn # Pending /\ Unmade # Pending
  /\ \A r \in Requests : <<r, "tcp">> \in ConnIds /\ <<r, "quic">> \in ConnIds
  /\ \A r, s \in Requests : <<r, "tcp">> # <<s, "quic">>
  /\ \A r, s \in Requests : <<r, "tcp">> = <<s, "tcp">> => r = s
  /\ \A r, s \in Requests : <<r, "quic">> = <<s, "quic">> => r = s
  BY NoneAssumption DEF ConnIds, NoConn, Unmade, Pending

(* The pool starts as the invariant says. *)
LEMMA PoolInitInv == PoolInit => PoolInv
  <1> SUFFICES ASSUME PoolInit PROVE PoolInv
    OBVIOUS
  <1> USE NoConnections DEF PoolInit
  <1>1. PoolType
    BY DEF PoolType, PoolLabels, Resolutions, Kinds, Protos
  <1>2. RequestsFit
    BY DEF RequestsFit, UsingFit, DialsFresh, Owning
  <1>3. KindsFit
    BY DEF KindsFit
  <1>4. Exclusive
    BY DEF Exclusive, Owns
  <1>5. DialsFit
    BY DEF DialsFit, Dialing, WaitLabel
  <1>6. LiveConnsKept
    BY DEF LiveConnsKept, LiveSocket, Alive
  <1> QED
    BY <1>1, <1>2, <1>3, <1>4, <1>5, <1>6 DEF PoolInv

-----------------------------------------------------------------------------
(* A connection that only r can name. *)
Private(c, r) ==
  /\ \A s \in Requests \ {r} : using[s] # c /\ c # <<s, "tcp">> /\ c # <<s, "quic">>
  /\ \A o \in Origins : \A i \in 1 .. Len(idle[o]) : idle[o][i] # c
  /\ \A p \in Protos, o \in Origins : mux[p][o] # c
  /\ \A p \in Protos, s \in Requests : promise[p][s] # c

(* A step of r leaves the other requests where they are. *)
MovesOnly(r) ==
  /\ inputs' = inputs
  /\ \A s \in Requests \ {r} : poolPc'[s] = poolPc[s] /\ using'[s] = using[s]

(* A step of r changes the kind of none but its private connections. *)
KindsKept(r) == \A c \in ConnIds : conn'[c].kind = conn[c].kind \/ Private(c, r)

(* What an owner holds is a socket. *)
LEMMA OwnedKind ==
  ASSUME PoolInv, NEW r \in Requests, Owns(r)
  PROVE  using[r] \in ConnIds /\ conn[using[r]].kind \in {"tcp", "tls"}
  BY DEF PoolInv, PoolType, RequestsFit, UsingFit, Owns, Owning

(* What a request holds has been dialled. *)
LEMMA HeldKind ==
  ASSUME PoolInv, NEW r \in Requests, using[r] # NoConn
  PROVE  /\ using[r] \in ConnIds
         /\ conn[using[r]].kind # "none"
         /\ ~Owns(r) => conn[using[r]].kind \in {"h2", "h3"}
  BY DEF PoolInv, PoolType, RequestsFit, UsingFit, Owns, Owning

(* A connection nobody dialled yet is private to the request that will. *)
LEMMA UndialledPrivate ==
  ASSUME PoolInv, NEW r \in Requests, NEW c \in {<<r, "tcp">>, <<r, "quic">>},
         conn[c].kind = "none"
  PROVE  Private(c, r)
  <1>1. \A s \in Requests \ {r} : using[s] # c /\ c # <<s, "tcp">> /\ c # <<s, "quic">>
    BY HeldKind, NoConnections
  <1> c \in ConnIds /\ c # NoConn
    BY NoConnections
  <1>2. \A o \in Origins : \A i \in 1 .. Len(idle[o]) : idle[o][i] # c
    BY DEF PoolInv, KindsFit
  <1>3. ASSUME NEW p \in Protos, NEW o \in Origins PROVE mux[p][o] # c
    BY DEF PoolInv, KindsFit, Protos
  <1>4. ASSUME NEW p \in Protos, NEW s \in Requests PROVE promise[p][s] # c
    BY DEF PoolInv, KindsFit, Protos
  <1> QED
    BY <1>1, <1>2, <1>3, <1>4 DEF Private

(* So is the TCP connection that a request dialled and still owns. *)
LEMMA OwnedPrivate ==
  ASSUME PoolInv, NEW r \in Requests, Owns(r), using[r] = <<r, "tcp">>
  PROVE  Private(<<r, "tcp">>, r)
  <1> DEFINE c == <<r, "tcp">>
  <1>1. c \in ConnIds /\ conn[c].kind \in {"tcp", "tls"}
    BY OwnedKind
  <1>2. \A s \in Requests \ {r} : using[s] # c /\ c # <<s, "tcp">> /\ c # <<s, "quic">>
    <2> SUFFICES ASSUME NEW s \in Requests \ {r} PROVE using[s] # c
      BY NoConnections
    <2>1. CASE Owns(s)
      BY <2>1 DEF PoolInv, Exclusive
    <2>2. CASE ~Owns(s)
      BY <1>1, <2>2, HeldKind, NoConnections
    <2> QED
      BY <2>1, <2>2
  <1>3. \A o \in Origins : \A i \in 1 .. Len(idle[o]) : idle[o][i] # c
    BY DEF PoolInv, Exclusive
  <1>4. \A p \in Protos, o \in Origins : mux[p][o] # c
    BY <1>1, NoConnections DEF PoolInv, KindsFit, Protos
  <1>5. \A p \in Protos, s \in Requests : promise[p][s] # c
    BY <1>1, NoConnections DEF PoolInv, KindsFit, Protos
  <1> QED
    BY <1>2, <1>3, <1>4, <1>5 DEF Private

(* The other requests stay as they were. *)
LEMMA OthersFit ==
  ASSUME PoolInv, NEW r \in Requests, MovesOnly(r), KindsKept(r), UsingFit(r)', DialsFresh(r)'
  PROVE  RequestsFit'
  <1> SUFFICES ASSUME NEW s \in Requests \ {r} PROVE UsingFit(s)' /\ DialsFresh(s)'
    BY DEF RequestsFit
  <1>1. UsingFit(s) /\ DialsFresh(s)
    BY DEF PoolInv, RequestsFit
  <1>2. poolPc'[s] = poolPc[s] /\ using'[s] = using[s] /\ https' = https /\ (UsesH2' <=> UsesH2)
    BY DEF MovesOnly, inputs, UsesH2
  <1>3. using[s] # NoConn => using[s] \in ConnIds /\ conn'[using[s]].kind = conn[using[s]].kind
    BY HeldKind DEF KindsKept, Private
  <1>4. conn'[<<s, "tcp">>].kind = conn[<<s, "tcp">>].kind
    BY NoConnections DEF KindsKept, Private
  <1>5. conn'[<<s, "quic">>].kind = conn[<<s, "quic">>].kind
    BY NoConnections DEF KindsKept, Private
  <1>6. UsingFit(s)'
    BY <1>1, <1>2, <1>3, <1>4 DEF UsingFit, Owning
  <1>7. DialsFresh(s)'
    BY <1>1, <1>2, <1>4, <1>5 DEF DialsFresh
  <1> QED
    BY <1>6, <1>7

(* What the maps hold keeps its kind; an entry for r may be added. *)
LEMMA KindsStay ==
  ASSUME PoolInv, NEW r \in Requests, KindsKept(r), idle' = idle, PoolType',
         \A p \in Protos, o \in Origins :
           \/ mux'[p][o] = mux[p][o]
           \/ mux'[p][o] # NoConn => conn'[mux'[p][o]].kind = p,
         \A p \in Protos, s \in Requests :
           \/ promise'[p][s] = promise[p][s]
           \/ promise'[p][s] \in ConnIds => conn'[promise'[p][s]].kind = p
  PROVE  KindsFit'
  <1>1. ASSUME NEW o \in Origins, NEW i \in 1 .. Len(idle[o])
        PROVE  conn'[idle[o][i]].kind \in {"tcp", "tls"}
    <2>1. idle[o][i] \in ConnIds /\ conn[idle[o][i]].kind \in {"tcp", "tls"}
      BY DEF PoolInv, PoolType, KindsFit
    <2> QED
      BY <2>1 DEF KindsKept, Private
  <1>2. ASSUME NEW p \in Protos, NEW o \in Origins, mux'[p][o] # NoConn
        PROVE  conn'[mux'[p][o]].kind = p
    <2> SUFFICES ASSUME mux'[p][o] = mux[p][o] PROVE conn'[mux[p][o]].kind = p
      BY <1>2
    <2>1. mux[p][o] \in ConnIds /\ conn[mux[p][o]].kind = p
      BY <1>2 DEF PoolInv, PoolType, KindsFit
    <2> QED
      BY <2>1 DEF KindsKept, Private
  <1>3. \A p \in Protos, s \in Requests :
          promise'[p][s] \in ConnIds => conn'[promise'[p][s]].kind = p
    BY DEF PoolInv, KindsFit, KindsKept, Private
  <1> QED
    BY <1>1, <1>2, <1>3 DEF KindsFit

(* A step that leaves every owner what it owns, and revives no socket but   *)
(* one in the hands of r.                                                   *)
LEMMA OwnersStay ==
  ASSUME PoolInv, NEW r \in Requests, MovesOnly(r), idle' = idle,
         Owns(r)' <=> Owns(r), Owns(r) => using'[r] = using[r],
         \A c \in ConnIds : LiveSocket(c)' => LiveSocket(c) \/ (Owns(r) /\ using[r] = c)
  PROVE  Exclusive' /\ LiveConnsKept'
  <1>1. \A s \in Requests : (Owns(s)' <=> Owns(s)) /\ (Owns(s) => using'[s] = using[s])
    BY DEF MovesOnly, Owns
  <1>2. Exclusive'
    BY <1>1 DEF PoolInv, Exclusive
  <1>3. LiveConnsKept'
    BY <1>1 DEF PoolInv, LiveConnsKept
  <1> QED
    BY <1>2, <1>3

(* r comes to own a connection that was private to it. *)
LEMMA OwnersGain ==
  ASSUME PoolInv, NEW r \in Requests, MovesOnly(r), idle' = idle, NEW c \in ConnIds, Private(c, r),
         ~Owns(r), Owns(r)', using'[r] = c,
         \A d \in ConnIds : d # c /\ LiveSocket(d)' => LiveSocket(d)
  PROVE  Exclusive' /\ LiveConnsKept'
  <1>1. \A s \in Requests \ {r} : (Owns(s)' <=> Owns(s)) /\ using'[s] = using[s] /\ using[s] # c
    BY DEF MovesOnly, Owns, Private
  <1>2. \A o \in Origins : \A i \in 1 .. Len(idle[o]) : idle[o][i] # c
    BY DEF Private
  <1>3. Exclusive'
    BY <1>1, <1>2 DEF PoolInv, Exclusive
  <1>4. LiveConnsKept'
    BY <1>1 DEF PoolInv, LiveConnsKept
  <1> QED
    BY <1>3, <1>4

(* r lets go of a connection that is no live socket any more. *)
LEMMA OwnersLose ==
  ASSUME PoolInv, NEW r \in Requests, MovesOnly(r), idle' = idle, NEW c \in ConnIds,
         Owns(r), using[r] = c, ~Owns(r)', ~LiveSocket(c)', \A d \in ConnIds : LiveSocket(d)' => LiveSocket(d)
  PROVE  Exclusive' /\ LiveConnsKept'
  <1>1. \A s \in Requests \ {r} : (Owns(s)' <=> Owns(s)) /\ using'[s] = using[s]
    BY DEF MovesOnly, Owns
  <1>2. Exclusive'
    BY <1>1 DEF PoolInv, Exclusive
  <1>3. LiveConnsKept'
    BY <1>1 DEF PoolInv, LiveConnsKept
  <1> QED
    BY <1>2, <1>3

(* No promise is made, joined or kept. *)
LEMMA DialsStay ==
  ASSUME PoolInv, NEW r \in Requests, MovesOnly(r), UNCHANGED <<dials, promise, closes>>,
         \A p \in Protos : poolPc'[r] \in Dialing(p) <=> poolPc[r] \in Dialing(p),
         \A p \in Protos : poolPc'[r] # WaitLabel(p),
         \A s \in Requests \ {r} : waitFor'[s] = waitFor[s]
  PROVE  DialsFit'
  <1>1. \A p \in Protos, s \in Requests : poolPc'[s] \in Dialing(p) <=> poolPc[s] \in Dialing(p)
    BY DEF MovesOnly
  <1>2. \A p \in Protos, s \in Requests :
          poolPc'[s] = WaitLabel(p) => poolPc[s] = WaitLabel(p) /\ waitFor'[s] = waitFor[s]
    BY DEF MovesOnly
  <1>3. origin' = origin /\ (UsesH2' <=> UsesH2)
    BY DEF MovesOnly, inputs, UsesH2
  <1> QED
    BY <1>1, <1>2, <1>3 DEF PoolInv, DialsFit, Dialing, WaitLabel

(* r settles its promise and leaves the dial behind. *)
LEMMA DialSettled ==
  ASSUME PoolInv, NEW r \in Requests, MovesOnly(r), UNCHANGED <<waitFor, closes>>,
         NEW p \in Protos, NEW c \in ConnIds \cup {NoConn}, SettleDial(p, r, c),
         poolPc[r] \in Dialing(p),
         \A q \in Protos : poolPc'[r] \notin Dialing(q) /\ poolPc'[r] # WaitLabel(q)
  PROVE  DialsFit'
  <1>1. /\ \A q \in Protos, s \in Requests \ {r} : promise'[q][s] = promise[q][s]
        /\ \A q \in Protos \ {p} : promise'[q][r] = promise[q][r]
        /\ promise'[p][r] = c
    BY DEF SettleDial, Resolved, PoolInv, PoolType
  <1>2. \A q \in Protos, o \in Origins :
          dials'[q][o] = IF q = p /\ o = origin[r] THEN None ELSE dials[q][o]
    BY DEF SettleDial, PoolInv, PoolType
  <1>3. origin' = origin /\ (UsesH2' <=> UsesH2) /\ c # Pending /\ c # Unmade
    BY NoConnections DEF MovesOnly, inputs, UsesH2
  <1>4. \A q \in Protos, s \in Requests \ {r} :
          /\ poolPc'[s] \in Dialing(q) <=> poolPc[s] \in Dialing(q)
          /\ poolPc'[s] = WaitLabel(q) <=> poolPc[s] = WaitLabel(q)
    BY DEF MovesOnly
  <1>5. \A q \in Protos \ {p} : promise[q][r] # Pending
    BY DEF PoolInv, DialsFit, Dialing, Protos
  <1>6. ASSUME NEW q \in Protos, NEW s \in Requests
        PROVE  promise'[q][s] = Pending <=> poolPc'[s] \in Dialing(q) /\ (q = "h2" => UsesH2)
    BY <1>1, <1>3, <1>4, <1>5 DEF PoolInv, DialsFit
  <1>7. ASSUME NEW q \in Protos, NEW o \in Origins, dials'[q][o] # None
        PROVE  origin[dials'[q][o]] = o /\ promise'[q][dials'[q][o]] = Pending
    <2>1. dials'[q][o] = dials[q][o] /\ dials[q][o] \in Requests
      BY <1>2, <1>7 DEF PoolInv, PoolType
    <2>2. origin[dials[q][o]] = o /\ promise[q][dials[q][o]] = Pending
      BY <2>1, <1>7 DEF PoolInv, DialsFit
    <2>3. dials[q][o] # r
      BY <1>2, <1>5, <1>7, <2>1, <2>2
    <2> QED
      BY <1>1, <2>1, <2>2, <2>3
  <1>8. ASSUME NEW q \in Protos, NEW s \in Requests, poolPc'[s] = WaitLabel(q)
        PROVE  waitFor[s] \in Requests /\ promise'[q][waitFor[s]] # Unmade
    BY <1>1, <1>3, <1>4, <1>8 DEF PoolInv, DialsFit
  <1>9. ASSUME closes = 0, NEW q \in Protos, NEW s \in Requests, promise'[q][s] = Pending
        PROVE  dials'[q][origin[s]] = s
    <2>1. s # r /\ promise[q][s] = Pending
      BY <1>1, <1>3, <1>5, <1>9
    <2>2. dials[q][origin[s]] = s
      BY <2>1, <1>9 DEF PoolInv, DialsFit
    <2>3. promise[p][r] = Pending => dials[p][origin[r]] = r
      BY <1>9 DEF PoolInv, DialsFit
    <2> QED
      BY <1>2, <2>1, <2>2, <2>3 DEF PoolInv, PoolType, DialsFit
  <1> QED
    BY <1>3, <1>6, <1>7, <1>8, <1>9 DEF DialsFit

-----------------------------------------------------------------------------
(* DoCtx preserves the invariant. *)
LEMMA DoCtxInv ==
  ASSUME PoolInv, NEW r \in Requests, DoCtx(r)
  PROVE  PoolInv'
  <1> USE DEF DoCtx, TriesH3, Goto
  <1>1. PoolType'
    BY DEF PoolInv, PoolType, PoolLabels, inputs
  <1>2. /\ poolPc[r] = "idle" /\ poolPc'[r] \in {"h3.check", "tls.check", "h1.take"}
        /\ r \in https => poolPc'[r] # "h1.take"
        /\ MovesOnly(r) /\ using[r] = NoConn /\ KindsKept(r)
    BY DEF PoolInv, PoolType, RequestsFit, UsingFit, MovesOnly, KindsKept, inputs, Owning
  <1>3. UsingFit(r)' /\ DialsFresh(r)'
    BY <1>2 DEF PoolInv, RequestsFit, UsingFit, DialsFresh, BeforeQuic, BeforeTcp, Owning, inputs
  <1>4. RequestsFit'
    BY <1>2, <1>3, OthersFit
  <1>5. KindsFit'
    BY <1>1, <1>2, KindsStay
  <1>6. Exclusive' /\ LiveConnsKept'
    BY <1>2, OwnersStay DEF Owns, LiveSocket, Alive
  <1>7. DialsFit'
    BY <1>2, DialsStay DEF Dialing, WaitLabel
  <1> QED
    BY <1>1, <1>4, <1>5, <1>6, <1>7 DEF PoolInv

(* Reuse preserves the invariant. *)
LEMMA ReuseInv ==
  ASSUME PoolInv, NEW p \in Protos, NEW r \in Requests, Reuse(p, r)
  PROVE  PoolInv'
  <1> USE NoConnections DEF Reuse, Goto, Hold, CheckLabel, WaitLabel, DoLabel, DialLabel, Protos
  <1>a. origin[r] \in Origins /\ mux[p][origin[r]] # NoConn /\ poolPc[r] = CheckLabel(p)
    BY DEF PoolInv, PoolType, Usable, Checks
  <1>b. mux[p][origin[r]] \in ConnIds /\ conn[mux[p][origin[r]]].kind = p
    BY <1>a DEF PoolInv, PoolType, KindsFit
  <1>c. using[r] = NoConn
    BY <1>a DEF PoolInv, RequestsFit, UsingFit, Owning
  <1>0. mux[p][origin[r]] \in ConnIds /\ conn[mux[p][origin[r]]].kind = p
        /\ poolPc[r] = CheckLabel(p) /\ using[r] = NoConn
    BY <1>a, <1>b, <1>c
  <1>1. PoolType'
    BY <1>0 DEF PoolInv, PoolType, PoolLabels, Resolutions, Kinds, Protos, inputs
  <1>2. /\ poolPc[r] = CheckLabel(p) /\ poolPc'[r] = DoLabel(p)
        /\ using[r] = NoConn /\ using'[r] = mux[p][origin[r]] /\ using'[r] # NoConn
        /\ conn[using'[r]].kind = p
        /\ MovesOnly(r) /\ KindsKept(r)
    BY <1>0 DEF PoolInv, PoolType, RequestsFit, UsingFit, MovesOnly, KindsKept, inputs, Owning
  <1>3. UsingFit(r)' /\ DialsFresh(r)'
    BY <1>2 DEF PoolInv, PoolType, RequestsFit, UsingFit, DialsFresh, BeforeQuic, BeforeTcp, Owning, inputs, UsesH2
  <1>4. RequestsFit'
    BY <1>2, <1>3, OthersFit
  <1>5. KindsFit'
    BY <1>1, <1>2, KindsStay
  <1>6. Exclusive' /\ LiveConnsKept'
    BY <1>2, OwnersStay DEF Owns, Owning, LiveSocket, Alive
  <1>7. DialsFit'
    BY <1>2, DialsStay DEF Dialing
  <1> QED
    BY <1>1, <1>4, <1>5, <1>6, <1>7 DEF PoolInv

(* WokenUse preserves the invariant. *)
LEMMA WokenUseInv ==
  ASSUME PoolInv, NEW p \in Protos, NEW r \in Requests, WokenUse(p, r)
  PROVE  PoolInv'
  <1> USE NoConnections DEF WokenUse, Goto, Hold, CheckLabel, WaitLabel, DoLabel, DialLabel, Protos
  <1>0. waitFor[r] \in Requests /\ promise[p][waitFor[r]] \in ConnIds
        /\ conn[promise[p][waitFor[r]]].kind = p
    BY DEF PoolInv, PoolType, DialsFit, KindsFit, Usable, Resolutions
  <1>1. PoolType'
    BY <1>0 DEF PoolInv, PoolType, PoolLabels, inputs
  <1>2. /\ poolPc[r] = WaitLabel(p) /\ poolPc'[r] = DoLabel(p)
        /\ using[r] = NoConn /\ using'[r] = promise[p][waitFor[r]] /\ using'[r] # NoConn
        /\ conn[using'[r]].kind = p
        /\ MovesOnly(r) /\ KindsKept(r)
        /\ \A s \in Requests \ {r} : waitFor'[s] = waitFor[s]
    BY <1>0 DEF PoolInv, PoolType, RequestsFit, UsingFit, MovesOnly, KindsKept, inputs, Owning, Usable
  <1>3. UsingFit(r)' /\ DialsFresh(r)'
    BY <1>2 DEF PoolInv, PoolType, RequestsFit, UsingFit, DialsFresh, BeforeQuic, BeforeTcp, Owning, inputs, UsesH2
  <1>4. RequestsFit'
    BY <1>2, <1>3, OthersFit
  <1>5. KindsFit'
    BY <1>1, <1>2, KindsStay
  <1>6. Exclusive' /\ LiveConnsKept'
    BY <1>2, OwnersStay DEF Owns, Owning, LiveSocket, Alive
  <1>7. DialsFit'
    BY <1>2, DialsStay DEF Dialing
  <1> QED
    BY <1>1, <1>4, <1>5, <1>6, <1>7 DEF PoolInv

(* WokenRetry preserves the invariant. *)
LEMMA WokenRetryInv ==
  ASSUME PoolInv, NEW p \in Protos, NEW r \in Requests, WokenRetry(p, r)
  PROVE  PoolInv'
  <1> USE NoConnections DEF WokenRetry, Goto, AfterH3Failure, CheckLabel, WaitLabel, DoLabel, DialLabel, Protos
  <1>1. PoolType'
    BY DEF PoolInv, PoolType, PoolLabels, Resolutions, Kinds, Protos, inputs
  <1>2. /\ poolPc[r] = WaitLabel(p) /\ poolPc'[r] \in {CheckLabel(p), "tls.check", "done"}
        /\ using[r] = NoConn /\ using' = using
        /\ MovesOnly(r) /\ KindsKept(r)
        /\ \A s \in Requests \ {r} : waitFor'[s] = waitFor[s]
    BY DEF PoolInv, PoolType, RequestsFit, UsingFit, MovesOnly, KindsKept, inputs, Owning
  <1>3. UsingFit(r)' /\ DialsFresh(r)'
    BY <1>2 DEF PoolInv, PoolType, RequestsFit, UsingFit, DialsFresh, BeforeQuic, BeforeTcp, Owning, inputs, UsesH2
  <1>4. RequestsFit'
    BY <1>2, <1>3, OthersFit
  <1>5. KindsFit'
    BY <1>1, <1>2, KindsStay
  <1>6. Exclusive' /\ LiveConnsKept'
    BY <1>2, OwnersStay DEF Owns, Owning, LiveSocket, Alive
  <1>7. DialsFit'
    BY <1>2, DialsStay DEF Dialing
  <1> QED
    BY <1>1, <1>4, <1>5, <1>6, <1>7 DEF PoolInv

(* PoolWaitCancelled preserves the invariant. *)
LEMMA PoolWaitCancelledInv ==
  ASSUME PoolInv, NEW p \in Protos, NEW r \in Requests, PoolWaitCancelled(p, r)
  PROVE  PoolInv'
  <1> USE NoConnections DEF PoolWaitCancelled, Goto, AfterH3Failure, CheckLabel, WaitLabel, DoLabel, DialLabel, Protos
  <1>1. PoolType'
    BY DEF PoolInv, PoolType, PoolLabels, Resolutions, Kinds, Protos, inputs
  <1>2. /\ poolPc[r] = WaitLabel(p) /\ poolPc'[r] \in {CheckLabel(p), "tls.check", "done"}
        /\ using[r] = NoConn /\ using' = using
        /\ MovesOnly(r) /\ KindsKept(r)
        /\ \A s \in Requests \ {r} : waitFor'[s] = waitFor[s]
    BY DEF PoolInv, PoolType, RequestsFit, UsingFit, MovesOnly, KindsKept, inputs, Owning
  <1>3. UsingFit(r)' /\ DialsFresh(r)'
    BY <1>2 DEF PoolInv, PoolType, RequestsFit, UsingFit, DialsFresh, BeforeQuic, BeforeTcp, Owning, inputs, UsesH2
  <1>4. RequestsFit'
    BY <1>2, <1>3, OthersFit
  <1>5. KindsFit'
    BY <1>1, <1>2, KindsStay
  <1>6. Exclusive' /\ LiveConnsKept'
    BY <1>2, OwnersStay DEF Owns, Owning, LiveSocket, Alive
  <1>7. DialsFit'
    BY <1>2, DialsStay DEF Dialing
  <1> QED
    BY <1>1, <1>4, <1>5, <1>6, <1>7 DEF PoolInv

(* SkipPromise preserves the invariant. *)
LEMMA SkipPromiseInv ==
  ASSUME PoolInv, NEW r \in Requests, SkipPromise(r)
  PROVE  PoolInv'
  <1> USE NoConnections DEF SkipPromise, Goto, CheckLabel, WaitLabel, DoLabel, DialLabel, Protos
  <1>1. PoolType'
    BY DEF PoolInv, PoolType, PoolLabels, Resolutions, Kinds, Protos, inputs
  <1>2. /\ poolPc[r] = "tls.check" /\ poolPc'[r] = "tls.dial"
        /\ using[r] = NoConn /\ using' = using /\ ~UsesH2
        /\ MovesOnly(r) /\ KindsKept(r)
    BY DEF PoolInv, PoolType, RequestsFit, UsingFit, MovesOnly, KindsKept, inputs, Owning
  <1>3. UsingFit(r)' /\ DialsFresh(r)'
    BY <1>2 DEF PoolInv, PoolType, RequestsFit, UsingFit, DialsFresh, BeforeQuic, BeforeTcp, Owning, inputs, UsesH2
  <1>4. RequestsFit'
    BY <1>2, <1>3, OthersFit
  <1>5. KindsFit'
    BY <1>1, <1>2, KindsStay
  <1>6. Exclusive' /\ LiveConnsKept'
    BY <1>2, OwnersStay DEF Owns, Owning, LiveSocket, Alive
  <1>7. DialsFit'
    BY <1>2 DEF PoolInv, PoolType, DialsFit, Dialing, MovesOnly, inputs, UsesH2
  <1> QED
    BY <1>1, <1>4, <1>5, <1>6, <1>7 DEF PoolInv

(* Join preserves the invariant. *)
LEMMA JoinInv ==
  ASSUME PoolInv, NEW p \in Protos, NEW r \in Requests, Join(p, r)
  PROVE  PoolInv'
  <1> USE NoConnections DEF Join, Checks, Goto, CheckLabel, WaitLabel, DoLabel, DialLabel, Protos
  <1>1. PoolType'
    BY DEF PoolInv, PoolType, PoolLabels, Resolutions, Kinds, Protos, inputs
  <1>2. /\ poolPc[r] = CheckLabel(p) /\ poolPc'[r] = WaitLabel(p)
        /\ using[r] = NoConn /\ using' = using
        /\ MovesOnly(r) /\ KindsKept(r)
    BY DEF PoolInv, PoolType, RequestsFit, UsingFit, MovesOnly, KindsKept, inputs, Owning
  <1>3. UsingFit(r)' /\ DialsFresh(r)'
    BY <1>2 DEF PoolInv, PoolType, RequestsFit, UsingFit, DialsFresh, BeforeQuic, BeforeTcp, Owning, inputs, UsesH2
  <1>4. RequestsFit'
    BY <1>2, <1>3, OthersFit
  <1>5. KindsFit'
    BY <1>1, <1>2, KindsStay
  <1>6. Exclusive' /\ LiveConnsKept'
    BY <1>2, OwnersStay DEF Owns, Owning, LiveSocket, Alive
  <1>7. DialsFit'
    BY <1>2 DEF PoolInv, PoolType, DialsFit, Dialing, MovesOnly, inputs, UsesH2
  <1> QED
    BY <1>1, <1>4, <1>5, <1>6, <1>7 DEF PoolInv

(* Promise preserves the invariant. *)
LEMMA PromiseInv ==
  ASSUME PoolInv, NEW p \in Protos, NEW r \in Requests, Promise(p, r)
  PROVE  PoolInv'
  <1> USE NoConnections DEF Promise, Checks, Goto, CheckLabel, WaitLabel, DoLabel, DialLabel, Protos
  <1>1. PoolType'
    BY DEF PoolInv, PoolType, PoolLabels, Resolutions, Kinds, Protos, inputs
  <1>2. /\ poolPc[r] = CheckLabel(p) /\ poolPc'[r] = DialLabel(p)
        /\ using[r] = NoConn /\ using' = using
        /\ MovesOnly(r) /\ KindsKept(r)
    BY DEF PoolInv, PoolType, RequestsFit, UsingFit, MovesOnly, KindsKept, inputs, Owning
  <1>3. UsingFit(r)' /\ DialsFresh(r)'
    BY <1>2 DEF PoolInv, PoolType, RequestsFit, UsingFit, DialsFresh, BeforeQuic, BeforeTcp, Owning, inputs, UsesH2
  <1>4. RequestsFit'
    BY <1>2, <1>3, OthersFit
  <1>5. KindsFit'
    BY <1>1, <1>2, KindsStay DEF PoolInv, PoolType
  <1>6. Exclusive' /\ LiveConnsKept'
    BY <1>2, OwnersStay DEF Owns, Owning, LiveSocket, Alive
  <1>7. DialsFit'
    <2>1. /\ promise'[p][r] = Pending
          /\ \A q \in Protos, s \in Requests : q # p \/ s # r => promise'[q][s] = promise[q][s]
      BY DEF PoolInv, PoolType
    <2>2. /\ dials'[p][origin[r]] = r
          /\ \A q \in Protos, o \in Origins : q # p \/ o # origin[r] => dials'[q][o] = dials[q][o]
      BY DEF PoolInv, PoolType
    <2>3. dials[p][origin[r]] = None /\ origin' = origin /\ (UsesH2' <=> UsesH2) /\ (p = "h2" => UsesH2)
      BY DEF Served, inputs, UsesH2
    <2>4. ASSUME NEW q \in Protos, NEW s \in Requests
          PROVE  promise'[q][s] = Pending <=> poolPc'[s] \in Dialing(q) /\ (q = "h2" => UsesH2)
      BY <1>2, <2>1, <2>3 DEF PoolInv, DialsFit, Dialing, MovesOnly
    <2>5. ASSUME NEW q \in Protos, NEW o \in Origins, dials'[q][o] # None
          PROVE  origin[dials'[q][o]] = o /\ promise'[q][dials'[q][o]] = Pending
      BY <2>1, <2>2, <2>5 DEF PoolInv, PoolType, DialsFit
    <2>6. ASSUME NEW q \in Protos, NEW s \in Requests, poolPc'[s] = WaitLabel(q)
          PROVE  waitFor[s] \in Requests /\ promise'[q][waitFor[s]] # Unmade
      BY <1>2, <2>1, <2>6 DEF PoolInv, DialsFit, MovesOnly
    <2>7. ASSUME closes = 0, NEW q \in Protos, NEW s \in Requests, promise'[q][s] = Pending
          PROVE  dials'[q][origin[s]] = s
      BY <2>1, <2>2, <2>3, <2>7, NoneAssumption DEF PoolInv, PoolType, DialsFit
    <2> QED
      BY <2>3, <2>4, <2>5, <2>6, <2>7 DEF DialsFit
  <1> QED
    BY <1>1, <1>4, <1>5, <1>6, <1>7 DEF PoolInv

(* H3DialOK preserves the invariant. *)
LEMMA H3DialOKInv ==
  ASSUME PoolInv, NEW r \in Requests, H3DialOK(r)
  PROVE  PoolInv'
  <1> USE NoConnections DEF H3DialOK, Goto, Hold, ConnBecomes, CheckLabel, WaitLabel, DoLabel, DialLabel, Protos
  <1>1. PoolType'
    BY DEF PoolInv, PoolType, PoolLabels, Resolutions, Kinds, Protos, inputs, SettleDial, Resolved
  <1>2. /\ poolPc[r] = "h3.dial" /\ poolPc'[r] = "h3.do"
        /\ using[r] = NoConn /\ using'[r] = <<r, "quic">>
        /\ conn[<<r, "quic">>].kind = "none" /\ conn'[<<r, "quic">>].kind = "h3"
        /\ \A d \in ConnIds : d # <<r, "quic">> => conn'[d] = conn[d]
        /\ <<r, "quic">> \in ConnIds
        /\ MovesOnly(r)
    BY DEF PoolInv, PoolType, RequestsFit, UsingFit, MovesOnly, KindsKept, inputs, Owning, DialsFresh, BeforeQuic
  <1>0. Private(<<r, "quic">>, r) /\ KindsKept(r)
    BY <1>2, UndialledPrivate DEF KindsKept
  <1>3. UsingFit(r)' /\ DialsFresh(r)'
    BY <1>2 DEF PoolInv, PoolType, RequestsFit, UsingFit, DialsFresh, BeforeQuic, BeforeTcp, Owning, inputs, UsesH2
  <1>4. RequestsFit'
    BY <1>0, <1>2, <1>3, OthersFit
  <1>5. KindsFit'
    <2>1. \A p \in Protos, o \in Origins : mux'[p][o] = mux[p][o] \/ (p = "h3" /\ mux'[p][o] = <<r, "quic">>)
      BY DEF PoolInv, PoolType
    <2>2. \A p \in Protos, s \in Requests :
            promise'[p][s] = promise[p][s] \/ (p = "h3" /\ promise'[p][s] = <<r, "quic">>)
      BY DEF SettleDial, Resolved, PoolInv, PoolType
    <2>3. /\ \A p \in Protos, o \in Origins :
               \/ mux'[p][o] = mux[p][o]
               \/ mux'[p][o] # NoConn => conn'[mux'[p][o]].kind = p
          /\ \A p \in Protos, s \in Requests :
               \/ promise'[p][s] = promise[p][s]
               \/ promise'[p][s] \in ConnIds => conn'[promise'[p][s]].kind = p
      BY <1>2, <2>1, <2>2 DEF MovesOnly
    <2>4. idle' = idle
      OBVIOUS
    <2> HIDE DEF H3DialOK, Protos
    <2> QED
      BY <1>0, <1>1, <2>3, <2>4, KindsStay
  <1>6. Exclusive' /\ LiveConnsKept'
    BY <1>2, OwnersStay DEF Owns, Owning, LiveSocket, Alive
  <1>7. DialsFit'
    BY <1>2, DialSettled DEF Dialing, Protos, WaitLabel
  <1> QED
    BY <1>1, <1>4, <1>5, <1>6, <1>7 DEF PoolInv

(* H3DialFails preserves the invariant. *)
LEMMA H3DialFailsInv ==
  ASSUME PoolInv, NEW r \in Requests, H3DialFails(r)
  PROVE  PoolInv'
  <1> USE NoConnections DEF H3DialFails, AfterH3Failure, Goto, CheckLabel, WaitLabel, DoLabel, DialLabel, Protos
  <1>1. PoolType'
    BY DEF PoolInv, PoolType, PoolLabels, Resolutions, Kinds, Protos, inputs, SettleDial, Resolved
  <1>2. /\ poolPc[r] = "h3.dial" /\ poolPc'[r] \in {"tls.check", "done"}
        /\ using[r] = NoConn /\ using' = using
        /\ MovesOnly(r) /\ KindsKept(r)
    BY DEF PoolInv, PoolType, RequestsFit, UsingFit, MovesOnly, KindsKept, inputs, Owning
  <1>3. UsingFit(r)' /\ DialsFresh(r)'
    BY <1>2 DEF PoolInv, PoolType, RequestsFit, UsingFit, DialsFresh, BeforeQuic, BeforeTcp, Owning, inputs, UsesH2
  <1>4. RequestsFit'
    BY <1>2, <1>3, OthersFit
  <1>5. KindsFit'
    BY <1>1, <1>2, KindsStay DEF SettleDial, Resolved, PoolInv, PoolType
  <1>6. Exclusive' /\ LiveConnsKept'
    BY <1>2, OwnersStay DEF Owns, Owning, LiveSocket, Alive
  <1>7. DialsFit'
    BY <1>2, DialSettled DEF Dialing, Protos, WaitLabel
  <1> QED
    BY <1>1, <1>4, <1>5, <1>6, <1>7 DEF PoolInv

(* TcpDialOK preserves the invariant. *)
LEMMA TcpDialOKInv ==
  ASSUME PoolInv, NEW r \in Requests, TcpDialOK(r)
  PROVE  PoolInv'
  <1> USE NoConnections DEF TcpDialOK, Goto, Hold, ConnBecomes, CheckLabel, WaitLabel, DoLabel, DialLabel, Protos
  <1>1. PoolType'
    BY DEF PoolInv, PoolType, PoolLabels, Resolutions, Kinds, Protos, inputs
  <1>2. /\ poolPc[r] = "tls.dial" /\ poolPc'[r] = "tls.handshake"
        /\ using[r] = NoConn /\ using'[r] = <<r, "tcp">>
        /\ conn[<<r, "tcp">>].kind = "none" /\ conn'[<<r, "tcp">>].kind = "tcp"
        /\ \A d \in ConnIds : d # <<r, "tcp">> => conn'[d] = conn[d]
        /\ <<r, "tcp">> \in ConnIds
        /\ MovesOnly(r)
    BY DEF PoolInv, PoolType, RequestsFit, UsingFit, MovesOnly, KindsKept, inputs, Owning, DialsFresh, BeforeTcp
  <1>0. Private(<<r, "tcp">>, r) /\ KindsKept(r)
    BY <1>2, UndialledPrivate DEF KindsKept
  <1>3. UsingFit(r)' /\ DialsFresh(r)'
    BY <1>2 DEF PoolInv, PoolType, RequestsFit, UsingFit, DialsFresh, BeforeQuic, BeforeTcp, Owning, inputs, UsesH2
  <1>4. RequestsFit'
    BY <1>0, <1>2, <1>3, OthersFit
  <1>5. KindsFit'
    BY <1>0, <1>1, <1>2, KindsStay
  <1>6. Exclusive' /\ LiveConnsKept'
    BY <1>0, <1>2, OwnersGain DEF Owns, Owning, LiveSocket, Alive
  <1>7. DialsFit'
    BY <1>2, DialsStay DEF Dialing
  <1> QED
    BY <1>1, <1>4, <1>5, <1>6, <1>7 DEF PoolInv

(* MuxDone preserves the invariant. *)
LEMMA MuxDoneInv ==
  ASSUME PoolInv, NEW r \in Requests, NEW ok \in BOOLEAN, MuxDone(r, ok)
  PROVE  PoolInv'
  <1> USE NoConnections DEF MuxDone, AfterH3Failure, Goto, Hold, CheckLabel, WaitLabel, DoLabel, DialLabel, Protos
  <1>1. PoolType'
    BY DEF PoolInv, PoolType, PoolLabels, Resolutions, Kinds, Protos, inputs
  <1>2. /\ poolPc[r] \in {"h2.do", "h3.do"} /\ poolPc'[r] \in {"tls.check", "done"}
        /\ poolPc'[r] = "tls.check" => poolPc[r] = "h3.do"
        /\ using'[r] = NoConn
        /\ MovesOnly(r) /\ KindsKept(r)
    BY DEF PoolInv, PoolType, RequestsFit, UsingFit, MovesOnly, KindsKept, inputs, Owning
  <1>3. UsingFit(r)' /\ DialsFresh(r)'
    BY <1>2 DEF PoolInv, PoolType, RequestsFit, UsingFit, DialsFresh, BeforeQuic, BeforeTcp, Owning, inputs, UsesH2
  <1>4. RequestsFit'
    BY <1>2, <1>3, OthersFit
  <1>5. KindsFit'
    BY <1>1, <1>2, KindsStay
  <1>6. Exclusive' /\ LiveConnsKept'
    BY <1>2, OwnersStay DEF Owns, Owning, LiveSocket, Alive
  <1>7. DialsFit'
    BY <1>2, DialsStay DEF Dialing
  <1> QED
    BY <1>1, <1>4, <1>5, <1>6, <1>7 DEF PoolInv

(* H1Existing preserves the invariant. *)
LEMMA H1ExistingInv ==
  ASSUME PoolInv, NEW r \in Requests, H1Existing(r)
  PROVE  PoolInv'
  <1> USE NoConnections DEF H1Existing, MayTake, Goto, CheckLabel, WaitLabel, DoLabel, DialLabel, Protos
  <1>1. PoolType'
    BY DEF PoolInv, PoolType, PoolLabels, Resolutions, Kinds, Protos, inputs
  <1>2. /\ poolPc[r] = "h1.take" /\ poolPc'[r] = "h1.do"
        /\ using[r] # NoConn /\ using' = using /\ conn[using[r]].kind = "tls"
        /\ MovesOnly(r) /\ KindsKept(r)
    BY DEF PoolInv, PoolType, RequestsFit, UsingFit, MovesOnly, KindsKept, inputs, Owning
  <1>3. UsingFit(r)' /\ DialsFresh(r)'
    BY <1>2 DEF PoolInv, PoolType, RequestsFit, UsingFit, DialsFresh, BeforeQuic, BeforeTcp, Owning, inputs, UsesH2
  <1>4. RequestsFit'
    BY <1>2, <1>3, OthersFit
  <1>5. KindsFit'
    BY <1>1, <1>2, KindsStay
  <1>6. Exclusive' /\ LiveConnsKept'
    BY <1>2, OwnersStay DEF Owns, Owning, LiveSocket, Alive
  <1>7. DialsFit'
    BY <1>2, DialsStay DEF Dialing
  <1> QED
    BY <1>1, <1>4, <1>5, <1>6, <1>7 DEF PoolInv

(* H1Close preserves the invariant. *)
LEMMA H1CloseInv ==
  ASSUME PoolInv, NEW r \in Requests, H1Close(r)
  PROVE  PoolInv'
  <1> USE NoConnections DEF H1Close, ShutH1, Goto, Hold, CheckLabel, WaitLabel, DoLabel, DialLabel, Protos
  <1>1. PoolType'
    BY DEF PoolInv, PoolType, PoolLabels, Resolutions, Kinds, Protos, inputs
  <1>0. using[r] \in ConnIds
    BY DEF PoolInv, PoolType, RequestsFit, UsingFit
  <1>2. /\ poolPc[r] = "h1.do" /\ poolPc'[r] = "done"
        /\ using[r] \in ConnIds /\ using'[r] = NoConn
        /\ conn'[using[r]].state = "closed"
        /\ \A d \in ConnIds : d # using[r] => conn'[d] = conn[d]
        /\ MovesOnly(r) /\ KindsKept(r)
    BY <1>0 DEF PoolInv, PoolType, RequestsFit, UsingFit, MovesOnly, KindsKept, inputs, Owning
  <1>3. UsingFit(r)' /\ DialsFresh(r)'
    BY <1>2 DEF PoolInv, PoolType, RequestsFit, UsingFit, DialsFresh, BeforeQuic, BeforeTcp, Owning, inputs, UsesH2
  <1>4. RequestsFit'
    BY <1>2, <1>3, OthersFit
  <1>5. KindsFit'
    BY <1>1, <1>2, KindsStay
  <1>6. Exclusive' /\ LiveConnsKept'
    BY <1>2, OwnersLose DEF Owns, Owning, LiveSocket, Alive
  <1>7. DialsFit'
    BY <1>2, DialsStay DEF Dialing
  <1> QED
    BY <1>1, <1>4, <1>5, <1>6, <1>7 DEF PoolInv

(* What a failed dial does to the promises, with and without HTTP/2. *)
LEMMA FailureSettles ==
  ASSUME PoolInv, NEW r \in Requests, SettleFailure(r)
  PROVE  /\ dials' \in [Protos -> [Origins -> Requests \cup {None}]]
         /\ promise' \in [Protos -> [Requests -> Resolutions]]
         /\ \A p \in Protos, s \in Requests :
              promise'[p][s] = promise[p][s] \/ promise'[p][s] = NoConn
  <1>1. CASE UsesH2
    <2>1. SettleDial("h2", r, NoConn) /\ "h2" \in Protos /\ NoConn \in Resolutions
      BY <1>1 DEF SettleFailure, Protos, Resolutions
    <2> QED
      BY <2>1 DEF SettleDial, Resolved, PoolInv, PoolType
  <1>2. CASE ~UsesH2
    BY <1>2 DEF SettleFailure, PoolInv, PoolType
  <1> QED
    BY <1>1, <1>2

(* A failed dial leaves whoever waits for its protocol with an answer. *)
LEMMA FailureSettled ==
  ASSUME PoolInv, NEW r \in Requests, MovesOnly(r), UNCHANGED <<waitFor, closes>>,
         SettleFailure(r), poolPc[r] \in Dialing("h2"),
         \A q \in Protos : poolPc'[r] \notin Dialing(q) /\ poolPc'[r] # WaitLabel(q)
  PROVE  DialsFit'
  <1>1. CASE UsesH2
    BY <1>1, DialSettled DEF SettleFailure, Protos
  <1>2. CASE ~UsesH2
    <2>1. UNCHANGED <<dials, promise>> /\ origin' = origin /\ ~UsesH2'
      BY <1>2 DEF SettleFailure, MovesOnly, inputs, UsesH2
    <2>2. \A q \in Protos, s \in Requests \ {r} :
            /\ poolPc'[s] \in Dialing(q) <=> poolPc[s] \in Dialing(q)
            /\ poolPc'[s] = WaitLabel(q) <=> poolPc[s] = WaitLabel(q)
      BY DEF MovesOnly
    <2>3. \A q \in Protos : promise[q][r] # Pending
      BY <1>2 DEF PoolInv, DialsFit, Dialing, Protos
    <2> QED
      BY <1>2, <2>1, <2>2, <2>3 DEF PoolInv, DialsFit
  <1> QED
    BY <1>1, <1>2

(* TcpDialFails preserves the invariant. *)
LEMMA TcpDialFailsInv ==
  ASSUME PoolInv, NEW r \in Requests, TcpDialFails(r)
  PROVE  PoolInv'
  <1> USE DEF TcpDialFails, Goto
  <1>1. PoolType'
    BY FailureSettles DEF PoolInv, PoolType, PoolLabels, inputs
  <1>2. /\ poolPc[r] = "tls.dial" /\ poolPc'[r] = "done" /\ using[r] = NoConn
        /\ MovesOnly(r) /\ KindsKept(r)
    BY DEF PoolInv, PoolType, RequestsFit, UsingFit, MovesOnly, KindsKept, inputs, Owning
  <1>3. UsingFit(r)' /\ DialsFresh(r)'
    BY <1>2 DEF UsingFit, DialsFresh, BeforeQuic, BeforeTcp, Owning
  <1>4. RequestsFit'
    BY <1>2, <1>3, OthersFit
  <1>5. KindsFit'
    BY <1>1, <1>2, FailureSettles, KindsStay, NoConnections
  <1>6. Exclusive' /\ LiveConnsKept'
    BY <1>2, OwnersStay DEF Owns, Owning, LiveSocket, Alive
  <1>7. DialsFit'
    BY <1>2, FailureSettled DEF Dialing, WaitLabel, Protos
  <1> QED
    BY <1>1, <1>4, <1>5, <1>6, <1>7 DEF PoolInv

(* HandshakeFails preserves the invariant. *)
LEMMA HandshakeFailsInv ==
  ASSUME PoolInv, NEW r \in Requests, HandshakeFails(r)
  PROVE  PoolInv'
  <1> USE DEF HandshakeFails, ShutRaw, Goto, Hold
  <1>1. using[r] = <<r, "tcp">> /\ using[r] \in ConnIds
    BY NoConnections DEF PoolInv, RequestsFit, UsingFit
  <1>2. PoolType'
    BY <1>1, FailureSettles DEF PoolInv, PoolType, PoolLabels, inputs, Kinds
  <1>3. /\ poolPc[r] \in {"tls.handshake", "h2.handshake"} /\ poolPc'[r] = "done"
        /\ using'[r] = NoConn /\ MovesOnly(r)
    BY DEF PoolInv, PoolType, MovesOnly, inputs
  <1>4. /\ \A d \in ConnIds : conn'[d].kind = conn[d].kind
        /\ \A d \in ConnIds : d # using[r] => conn'[d] = conn[d]
        /\ conn'[using[r]].state = "closed"
    BY <1>1 DEF PoolInv, PoolType
  <1>5. UsingFit(r)' /\ DialsFresh(r)'
    BY <1>3 DEF UsingFit, DialsFresh, BeforeQuic, BeforeTcp, Owning
  <1>6. RequestsFit'
    BY <1>3, <1>4, <1>5, OthersFit DEF KindsKept
  <1>7. KindsFit'
    BY <1>2, <1>4, FailureSettles, KindsStay, NoConnections DEF KindsKept
  <1>8. Exclusive' /\ LiveConnsKept'
    BY <1>1, <1>3, <1>4, OwnersLose, NoConnections DEF Owns, Owning, LiveSocket, Alive
  <1>9. DialsFit'
    BY <1>3, FailureSettled DEF Dialing, WaitLabel, Protos
  <1> QED
    BY <1>2, <1>6, <1>7, <1>8, <1>9 DEF PoolInv

(* HandshakeOK preserves the invariant. *)
LEMMA HandshakeOKInv ==
  ASSUME PoolInv, NEW r \in Requests, NEW proto \in {"h2", "http/1.1"}, HandshakeOK(r, proto)
  PROVE  PoolInv'
  <1> DEFINE multiplexed == UsesH2 /\ (proto = "h2" \/ "ForceH2" \in mode)
  <1>0. /\ poolPc[r] = "tls.handshake" /\ using' = using /\ UNCHANGED <<inputs, waitFor, mux, idle, closes>>
        /\ conn' = [conn EXCEPT ![using[r]] = [kind |-> "tls", state |-> "open", full |-> FALSE]]
        /\ multiplexed => poolPc' = [poolPc EXCEPT ![r] = "h2.handshake"] /\ UNCHANGED <<dials, promise>>
        /\ ~multiplexed => poolPc' = [poolPc EXCEPT ![r] = "h1.take"] /\ SettleFailure(r)
    BY DEF HandshakeOK, Goto, ConnBecomes
  <1>a. multiplexed => UsesH2
    OBVIOUS
  <1> HIDE DEF multiplexed
  <1>1. using[r] = <<r, "tcp">> /\ using[r] \in ConnIds /\ Owns(r) /\ Private(using[r], r)
    BY <1>0, NoConnections, OwnedPrivate DEF PoolInv, RequestsFit, UsingFit, Owns, Owning
  <1>2. /\ dials' \in [Protos -> [Origins -> Requests \cup {None}]]
        /\ promise' \in [Protos -> [Requests -> Resolutions]]
        /\ \A p \in Protos, s \in Requests :
              promise'[p][s] = promise[p][s] \/ promise'[p][s] = NoConn
    BY <1>0, FailureSettles DEF PoolInv, PoolType
  <1>3. PoolType'
    BY <1>0, <1>1, <1>2 DEF PoolInv, PoolType, PoolLabels, inputs, Kinds
  <1>4. /\ poolPc'[r] = IF multiplexed THEN "h2.handshake" ELSE "h1.take"
        /\ MovesOnly(r)
    BY <1>0 DEF PoolInv, PoolType, MovesOnly, inputs
  <1>5. /\ \A d \in ConnIds : d # using[r] => conn'[d] = conn[d]
        /\ conn[using[r]].kind = "tcp" /\ conn'[using[r]].kind = "tls"
    BY <1>0, <1>1 DEF PoolInv, PoolType, RequestsFit, UsingFit
  <1>6. KindsKept(r)
    BY <1>1, <1>5 DEF KindsKept
  <1>7. UsingFit(r)' /\ DialsFresh(r)'
    BY <1>0, <1>1, <1>4, <1>5, <1>a, NoConnections
       DEF UsingFit, DialsFresh, BeforeQuic, BeforeTcp, Owning, inputs, UsesH2
  <1>8. RequestsFit'
    BY <1>4, <1>6, <1>7, OthersFit
  <1>9. KindsFit'
    BY <1>0, <1>2, <1>3, <1>6, KindsStay, NoConnections
  <1>10. Exclusive' /\ LiveConnsKept'
    BY <1>0, <1>1, <1>4, <1>5, OwnersStay DEF Owns, Owning, LiveSocket, Alive
  <1>11. DialsFit'
    <2>1. CASE multiplexed
      BY <1>0, <1>4, <2>1, DialsStay DEF Dialing, WaitLabel, Protos
    <2>2. CASE ~multiplexed
      BY <1>0, <1>4, <2>2, FailureSettled DEF Dialing, WaitLabel, Protos
    <2> QED
      BY <2>1, <2>2
  <1> QED
    BY <1>3, <1>8, <1>9, <1>10, <1>11 DEF PoolInv

(* H2HandshakeOK preserves the invariant. *)
LEMMA H2HandshakeOKInv ==
  ASSUME PoolInv, NEW r \in Requests, H2HandshakeOK(r)
  PROVE  PoolInv'
  <1> USE DEF H2HandshakeOK, Goto, ConnBecomes
  <1>1. /\ using[r] = <<r, "tcp">> /\ using[r] \in ConnIds /\ using[r] # NoConn
        /\ Owns(r) /\ Private(using[r], r) /\ UsesH2
    BY NoConnections, OwnedPrivate DEF PoolInv, RequestsFit, UsingFit, Owns, Owning
  <1>2. PoolType'
    BY <1>1 DEF PoolInv, PoolType, PoolLabels, inputs, Kinds, SettleDial, Resolved, Resolutions, Protos
  <1>3. /\ poolPc[r] = "h2.handshake" /\ poolPc'[r] = "h2.do" /\ MovesOnly(r) /\ using' = using
    BY DEF PoolInv, PoolType, MovesOnly, inputs
  <1>4. /\ \A d \in ConnIds : d # using[r] => conn'[d] = conn[d]
        /\ conn'[using[r]].kind = "h2"
    BY <1>1 DEF PoolInv, PoolType
  <1>5. KindsKept(r)
    BY <1>1, <1>4 DEF KindsKept
  <1>6. UsingFit(r)' /\ DialsFresh(r)'
    BY <1>1, <1>3, <1>4 DEF UsingFit, DialsFresh, BeforeQuic, BeforeTcp, Owning
  <1>7. RequestsFit'
    BY <1>3, <1>5, <1>6, OthersFit
  <1>8. KindsFit'
    <2>1. \A p \in Protos, o \in Origins :
            mux'[p][o] = mux[p][o] \/ (mux'[p][o] = using[r] /\ p = "h2")
      BY DEF PoolInv, PoolType, Protos
    <2>2. \A p \in Protos, s \in Requests :
            promise'[p][s] = promise[p][s] \/ (promise'[p][s] = using[r] /\ p = "h2")
      BY DEF PoolInv, PoolType, Protos, SettleDial, Resolved
    <2> QED
      BY <1>2, <1>4, <1>5, <2>1, <2>2, KindsStay
  <1>9. Exclusive' /\ LiveConnsKept'
    BY <1>1, <1>3, <1>4, OwnersLose DEF Owns, Owning, LiveSocket, Alive
  <1>10. DialsFit'
    BY <1>1, <1>3, DialSettled DEF Dialing, WaitLabel, Protos
  <1> QED
    BY <1>2, <1>7, <1>8, <1>9, <1>10 DEF PoolInv

(* H1Dial preserves the invariant. *)
LEMMA H1DialInv ==
  ASSUME PoolInv, NEW r \in Requests, NEW ok \in BOOLEAN, H1Dial(r, ok)
  PROVE  PoolInv'
  <1> DEFINE c == <<r, "tcp">>
  <1>0. /\ poolPc[r] = "h1.take" /\ using[r] = NoConn /\ UNCHANGED <<inputs, waitFor, mux, dials, promise, idle, closes>>
        /\ ok => /\ conn' = [conn EXCEPT ![c] = [kind |-> "tcp", state |-> "open", full |-> FALSE]]
                 /\ using' = [using EXCEPT ![r] = c]
                 /\ poolPc' = [poolPc EXCEPT ![r] = "h1.do"]
        /\ ~ok => UNCHANGED <<using, conn>> /\ poolPc' = [poolPc EXCEPT ![r] = "done"]
    BY DEF H1Dial, MayTake, Goto, ConnBecomes, Hold
  <1>1. c \in ConnIds /\ conn[c].kind = "none" /\ Private(c, r) /\ ~Owns(r) /\ c # NoConn
    <2>1. c \in ConnIds /\ conn[c].kind = "none" /\ c # NoConn
      BY <1>0, NoConnections DEF PoolInv, RequestsFit, DialsFresh
    <2> QED
      BY <1>0, <2>1, UndialledPrivate DEF Owns
  <1> HIDE DEF c
  <1>2. PoolType'
    <2>1. CASE ok
      <3>1. /\ conn' = [conn EXCEPT ![c] = [kind |-> "tcp", state |-> "open", full |-> FALSE]]
            /\ using' = [using EXCEPT ![r] = c] /\ poolPc' = [poolPc EXCEPT ![r] = "h1.do"]
        BY <1>0, <2>1
      <3>2. conn' \in [ConnIds -> [kind : Kinds, state : {"open", "busy", "lost", "closed"}, full : BOOLEAN]]
        BY <1>1, <3>1 DEF PoolInv, PoolType, Kinds
      <3> QED
        BY <1>0, <1>1, <3>1, <3>2 DEF PoolInv, PoolType, PoolLabels, inputs
    <2>2. CASE ~ok
      BY <1>0, <2>2 DEF PoolInv, PoolType, PoolLabels, inputs, Kinds
    <2> QED
      BY <2>1, <2>2
  <1>3. /\ poolPc'[r] = IF ok THEN "h1.do" ELSE "done"
        /\ using'[r] = IF ok THEN c ELSE NoConn
        /\ MovesOnly(r)
    BY <1>0 DEF PoolInv, PoolType, MovesOnly, inputs
  <1>4. /\ \A d \in ConnIds : d # c => conn'[d] = conn[d]
        /\ conn'[c].kind = IF ok THEN "tcp" ELSE "none"
    BY <1>0, <1>1 DEF PoolInv, PoolType
  <1>5. KindsKept(r)
    BY <1>1, <1>4 DEF KindsKept
  <1>6. UsingFit(r)' /\ DialsFresh(r)'
    <2>1. r \notin https /\ https' = https
      BY <1>0 DEF PoolInv, RequestsFit, UsingFit, inputs
    <2> QED
      BY <1>1, <1>3, <1>4, <2>1 DEF UsingFit, DialsFresh, BeforeQuic, BeforeTcp, Owning
  <1>7. RequestsFit'
    BY <1>3, <1>5, <1>6, OthersFit
  <1>8. KindsFit'
    BY <1>0, <1>2, <1>5, KindsStay
  <1>9. Exclusive' /\ LiveConnsKept'
    <2>1. CASE ok
      BY <1>0, <1>1, <1>3, <1>4, <2>1, OwnersGain DEF Owns, Owning, LiveSocket, Alive
    <2>2. CASE ~ok
      BY <1>0, <1>1, <1>3, <2>2, OwnersStay DEF Owns, Owning, LiveSocket, Alive
    <2> QED
      BY <2>1, <2>2
  <1>10. DialsFit'
    BY <1>0, <1>3, DialsStay DEF Dialing, WaitLabel, Protos
  <1> QED
    BY <1>2, <1>7, <1>8, <1>9, <1>10 DEF PoolInv

(* H1Pop preserves the invariant. *)
LEMMA H1PopInv ==
  ASSUME PoolInv, NEW r \in Requests, H1Pop(r)
  PROVE  PoolInv'
  <1> DEFINE list == idle[origin[r]]
             c == list[Len(list)]
  <1>0. /\ poolPc[r] = "h1.take" /\ using[r] = NoConn /\ list # <<>>
        /\ using' = [using EXCEPT ![r] = c] /\ poolPc' = [poolPc EXCEPT ![r] = "h1.do"]
        /\ idle' = [idle EXCEPT ![origin[r]] = SubSeq(list, 1, Len(list) - 1)]
        /\ UNCHANGED <<inputs, waitFor, mux, dials, promise, conn, closes>>
    BY DEF H1Pop, MayTake, Goto, Hold, Popped
  <1>1. origin[r] \in Origins /\ list \in Seq(ConnIds) /\ Len(list) \in Nat \ {0}
    BY <1>0 DEF PoolInv, PoolType
  <1>2. Len(list) \in 1 .. Len(list) /\ c \in ConnIds /\ conn[c].kind \in {"tcp", "tls"} /\ c # NoConn
    <2>1. Len(list) \in 1 .. Len(list)
      BY <1>1
    <2> QED
      BY <1>1, <2>1, NoConnections DEF PoolInv, KindsFit
  <1>3. SubSeq(list, 1, Len(list) - 1) \in Seq(ConnIds)
        /\ Len(SubSeq(list, 1, Len(list) - 1)) = Len(list) - 1
        /\ \A i \in 1 .. Len(list) - 1 : SubSeq(list, 1, Len(list) - 1)[i] = list[i]
    BY <1>1
  <1>4. /\ \A o \in Origins : o # origin[r] => idle'[o] = idle[o]
        /\ Len(idle'[origin[r]]) = Len(list) - 1
        /\ \A i \in 1 .. Len(list) - 1 : idle'[origin[r]][i] = list[i]
    BY <1>0, <1>1, <1>3 DEF PoolInv, PoolType
  <1>5. \A o \in Origins : \A i \in 1 .. Len(idle'[o]) :
          /\ i \in 1 .. Len(idle[o]) /\ idle'[o][i] = idle[o][i]
          /\ o = origin[r] => i # Len(list)
    BY <1>1, <1>4 DEF PoolInv, PoolType
  <1>6. \A o \in Origins : \A i \in 1 .. Len(idle[o]) :
          (o = origin[r] /\ i = Len(list)) \/ i \in 1 .. Len(idle'[o])
    BY <1>1, <1>4 DEF PoolInv, PoolType
  <1>7. PoolType'
    BY <1>0, <1>1, <1>2, <1>3 DEF PoolInv, PoolType, PoolLabels, inputs
  <1>8. /\ poolPc'[r] = "h1.do" /\ using'[r] = c /\ MovesOnly(r) /\ KindsKept(r) /\ r \notin https /\ https' = https
    BY <1>0 DEF PoolInv, PoolType, RequestsFit, UsingFit, MovesOnly, KindsKept, inputs
  <1>9. UsingFit(r)' /\ DialsFresh(r)'
    BY <1>0, <1>2, <1>8 DEF UsingFit, DialsFresh, BeforeQuic, BeforeTcp, Owning
  <1>10. RequestsFit'
    BY <1>8, <1>9, OthersFit
  <1>11. KindsFit'
    BY <1>0, <1>5 DEF PoolInv, KindsFit
  <1>12. \A s \in Requests \ {r} : (Owns(s)' <=> Owns(s)) /\ using'[s] = using[s] /\ (Owns(s) => using[s] # c)
    BY <1>1, <1>2, <1>8 DEF MovesOnly, Owns, PoolInv, Exclusive
  <1>13. ~Owns(r) /\ Owns(r)'
    BY <1>0, <1>2, <1>8 DEF Owns, Owning
  <1>14. Exclusive'
    <2>1. \A o \in Origins : \A i \in 1 .. Len(idle'[o]) : idle'[o][i] # c
      BY <1>1, <1>2, <1>5 DEF PoolInv, Exclusive
    <2>2. \A s, q \in Requests : Owns(s)' /\ Owns(q)' /\ using'[s] = using'[q] => s = q
      BY <1>8, <1>12 DEF PoolInv, Exclusive
    <2>3. \A s \in Requests : Owns(s)' =>
            \A o \in Origins : \A i \in 1 .. Len(idle'[o]) : idle'[o][i] # using'[s]
      BY <1>5, <1>8, <1>12, <2>1 DEF PoolInv, Exclusive
    <2>4. \A o, q \in Origins : \A i \in 1 .. Len(idle'[o]), j \in 1 .. Len(idle'[q]) :
            idle'[o][i] = idle'[q][j] => o = q /\ i = j
      BY <1>5 DEF PoolInv, Exclusive
    <2> QED
      BY <2>2, <2>3, <2>4 DEF Exclusive
  <1>15. LiveConnsKept'
    <2> SUFFICES ASSUME NEW d \in ConnIds, LiveSocket(d)
                 PROVE  \/ \E o \in Origins : \E i \in 1 .. Len(idle'[o]) : idle'[o][i] = d
                        \/ \E s \in Requests : Owns(s)' /\ using'[s] = d
      BY <1>0 DEF LiveConnsKept, LiveSocket, Alive
    <2>1. CASE \E s \in Requests : Owns(s) /\ using[s] = d
      BY <1>12, <1>13, <2>1
    <2>2. CASE \E o \in Origins : \E i \in 1 .. Len(idle[o]) : idle[o][i] = d
      BY <1>5, <1>6, <1>8, <1>13, <2>2
    <2> QED
      BY <2>1, <2>2 DEF PoolInv, LiveConnsKept
  <1>16. DialsFit'
    BY <1>0, <1>8, DialsStay DEF Dialing, WaitLabel, Protos
  <1> QED
    BY <1>7, <1>10, <1>11, <1>14, <1>15, <1>16 DEF PoolInv

(* H1Return preserves the invariant. *)
LEMMA H1ReturnInv ==
  ASSUME PoolInv, NEW r \in Requests, H1Return(r)
  PROVE  PoolInv'
  <1> DEFINE list == idle[origin[r]]
             c == using[r]
  <1>0. /\ poolPc[r] = "h1.do"
        /\ using' = [using EXCEPT ![r] = NoConn] /\ poolPc' = [poolPc EXCEPT ![r] = "done"]
        /\ idle' = [idle EXCEPT ![origin[r]] = Append(list, c)]
        /\ UNCHANGED <<inputs, waitFor, mux, dials, promise, conn, closes>>
    BY DEF H1Return, Returned, Goto, Hold
  <1>1. /\ origin[r] \in Origins /\ list \in Seq(ConnIds) /\ Len(list) \in Nat
        /\ c \in ConnIds /\ conn[c].kind \in {"tcp", "tls"} /\ Owns(r)
    <2>1. origin[r] \in Origins /\ list \in Seq(ConnIds) /\ Len(list) \in Nat
      BY DEF PoolInv, PoolType
    <2>2. Owns(r)
      BY <1>0 DEF PoolInv, RequestsFit, UsingFit, Owns, Owning
    <2> QED
      BY <2>1, <2>2, OwnedKind
  <1>2. /\ Append(list, c) \in Seq(ConnIds) /\ Len(Append(list, c)) = Len(list) + 1
        /\ \A i \in 1 .. Len(list) : Append(list, c)[i] = list[i]
        /\ Append(list, c)[Len(list) + 1] = c
    BY <1>1
  <1>3. /\ \A o \in Origins : o # origin[r] => idle'[o] = idle[o]
        /\ idle'[origin[r]] = Append(list, c)
    BY <1>0, <1>1 DEF PoolInv, PoolType
  <1>4. \A o \in Origins : \A i \in 1 .. Len(idle'[o]) :
          \/ i \in 1 .. Len(idle[o]) /\ idle'[o][i] = idle[o][i]
          \/ o = origin[r] /\ i = Len(list) + 1 /\ idle'[o][i] = c
    <2> SUFFICES ASSUME NEW o \in Origins, NEW i \in 1 .. Len(idle'[o])
                 PROVE  \/ i \in 1 .. Len(idle[o]) /\ idle'[o][i] = idle[o][i]
                        \/ o = origin[r] /\ i = Len(list) + 1 /\ idle'[o][i] = c
      OBVIOUS
    <2>1. CASE o # origin[r]
      BY <1>3, <2>1
    <2>2. CASE o = origin[r]
      BY <1>1, <1>2, <1>3, <2>2
    <2> QED
      BY <2>1, <2>2
  <1>5. \A o \in Origins : \A i \in 1 .. Len(idle[o]) :
          i \in 1 .. Len(idle'[o]) /\ idle'[o][i] = idle[o][i]
    <2> SUFFICES ASSUME NEW o \in Origins, NEW i \in 1 .. Len(idle[o])
                 PROVE  i \in 1 .. Len(idle'[o]) /\ idle'[o][i] = idle[o][i]
      OBVIOUS
    <2>1. CASE o # origin[r]
      BY <1>3, <2>1
    <2>2. CASE o = origin[r]
      BY <1>1, <1>2, <1>3, <2>2
    <2> QED
      BY <2>1, <2>2
  <1>6. Len(list) + 1 \in 1 .. Len(idle'[origin[r]]) /\ idle'[origin[r]][Len(list) + 1] = c
    BY <1>1, <1>2, <1>3
  <1>7. PoolType'
    BY <1>0, <1>1, <1>2 DEF PoolInv, PoolType, PoolLabels, inputs
  <1>8. poolPc'[r] = "done" /\ using'[r] = NoConn /\ MovesOnly(r) /\ KindsKept(r)
    BY <1>0 DEF PoolInv, PoolType, MovesOnly, KindsKept, inputs
  <1>9. UsingFit(r)' /\ DialsFresh(r)'
    BY <1>8 DEF UsingFit, DialsFresh, BeforeQuic, BeforeTcp, Owning
  <1>10. RequestsFit'
    BY <1>8, <1>9, OthersFit
  <1>11. KindsFit'
    BY <1>0, <1>1, <1>4 DEF PoolInv, KindsFit
  <1>12. \A s \in Requests \ {r} : (Owns(s)' <=> Owns(s)) /\ using'[s] = using[s] /\ (Owns(s) => using[s] # c)
    BY <1>1, <1>8 DEF MovesOnly, Owns, PoolInv, Exclusive
  <1>13. ~Owns(r)'
    BY <1>8 DEF Owns
  <1>14. Exclusive'
    <2>1. \A o \in Origins : \A i \in 1 .. Len(idle[o]) : idle[o][i] # c
      BY <1>1 DEF PoolInv, Exclusive
    <2>2. \A s, q \in Requests : Owns(s)' /\ Owns(q)' /\ using'[s] = using'[q] => s = q
      BY <1>12, <1>13 DEF PoolInv, Exclusive
    <2>3. \A s \in Requests : Owns(s)' =>
            \A o \in Origins : \A i \in 1 .. Len(idle'[o]) : idle'[o][i] # using'[s]
      BY <1>4, <1>12, <1>13 DEF PoolInv, Exclusive
    <2>4. \A o, q \in Origins : \A i \in 1 .. Len(idle'[o]), j \in 1 .. Len(idle'[q]) :
            idle'[o][i] = idle'[q][j] => o = q /\ i = j
      BY <1>4, <2>1 DEF PoolInv, Exclusive
    <2> QED
      BY <2>2, <2>3, <2>4 DEF Exclusive
  <1>15. LiveConnsKept'
    <2> SUFFICES ASSUME NEW d \in ConnIds, LiveSocket(d)
                 PROVE  \/ \E o \in Origins : \E i \in 1 .. Len(idle'[o]) : idle'[o][i] = d
                        \/ \E s \in Requests : Owns(s)' /\ using'[s] = d
      BY <1>0 DEF LiveConnsKept, LiveSocket, Alive
    <2>1. CASE \E s \in Requests : Owns(s) /\ using[s] = d
      BY <1>1, <1>6, <1>12, <2>1
    <2>2. CASE \E o \in Origins : \E i \in 1 .. Len(idle[o]) : idle[o][i] = d
      BY <1>5, <2>2
    <2> QED
      BY <2>1, <2>2 DEF PoolInv, LiveConnsKept
  <1>16. DialsFit'
    BY <1>0, <1>8, DialsStay DEF Dialing, WaitLabel, Protos
  <1> QED
    BY <1>7, <1>10, <1>11, <1>14, <1>15, <1>16 DEF PoolInv

(* CloseIdleConnections preserves the invariant: dials in flight go on. *)
LEMMA CloseIdleConnectionsInv ==
  ASSUME PoolInv, CloseIdleConnections
  PROVE  PoolInv'
  <1> DEFINE Ceased(c) == [conn[c] EXCEPT !.state = "closed"]
  <1>1. /\ UNCHANGED <<inputs, poolPc, using, waitFor, promise>> /\ closes' = closes + 1
        /\ idle' = [o \in Origins |-> <<>>]
        /\ mux' = [p \in Protos |-> [o \in Origins |-> NoConn]]
        /\ dials' = [p \in Protos |-> [o \in Origins |-> None]]
        /\ conn' = [c \in ConnIds |-> IF c \in Pooled THEN Ceased(c) ELSE conn[c]]
    BY DEF CloseIdleConnections
  <1>2. \A c \in ConnIds :
          /\ conn'[c] \in [kind : Kinds, state : {"open", "busy", "lost", "closed"}, full : BOOLEAN]
          /\ conn'[c].kind = conn[c].kind
          /\ LiveSocket(c)' => LiveSocket(c) /\ c \notin Pooled
    <2> SUFFICES ASSUME NEW c \in ConnIds
                 PROVE  /\ conn'[c] \in [kind : Kinds, state : {"open", "busy", "lost", "closed"}, full : BOOLEAN]
                        /\ conn'[c].kind = conn[c].kind
                        /\ LiveSocket(c)' => LiveSocket(c) /\ c \notin Pooled
      OBVIOUS
    <2>1. conn[c] \in [kind : Kinds, state : {"open", "busy", "lost", "closed"}, full : BOOLEAN]
      BY DEF PoolInv, PoolType
    <2>2. CASE c \in Pooled
      <3>1. conn'[c] = Ceased(c)
        BY <1>1, <2>2
      <3> QED
        BY <2>1, <3>1 DEF LiveSocket, Alive
    <2>3. CASE c \notin Pooled
      <3>1. conn'[c] = conn[c]
        BY <1>1, <2>3
      <3> QED
        BY <2>1, <2>3, <3>1 DEF LiveSocket, Alive
    <2> QED
      BY <2>2, <2>3
  <1>3. PoolType'
    <2>1. conn' \in [ConnIds -> [kind : Kinds, state : {"open", "busy", "lost", "closed"}, full : BOOLEAN]]
      BY <1>1, <1>2
    <2> QED
      BY <1>1, <2>1 DEF PoolInv, PoolType, inputs
  <1>4. RequestsFit'
    <2> SUFFICES ASSUME NEW r \in Requests PROVE UsingFit(r)' /\ DialsFresh(r)'
      BY DEF RequestsFit
    <2>1. UsingFit(r) /\ DialsFresh(r)
      BY DEF PoolInv, RequestsFit
    <2>2. using[r] # NoConn => using[r] \in ConnIds
      BY HeldKind
    <2> QED
      BY <1>1, <1>2, <2>1, <2>2, NoConnections DEF UsingFit, DialsFresh, inputs, UsesH2, Owning
  <1>5. KindsFit'
    <2>1. \A p \in Protos, r \in Requests :
            promise[p][r] \in ConnIds => conn'[promise[p][r]].kind = p
      BY <1>2 DEF PoolInv, KindsFit
    <2> QED
      BY <1>1, <2>1 DEF KindsFit
  <1>6. \A r \in Requests : Owns(r)' <=> Owns(r)
    BY <1>1 DEF Owns
  <1>7. Exclusive'
    BY <1>1, <1>6 DEF PoolInv, Exclusive
  <1>8. DialsFit'
    <2>1. closes' # 0
      BY <1>1 DEF PoolInv, PoolType
    <2> QED
      BY <1>1, <2>1 DEF PoolInv, DialsFit, inputs, UsesH2
  <1>9. LiveConnsKept'
    <2> SUFFICES ASSUME NEW c \in ConnIds, LiveSocket(c)'
                 PROVE  \E r \in Requests : Owns(r)' /\ using'[r] = c
      BY DEF LiveConnsKept
    <2>1. LiveSocket(c) /\ c \notin Pooled
      BY <1>2
    <2>2. \A o \in Origins : \A i \in 1 .. Len(idle[o]) : idle[o][i] # c
      BY <2>1 DEF Pooled, Idle
    <2>3. \E r \in Requests : Owns(r) /\ using[r] = c
      BY <2>1, <2>2 DEF PoolInv, LiveConnsKept
    <2> QED
      BY <1>1, <1>6, <2>3
  <1> QED
    BY <1>3, <1>4, <1>5, <1>7, <1>8, <1>9 DEF PoolInv

(* So does whatever the peer does. *)
LEMMA PeerSetsInv ==
  ASSUME PoolInv, NEW c \in ConnIds, NEW s \in {"open", "busy", "lost"}, PeerSets(c, s)
  PROVE  PoolInv'
  <1>1. /\ UNCHANGED <<inputs, poolPc, using, waitFor, mux, dials, promise, idle, closes>>
        /\ conn' = [conn EXCEPT ![c] = [kind |-> @.kind, state |-> s, full |-> @.full \/ s = "busy"]]
        /\ Alive(c)
    BY DEF PeerSets
  <1>2. \A d \in ConnIds :
          conn'[d].kind = conn[d].kind /\ (LiveSocket(d)' => LiveSocket(d))
    BY <1>1 DEF PoolInv, PoolType, LiveSocket, Alive
  <1>3. PoolType'
    BY <1>1 DEF PoolInv, PoolType, inputs
  <1>4. RequestsFit'
    <2> SUFFICES ASSUME NEW r \in Requests PROVE UsingFit(r)' /\ DialsFresh(r)'
      BY DEF RequestsFit
    <2>1. UsingFit(r) /\ DialsFresh(r)
      BY DEF PoolInv, RequestsFit
    <2>2. using[r] # NoConn => using[r] \in ConnIds
      BY HeldKind
    <2> QED
      BY <1>1, <1>2, <2>1, <2>2, NoConnections DEF UsingFit, DialsFresh, inputs, UsesH2, Owning
  <1>5. KindsFit'
    <2>1. \A o \in Origins : \A i \in 1 .. Len(idle[o]) : idle[o][i] \in ConnIds
      BY DEF PoolInv, PoolType
    <2>2. \A p \in Protos, o \in Origins : mux[p][o] # NoConn => mux[p][o] \in ConnIds
      BY DEF PoolInv, PoolType
    <2> QED
      BY <1>1, <1>2, <2>1, <2>2 DEF PoolInv, KindsFit
  <1>6. \A r \in Requests : Owns(r)' <=> Owns(r)
    BY <1>1 DEF Owns
  <1>7. Exclusive'
    BY <1>1, <1>6 DEF PoolInv, Exclusive
  <1>8. DialsFit'
    BY <1>1 DEF PoolInv, DialsFit, inputs, UsesH2
  <1>9. LiveConnsKept'
    BY <1>1, <1>2, <1>6 DEF PoolInv, LiveConnsKept
  <1> QED
    BY <1>3, <1>4, <1>5, <1>7, <1>8, <1>9 DEF PoolInv

(* A step that changes nothing changes nothing. *)
LEMMA PoolStutterInv ==
  ASSUME PoolInv, UNCHANGED poolVars
  PROVE  PoolInv'
  <1> USE DEF poolVars
  <1>1. PoolType'
    BY DEF PoolInv, PoolType
  <1>2. RequestsFit'
    BY DEF PoolInv, RequestsFit, UsingFit, DialsFresh, UsesH2
  <1>3. KindsFit'
    BY DEF PoolInv, KindsFit
  <1>4. Exclusive'
    BY DEF PoolInv, Exclusive, Owns
  <1>5. DialsFit'
    BY DEF PoolInv, DialsFit, UsesH2
  <1>6. LiveConnsKept'
    BY DEF PoolInv, LiveConnsKept, Owns, LiveSocket, Alive
  <1> QED
    BY <1>1, <1>2, <1>3, <1>4, <1>5, <1>6 DEF PoolInv

-----------------------------------------------------------------------------
(* Every step of the pool preserves the invariant. *)
LEMMA PoolNextInv == PoolInv /\ [PoolNext]_poolVars => PoolInv'
  <1> SUFFICES ASSUME PoolInv, [PoolNext]_poolVars PROVE PoolInv'
    OBVIOUS
  <1>1. ASSUME NEW r \in Requests, PoolStep(r) PROVE PoolInv'
    BY <1>1, DoCtxInv, ReuseInv, JoinInv, PromiseInv, WokenUseInv, WokenRetryInv, SkipPromiseInv,
       H3DialOKInv, H3DialFailsInv, TcpDialOKInv, TcpDialFailsInv, HandshakeFailsInv,
       HandshakeOKInv, H2HandshakeOKInv, MuxDoneInv, H1ExistingInv, H1PopInv, H1DialInv,
       H1ReturnInv, H1CloseInv DEF PoolStep
  <1>2. ASSUME Environment PROVE PoolInv'
    BY <1>2, PoolWaitCancelledInv, CloseIdleConnectionsInv, PeerSetsInv DEF Environment
  <1>3. ASSUME UNCHANGED poolVars PROVE PoolInv'
    BY <1>3, PoolStutterInv
  <1> QED
    BY <1>1, <1>2, <1>3 DEF PoolNext, PoolTerminated

-----------------------------------------------------------------------------
(* A multiplexed connection that always admitted another stream stays where *)
(* the next request finds it: it is the entry of its map, and nobody dials  *)
(* the same protocol and origin, as long as CloseIdleConnections did not    *)
(* run.                                                                     *)
MuxKept ==
  /\ \A c \in ConnIds : conn[c].state = "busy" => conn[c].full
  /\ closes = 0 => \A c \in ConnIds : Current(c) => mux[conn[c].kind][origin[c[1]]] = c
  /\ closes = 0 => \A p \in Protos, r \in Requests, c \in ConnIds :
       promise[p][r] = Pending /\ mux[p][origin[r]] = c => ~Current(c)

(* A step that makes no connection current and no promise pending. *)
LEMMA MuxStays ==
  ASSUME PoolInv, MuxKept, UNCHANGED <<origin, mux, closes>>,
         \A c \in ConnIds : Current(c)' => Current(c) /\ conn'[c].kind = conn[c].kind,
         \A c \in ConnIds : conn'[c].state = "busy" => conn'[c].full,
         \A p \in Protos, r \in Requests : promise'[p][r] = Pending => promise[p][r] = Pending
  PROVE  MuxKept'
  <1>1. closes' = 0 => \A c \in ConnIds : Current(c)' => mux'[conn'[c].kind][origin'[c[1]]] = c
    BY DEF MuxKept
  <1>2. ASSUME closes' = 0, NEW p \in Protos, NEW r \in Requests, NEW c \in ConnIds,
               promise'[p][r] = Pending, mux'[p][origin'[r]] = c
        PROVE  ~Current(c)'
    BY <1>2 DEF MuxKept
  <1> QED
    BY <1>1, <1>2 DEF MuxKept

(* A step that changes no connection. *)
LEMMA MuxIdle ==
  ASSUME PoolInv, MuxKept, UNCHANGED <<origin, mux, conn, closes>>,
         \A p \in Protos, r \in Requests : promise'[p][r] = Pending => promise[p][r] = Pending
  PROVE  MuxKept'
  <1>1. \A c \in ConnIds : Current(c)' <=> Current(c)
    BY DEF Current, Alive
  <1>2. \A c \in ConnIds : conn'[c].state = "busy" => conn'[c].full
    BY DEF MuxKept
  <1> QED
    BY <1>1, <1>2, MuxStays

(* A step that makes one connection what is not current. *)
LEMMA MuxOther ==
  ASSUME PoolInv, MuxKept, UNCHANGED <<origin, mux, closes>>, NEW c \in ConnIds,
         \A d \in ConnIds \ {c} : conn'[d] = conn[d],
         conn'[c].state # "busy", conn'[c].state = "closed" \/ conn'[c].kind \notin Protos,
         \A p \in Protos, r \in Requests : promise'[p][r] = Pending => promise[p][r] = Pending
  PROVE  MuxKept'
  <1>1. \A d \in ConnIds : Current(d)' => Current(d) /\ conn'[d].kind = conn[d].kind
    BY DEF Current, Alive
  <1>2. \A d \in ConnIds : conn'[d].state = "busy" => conn'[d].full
    BY DEF MuxKept
  <1> QED
    BY <1>1, <1>2, MuxStays

(* The dialer of a promise enters its connection: the entry it overwrites   *)
(* was none, dead, or had reached its stream limit.                         *)
LEMMA MuxGains ==
  ASSUME PoolInv, MuxKept, UNCHANGED <<origin, closes>>,
         NEW p \in Protos, NEW r \in Requests, NEW c \in ConnIds, c[1] = r, Private(c, r),
         promise[p][r] = Pending, SettleDial(p, r, c),
         mux' = [mux EXCEPT ![p][origin[r]] = c],
         conn' = [conn EXCEPT ![c] = [kind |-> p, state |-> "open", full |-> FALSE]]
  PROVE  MuxKept'
  <1>0. /\ conn'[c] = [kind |-> p, state |-> "open", full |-> FALSE]
        /\ \A d \in ConnIds \ {c} : conn'[d] = conn[d]
        /\ mux'[p][origin[r]] = c
        /\ \A q \in Protos, o \in Origins : q # p \/ o # origin[r] => mux'[q][o] = mux[q][o]
        /\ c # NoConn /\ origin[r] \in Origins
    BY NoConnections DEF PoolInv, PoolType
  <1>1. \A d \in ConnIds : conn'[d].state = "busy" => conn'[d].full
    BY <1>0 DEF MuxKept
  <1>2. ASSUME closes' = 0, NEW d \in ConnIds, Current(d)'
        PROVE  mux'[conn'[d].kind][origin'[d[1]]] = d
    <2>1. CASE d = c
      BY <1>0, <2>1
    <2>2. CASE d # c
      <3>1. conn'[d] = conn[d] /\ Current(d) /\ conn[d].kind \in Protos /\ origin[d[1]] \in Origins
        BY <1>0, <1>2, <2>2 DEF Current, Alive, ConnIds, PoolInv, PoolType
      <3>2. mux[conn[d].kind][origin[d[1]]] = d /\ d # NoConn
        BY <1>2, <3>1, NoConnections DEF MuxKept
      <3>3. ~(conn[d].kind = p /\ origin[d[1]] = origin[r])
        BY <1>2, <3>1, <3>2 DEF MuxKept
      <3> QED
        BY <1>0, <3>1, <3>2, <3>3
    <2> QED
      BY <2>1, <2>2
  <1>3. ASSUME closes' = 0, NEW q \in Protos, NEW s \in Requests, NEW d \in ConnIds,
               promise'[q][s] = Pending, mux'[q][origin'[s]] = d
        PROVE  ~Current(d)'
    <2>1. promise[q][s] = Pending /\ (q = p => s # r) /\ origin[s] \in Origins
      BY <1>3, <1>0, NoConnections DEF SettleDial, Resolved, PoolInv, PoolType
    <2>2. q # p \/ origin[s] # origin[r]
      <3> SUFFICES ASSUME q = p, origin[s] = origin[r] PROVE FALSE
        OBVIOUS
      <3>1. dials[p][origin[r]] = r /\ dials[p][origin[s]] = s
        BY <1>3, <2>1 DEF PoolInv, DialsFit
      <3> QED
        BY <2>1, <3>1
    <2>3. mux[q][origin[s]] = d
      BY <1>0, <1>3, <2>1, <2>2
    <2>4. d # c
      BY <2>1, <2>3 DEF Private
    <2>5. ~Current(d)
      BY <1>3, <2>1, <2>3 DEF MuxKept
    <2> QED
      BY <1>0, <2>4, <2>5 DEF Current, Alive
  <1> QED
    BY <1>1, <1>2, <1>3 DEF MuxKept

(* Every step of the pool keeps multiplexed connections where they are. *)
LEMMA MuxNext == PoolInv /\ MuxKept /\ [PoolNext]_poolVars => MuxKept'
  <1> SUFFICES ASSUME PoolInv, MuxKept, [PoolNext]_poolVars PROVE MuxKept'
    OBVIOUS
  <1> USE DEF Goto, Hold, inputs
  <1>1. ASSUME NEW r \in Requests, PoolStep(r) PROVE MuxKept'
    <2>1. CASE DoCtx(r) \/ SkipPromise(r) \/ H1Existing(r) \/ H1Pop(r) \/ H1Return(r)
      BY <2>1, MuxIdle DEF DoCtx, SkipPromise, H1Existing, H1Pop, H1Return
    <2>2. ASSUME NEW p \in Protos, Reuse(p, r) \/ Join(p, r) \/ WokenUse(p, r) \/ WokenRetry(p, r)
          PROVE  MuxKept'
      BY <2>2, MuxIdle DEF Reuse, Join, WokenUse, WokenRetry
    <2>3. ASSUME NEW p \in Protos, Promise(p, r) PROVE MuxKept'
      <3>1. /\ UNCHANGED <<origin, mux, conn, closes>> /\ ~Usable(p, mux[p][origin[r]])
            /\ promise' = [promise EXCEPT ![p][r] = Pending]
        BY <2>3 DEF Promise, Served
      <3>2. \A c \in ConnIds : mux[p][origin[r]] = c => ~Current(c)
        BY <3>1, NoConnections DEF Usable, Current, Alive, MuxKept
      <3>3. \A c \in ConnIds : Current(c)' <=> Current(c)
        BY <3>1 DEF Current, Alive
      <3>4. \A q \in Protos, s \in Requests :
              promise'[q][s] = Pending => promise[q][s] = Pending \/ (q = p /\ s = r)
        BY <3>1 DEF PoolInv, PoolType
      <3>5. closes' = 0 => \A q \in Protos, s \in Requests, c \in ConnIds :
              promise'[q][s] = Pending /\ mux'[q][origin'[s]] = c => ~Current(c)'
        BY <3>1, <3>2, <3>3, <3>4 DEF MuxKept
      <3> QED
        BY <3>1, <3>3, <3>5 DEF MuxKept
    <2>4. CASE H3DialOK(r)
      <3>1. /\ <<r, "quic">> \in ConnIds /\ Private(<<r, "quic">>, r)
            /\ promise["h3"][r] = Pending /\ "h3" \in Protos
        BY <2>4, NoConnections, UndialledPrivate
           DEF H3DialOK, PoolInv, RequestsFit, DialsFresh, BeforeQuic, DialsFit, Dialing, Protos
      <3>2. /\ UNCHANGED <<origin, closes>> /\ SettleDial("h3", r, <<r, "quic">>)
            /\ mux' = [mux EXCEPT !["h3"][origin[r]] = <<r, "quic">>]
            /\ conn' = [conn EXCEPT ![<<r, "quic">>] = [kind |-> "h3", state |-> "open", full |-> FALSE]]
        BY <2>4 DEF H3DialOK, ConnBecomes
      <3>3. <<r, "quic">>[1] = r
        OBVIOUS
      <3> QED
        BY <3>1, <3>2, <3>3, MuxGains
    <2>5. CASE H2HandshakeOK(r)
      <3>1. /\ using[r] = <<r, "tcp">> /\ <<r, "tcp">> \in ConnIds /\ Private(<<r, "tcp">>, r)
            /\ promise["h2"][r] = Pending /\ "h2" \in Protos
        <4>1. poolPc[r] = "h2.handshake" /\ using[r] = <<r, "tcp">> /\ using[r] # NoConn /\ UsesH2
          BY <2>5, NoConnections DEF H2HandshakeOK, PoolInv, RequestsFit, UsingFit
        <4>2. <<r, "tcp">> \in ConnIds /\ Private(<<r, "tcp">>, r)
          BY <4>1, NoConnections, OwnedPrivate DEF Owns, Owning
        <4>3. promise["h2"][r] = Pending
          BY <4>1 DEF PoolInv, DialsFit, Dialing, Protos
        <4> QED
          BY <4>1, <4>2, <4>3 DEF Protos
      <3>2. /\ UNCHANGED <<origin, closes>> /\ SettleDial("h2", r, <<r, "tcp">>)
            /\ mux' = [mux EXCEPT !["h2"][origin[r]] = <<r, "tcp">>]
            /\ conn' = [conn EXCEPT ![<<r, "tcp">>] = [kind |-> "h2", state |-> "open", full |-> FALSE]]
        BY <2>5, <3>1 DEF H2HandshakeOK, ConnBecomes
      <3>3. <<r, "tcp">>[1] = r
        OBVIOUS
      <3> QED
        BY <3>1, <3>2, <3>3, MuxGains
    <2>6. CASE H3DialFails(r)
      <3>1. \A p \in Protos, s \in Requests : promise'[p][s] = Pending => promise[p][s] = Pending
        BY <2>6, NoConnections DEF H3DialFails, SettleDial, Resolved, PoolInv, PoolType
      <3> QED
        BY <2>6, <3>1, MuxIdle DEF H3DialFails
    <2>7. ASSUME SettleFailure(r) \/ UNCHANGED promise
          PROVE  \A p \in Protos, s \in Requests : promise'[p][s] = Pending => promise[p][s] = Pending
      BY <2>7, FailureSettles, NoConnections
    <2>8. CASE TcpDialFails(r)
      BY <2>7, <2>8, MuxIdle DEF TcpDialFails
    <2>9. CASE TcpDialOK(r)
      <3>1. <<r, "tcp">> \in ConnIds
        BY NoConnections
      <3>2. /\ conn'[<<r, "tcp">>] = [kind |-> "tcp", state |-> "open", full |-> FALSE]
            /\ \A d \in ConnIds \ {<<r, "tcp">>} : conn'[d] = conn[d]
            /\ UNCHANGED <<origin, mux, closes, promise>>
        BY <2>9, <3>1 DEF TcpDialOK, ConnBecomes, PoolInv, PoolType
      <3> QED
        BY <3>1, <3>2, MuxOther DEF Protos
    <2>10. ASSUME HandshakeFails(r) \/ H1Close(r) PROVE MuxKept'
      <3>1. using[r] \in ConnIds
        BY <2>10, NoConnections DEF HandshakeFails, H1Close, PoolInv, PoolType, RequestsFit, UsingFit
      <3>2. /\ conn'[using[r]].state = "closed" /\ UNCHANGED <<origin, mux, closes>>
            /\ \A d \in ConnIds \ {using[r]} : conn'[d] = conn[d]
            /\ SettleFailure(r) \/ UNCHANGED promise
        BY <2>10, <3>1 DEF HandshakeFails, H1Close, ShutRaw, ShutH1, PoolInv, PoolType
      <3> QED
        BY <2>7, <3>1, <3>2, MuxOther
    <2>11. ASSUME NEW proto \in {"h2", "http/1.1"}, HandshakeOK(r, proto) PROVE MuxKept'
      <3>1. using[r] \in ConnIds
        BY <2>11, NoConnections DEF HandshakeOK, PoolInv, PoolType, RequestsFit, UsingFit
      <3>2. /\ conn'[using[r]] = [kind |-> "tls", state |-> "open", full |-> FALSE]
            /\ UNCHANGED <<origin, mux, closes>>
            /\ \A d \in ConnIds \ {using[r]} : conn'[d] = conn[d]
            /\ SettleFailure(r) \/ UNCHANGED promise
        BY <2>11, <3>1 DEF HandshakeOK, ConnBecomes, PoolInv, PoolType
      <3> QED
        BY <2>7, <3>1, <3>2, MuxOther DEF Protos
    <2>12. ASSUME NEW ok \in BOOLEAN, MuxDone(r, ok) PROVE MuxKept'
      BY <2>12, MuxIdle DEF MuxDone
    <2>13. ASSUME NEW ok \in BOOLEAN, H1Dial(r, ok) PROVE MuxKept'
      <3>1. CASE ok
        <4>1. <<r, "tcp">> \in ConnIds
          BY NoConnections
        <4>2. /\ conn'[<<r, "tcp">>] = [kind |-> "tcp", state |-> "open", full |-> FALSE]
              /\ \A d \in ConnIds \ {<<r, "tcp">>} : conn'[d] = conn[d]
              /\ UNCHANGED <<origin, mux, closes, promise>>
          BY <2>13, <3>1, <4>1 DEF H1Dial, ConnBecomes, PoolInv, PoolType
        <4> QED
          BY <4>1, <4>2, MuxOther DEF Protos
      <3>2. CASE ~ok
        BY <2>13, <3>2, MuxIdle DEF H1Dial
      <3> QED
        BY <3>1, <3>2
    <2> QED
      BY <1>1, <2>1, <2>2, <2>3, <2>4, <2>5, <2>6, <2>8, <2>9, <2>10, <2>11, <2>12, <2>13 DEF PoolStep
  <1>2. CASE Environment
    <2>1. ASSUME NEW p \in Protos, NEW r \in Requests, PoolWaitCancelled(p, r) PROVE MuxKept'
      BY <2>1, MuxIdle DEF PoolWaitCancelled
    <2>2. CASE CloseIdleConnections
      <3>1. closes' # 0
        BY <2>2 DEF CloseIdleConnections, PoolInv, PoolType
      <3>2. \A c \in ConnIds : conn'[c] = [conn[c] EXCEPT !.state = "closed"] \/ conn'[c] = conn[c]
        BY <2>2 DEF CloseIdleConnections
      <3>3. \A c \in ConnIds : conn'[c].state = "busy" => conn'[c].full
        <4> SUFFICES ASSUME NEW c \in ConnIds, conn'[c].state = "busy" PROVE conn'[c].full
          OBVIOUS
        <4>1. conn[c] \in [kind : Kinds, state : {"open", "busy", "lost", "closed"}, full : BOOLEAN]
          BY DEF PoolInv, PoolType
        <4>2. conn'[c] = conn[c]
          BY <3>2, <4>1
        <4> QED
          BY <4>2 DEF MuxKept
      <3> QED
        BY <3>1, <3>3 DEF MuxKept
    <2>3. ASSUME NEW c \in ConnIds, NEW s \in {"open", "busy", "lost"}, PeerSets(c, s) PROVE MuxKept'
      <3>1. /\ conn' = [conn EXCEPT ![c] = [kind |-> @.kind, state |-> s, full |-> @.full \/ s = "busy"]]
            /\ Alive(c) /\ UNCHANGED <<origin, mux, promise, closes>>
        BY <2>3 DEF PeerSets
      <3>2. /\ conn'[c].kind = conn[c].kind /\ conn'[c].full = (conn[c].full \/ s = "busy") /\ conn'[c].state = s
            /\ \A d \in ConnIds \ {c} : conn'[d] = conn[d]
        BY <3>1 DEF PoolInv, PoolType
      <3>3. \A d \in ConnIds : Current(d)' => Current(d) /\ conn'[d].kind = conn[d].kind
        BY <3>1, <3>2 DEF Current, Alive
      <3>4. \A d \in ConnIds : conn'[d].state = "busy" => conn'[d].full
        BY <3>2 DEF MuxKept
      <3> QED
        BY <3>1, <3>3, <3>4, MuxStays
    <2> QED
      BY <1>2, <2>1, <2>2, <2>3 DEF Environment
  <1>3. CASE UNCHANGED poolVars
    BY <1>3, MuxIdle DEF poolVars
  <1> QED
    BY <1>1, <1>2, <1>3 DEF PoolNext, PoolTerminated

(* The pool is what its invariant says, in every reachable state. *)
THEOREM PoolInvariance == PoolSpec => []PoolInv
  BY PoolInitInv, PoolNextInv, PTL DEF PoolSpec

(* So are the maps of multiplexed connections. *)
LEMMA MuxInvariance == PoolSpec => []MuxKept
  <1>1. PoolInit => MuxKept
    BY DEF PoolInit, MuxKept, Current, Alive, Unmade, Pending
  <1> QED
    BY <1>1, MuxNext, PoolInvariance, PTL DEF PoolSpec

(* An HTTP/1.1 connection carries one exchange at a time, and no https      *)
(* request travels without TLS (pool.go, doH1 and doTLS).                   *)
THEOREM PoolExclusiveH1 == PoolSpec => []ExclusiveH1
  <1>1. PoolInv => ExclusiveH1
    <2> SUFFICES ASSUME PoolInv PROVE ExclusiveH1
      OBVIOUS
    <2>1. ASSUME NEW r \in Requests, poolPc[r] = "h1.do"
          PROVE  /\ using[r] \notin Idle
                 /\ \A s \in Requests : poolPc[s] = "h1.do" /\ using[s] = using[r] => s = r
      <3>1. \A s \in Requests : poolPc[s] = "h1.do" => Owns(s)
        BY DEF PoolInv, RequestsFit, UsingFit, Owns, Owning
      <3>2. using[r] \notin Idle
        BY <2>1, <3>1 DEF PoolInv, Exclusive, Idle
      <3>3. \A s \in Requests : poolPc[s] = "h1.do" /\ using[s] = using[r] => s = r
        BY <2>1, <3>1 DEF PoolInv, Exclusive
      <3> QED
        BY <3>2, <3>3
    <2>2. \A o, q \in Origins : \A i \in 1 .. Len(idle[o]), j \in 1 .. Len(idle[q]) :
            idle[o][i] = idle[q][j] => o = q /\ i = j
      BY DEF PoolInv, Exclusive
    <2>3. \A r \in https : poolPc[r] \in {"h1.do", "h2.do", "h3.do"} => conn[using[r]].kind # "tcp"
      BY DEF PoolInv, PoolType, RequestsFit, UsingFit
    <2> QED
      BY <2>1, <2>2, <2>3 DEF ExclusiveH1
  <1> QED
    BY <1>1, PoolInvariance, PTL

(* No dial is lost, however CloseIdleConnections, cancellation and failures *)
(* fall between its steps (pool.go, doH3, doTLS and CloseIdleConnections),  *)
(* but for the multiplexed connections that the formula names.              *)
THEOREM PoolNoDialLost == PoolSpec => []NoDialLost
  <1>1. PoolInv /\ MuxKept => NoDialLost
    <2> SUFFICES ASSUME PoolInv, MuxKept PROVE NoDialLost
      OBVIOUS
    <2>1. ASSUME NEW p \in Protos, NEW r \in Requests, poolPc[r] = WaitLabel(p)
          PROVE  /\ waitFor[r] # None /\ promise[p][waitFor[r]] # Unmade
                 /\ promise[p][waitFor[r]] = Pending =>
                      poolPc[waitFor[r]] \in {"h3.dial", "tls.dial", "tls.handshake", "h2.handshake"}
      <3>1. waitFor[r] \in Requests /\ promise[p][waitFor[r]] # Unmade
        BY <2>1 DEF PoolInv, DialsFit
      <3> QED
        BY <3>1, NoneAssumption DEF PoolInv, DialsFit, Dialing
    <2>2. closes = 0 => \A p \in Protos, o \in Origins : \A r, s \in Dialers(p, o) : r = s
      BY DEF PoolInv, DialsFit, Dialers
    <2>3. ASSUME NEW c \in ConnIds, Alive(c), conn[c].kind \in {"tcp", "tls"}
          PROVE  c \in Pooled \/ \E r \in Requests : using[r] = c
      BY <2>3 DEF PoolInv, LiveConnsKept, LiveSocket, Pooled, Idle
    <2> QED
      BY <2>1, <2>2, <2>3 DEF NoDialLost, MuxKept
  <1> QED
    BY <1>1, PoolInvariance, MuxInvariance, PTL

-----------------------------------------------------------------------------
(* A WebSocket over an HTTP/2 stream. *)

Frames ==
  [kind : {"data", "control", "reset", "goaway", "other"}, n : Nat, pad : Nat, end : BOOLEAN,
   sent : Nat, padded : Nat]

H2Type ==
  /\ credit \in Nat /\ frames \in Seq(Frames) /\ count \in Nat /\ sentBytes \in Nat /\ padBytes \in Nat
  /\ readBuf \in Nat /\ readBytes \in Nat /\ unackedBytes \in Nat /\ streamEnded \in BOOLEAN
  /\ up \in BOOLEAN

(* Every frame carries what was sent before it, and the end comes last. *)
InOrder ==
  /\ \A i \in 1 .. Len(frames) :
       /\ frames[i].kind # "data" => frames[i].n = 0 /\ frames[i].pad = 0 /\ ~frames[i].end
       /\ frames[i].sent + frames[i].n = IF i = Len(frames) THEN sentBytes ELSE frames[i + 1].sent
       /\ frames[i].padded + frames[i].pad = IF i = Len(frames) THEN padBytes ELSE frames[i + 1].padded
       /\ frames[i].end => i = Len(frames)
  /\ streamEnded => frames = <<>>

(* What was received is read or buffered, and what the peer may not send is *)
(* in flight, buffered, about to be returned or padding.                    *)
Accounted ==
  /\ readBytes + readBuf = Received
  /\ up => credit + sentBytes + padBytes + readBuf + unackedBytes = InitialWindow + Received

(* The reader waits for frames with an empty buffer only. *)
ReaderFits ==
  /\ reader \in {"frame", "eof", "reset"} => readBuf = 0
  /\ reader = "eof" => streamEnded

H2Inv == H2Type /\ InOrder /\ Accounted /\ ReaderFits

LEMMA H2Starts == H2Init => H2Inv
  <1> SUFFICES ASSUME H2Init
               PROVE  H2Inv
    OBVIOUS
  <1>1. /\ credit = InitialWindow /\ frames = <<>> /\ count = 0 /\ sentBytes = 0 /\ padBytes = 0
        /\ readBuf = 0 /\ readBytes = 0 /\ unackedBytes = 0 /\ streamEnded = FALSE
        /\ reader = "idle" /\ up = TRUE /\ InitialWindow \in Nat
    BY WsH2Assumption DEF H2Init
  <1>2. frames \in Seq(Frames) /\ Len(frames) = 0
    BY <1>1
  <1>3. H2Type
    BY <1>1, <1>2 DEF H2Type
  <1>4. InOrder /\ ReaderFits
    BY <1>1, <1>2 DEF InOrder, ReaderFits
  <1>5. Accounted
    BY <1>1 DEF Accounted, Received
  <1> QED
    BY <1>3, <1>4, <1>5 DEF H2Inv

LEMMA ReceivedIsNat ==
  ASSUME H2Type
  PROVE  Received \in Nat /\ PadReceived \in Nat
  <1>1. CASE frames = <<>>
    BY <1>1 DEF H2Type, Received, PadReceived
  <1>2. CASE frames # <<>>
    <2>1. Head(frames) \in Frames
      BY <1>2 DEF H2Type
    <2> QED
      BY <1>2, <2>1 DEF Received, PadReceived, Frames
  <1> QED
    BY <1>1, <1>2

(* The peer adds a frame behind those in flight. *)
LEMMA FrameSent ==
  ASSUME H2Inv, ~Ended, NEW n \in Nat, NEW pad \in Nat, NEW end \in BOOLEAN,
         NEW kind \in {"data", "control", "reset", "goaway", "other"},
         kind # "data" => n = 0 /\ pad = 0 /\ ~end,
         n + pad <= credit, frames' = Append(frames, Frame(kind, n, pad, end)),
         credit' = credit - (n + pad), count' = count + 1,
         sentBytes' = sentBytes + n, padBytes' = padBytes + pad,
         UNCHANGED <<bufVars, reader, up>>
  PROVE  H2Inv'
  <1> DEFINE f == Frame(kind, n, pad, end)
  <1>1. /\ f \in Frames /\ f.kind = kind /\ f.n = n /\ f.pad = pad /\ f.end = end
        /\ f.sent = sentBytes /\ f.padded = padBytes
    BY DEF H2Inv, H2Type, Frame, Frames
  <1> HIDE DEF f
  <1>2. frames' = Append(frames, f) /\ frames \in Seq(Frames) /\ Len(frames) \in Nat
    BY DEF f, H2Inv, H2Type
  <1>3. /\ frames' \in Seq(Frames) /\ Len(frames') = Len(frames) + 1 /\ frames' # <<>>
        /\ \A i \in 1 .. Len(frames) : frames'[i] = frames[i]
        /\ frames'[Len(frames) + 1] = f
    BY <1>1, <1>2
  <1>4. /\ UNCHANGED <<readBuf, readBytes, unackedBytes, streamEnded, reader, up>>
        /\ sentBytes \in Nat /\ padBytes \in Nat /\ credit \in Nat
    BY DEF bufVars, H2Inv, H2Type
  <1>5. H2Type'
    BY <1>3, <1>4 DEF H2Inv, H2Type
  <1>6. InOrder'
    <2>1. ~streamEnded /\ \A i \in 1 .. Len(frames) : ~frames[i].end
      BY <1>2 DEF Ended, PeerMayData
    <2>2. ASSUME NEW i \in 1 .. Len(frames)
          PROVE  /\ frames'[i].kind # "data" => frames'[i].n = 0 /\ frames'[i].pad = 0 /\ ~frames'[i].end
                 /\ frames'[i].sent + frames'[i].n = frames'[i + 1].sent
                 /\ frames'[i].padded + frames'[i].pad = frames'[i + 1].padded
                 /\ ~frames'[i].end /\ i # Len(frames')
      <3>1. frames'[i] = frames[i] /\ i # Len(frames')
        BY <1>2, <1>3
      <3>2. CASE i = Len(frames)
        BY <1>1, <1>3, <2>1, <3>1, <3>2 DEF H2Inv, InOrder
      <3>3. CASE i # Len(frames)
        <4>1. i + 1 \in 1 .. Len(frames) /\ frames'[i + 1] = frames[i + 1]
          BY <1>2, <1>3, <3>3
        <4> QED
          BY <2>1, <3>1, <3>3, <4>1 DEF H2Inv, InOrder
      <3> QED
        BY <3>2, <3>3
    <2>3. \A i \in 1 .. Len(frames') : i \in 1 .. Len(frames) \/ i = Len(frames')
      BY <1>2, <1>3
    <2> QED
      BY <1>1, <1>2, <1>3, <1>4, <2>1, <2>2, <2>3 DEF InOrder
  <1>7. Received' = Received
    <2>1. CASE frames = <<>>
      <3>1. Head(frames') = f
        BY <1>1, <1>2, <2>1
      <3> QED
        BY <1>1, <1>3, <2>1, <3>1 DEF Received
    <2>2. CASE frames # <<>>
      <3>1. Head(frames') = Head(frames)
        BY <1>1, <1>2, <2>2
      <3> QED
        BY <1>3, <2>2, <3>1 DEF Received
    <2> QED
      BY <2>1, <2>2
  <1>8. Accounted' /\ ReaderFits'
    <2>1. Received \in Nat /\ readBuf \in Nat /\ readBytes \in Nat /\ unackedBytes \in Nat /\ InitialWindow \in Nat
      BY ReceivedIsNat, WsH2Assumption DEF H2Inv, H2Type
    <2> QED
      BY <1>4, <1>7, <2>1 DEF H2Inv, Accounted, ReaderFits
  <1> QED
    BY <1>5, <1>6, <1>8 DEF H2Inv

LEMMA PeerSends ==
  ASSUME H2Inv,
         \/ \E n \in Sizes, pad \in Paddings, end \in BOOLEAN : PeerData(n, pad, end)
         \/ \E kind \in {"control", "reset", "goaway", "other"} : PeerOther(kind)
  PROVE  H2Inv'
  <1>1. ASSUME NEW n \in Sizes, NEW pad \in Paddings, NEW end \in BOOLEAN, PeerData(n, pad, end)
        PROVE  H2Inv'
    <2>1. n \in Nat /\ pad \in Nat
      BY WsH2Assumption
    <2>2. /\ ~Ended /\ n + pad <= credit /\ frames' = Append(frames, Frame("data", n, pad, end))
          /\ credit' = credit - (n + pad) /\ count' = count + 1
          /\ sentBytes' = sentBytes + n /\ padBytes' = padBytes + pad
          /\ UNCHANGED <<bufVars, reader, up>>
      BY <1>1 DEF PeerData, DataFrame
    <2> QED
      BY <2>1, <2>2, FrameSent
  <1>2. ASSUME NEW kind \in {"control", "reset", "goaway", "other"}, PeerOther(kind)
        PROVE  H2Inv'
    <2>1. credit \in Nat /\ sentBytes \in Nat /\ padBytes \in Nat
      BY DEF H2Inv, H2Type
    <2>2. /\ ~Ended /\ frames' = Append(frames, Frame(kind, 0, 0, FALSE))
          /\ 0 + 0 <= credit /\ credit' = credit - (0 + 0) /\ count' = count + 1
          /\ sentBytes' = sentBytes + 0 /\ padBytes' = padBytes + 0
          /\ UNCHANGED <<bufVars, reader, up>>
      BY <1>2, <2>1 DEF PeerOther, OtherFrame
    <2> QED
      BY <2>2, FrameSent
  <1> QED
    BY <1>1, <1>2

LEMMA FrameRead ==
  ASSUME H2Inv, ReadFrame
  PROVE  H2Inv'
  <1> DEFINE f == Head(frames)
  <1>1. /\ reader = "frame" /\ frames # <<>> /\ frames' = Tail(frames)
        /\ readBuf' = readBuf + f.n /\ streamEnded' = (streamEnded \/ f.end)
        /\ reader' = CASE f.kind = "data" -> "idle"
                       [] f.kind = "control" -> "ack"
                       [] f.kind \in {"reset", "goaway"} -> "reset"
                       [] OTHER -> "idle"
        /\ UNCHANGED <<credit, count, sentBytes, padBytes, readBytes, unackedBytes, up>>
    BY DEF ReadFrame
  <1>2. frames \in Seq(Frames) /\ Len(frames) \in Nat /\ Len(frames) >= 1 /\ f = frames[1] /\ f \in Frames
    BY <1>1 DEF H2Inv, H2Type
  <1>3. /\ frames' \in Seq(Frames) /\ Len(frames') = Len(frames) - 1
        /\ \A i \in 1 .. Len(frames') : frames'[i] = frames[i + 1] /\ i + 1 \in 1 .. Len(frames)
    BY <1>1, <1>2
  <1> HIDE DEF f
  <1>4. f.n \in Nat /\ f.end \in BOOLEAN /\ f.sent \in Nat
    BY <1>2 DEF Frames
  <1>5. H2Type'
    BY <1>1, <1>3, <1>4 DEF H2Inv, H2Type
  <1>6. 1 \in 1 .. Len(frames)
    BY <1>2
  <1>7. InOrder'
    <2>1. ASSUME NEW i \in 1 .. Len(frames')
          PROVE  /\ frames'[i].kind # "data" => frames'[i].n = 0 /\ frames'[i].pad = 0 /\ ~frames'[i].end
                 /\ frames'[i].sent + frames'[i].n = IF i = Len(frames') THEN sentBytes' ELSE frames'[i + 1].sent
                 /\ frames'[i].padded + frames'[i].pad = IF i = Len(frames') THEN padBytes' ELSE frames'[i + 1].padded
                 /\ frames'[i].end => i = Len(frames')
      <3> DEFINE k == i + 1
      <3>1. k \in 1 .. Len(frames) /\ frames'[i] = frames[k] /\ (k = Len(frames) <=> i = Len(frames'))
        BY <1>2, <1>3
      <3>2. i # Len(frames') => frames'[i + 1] = frames[k + 1]
        BY <1>2, <1>3
      <3>3. /\ frames[k].kind # "data" => frames[k].n = 0 /\ frames[k].pad = 0 /\ ~frames[k].end
            /\ frames[k].sent + frames[k].n = IF k = Len(frames) THEN sentBytes ELSE frames[k + 1].sent
            /\ frames[k].padded + frames[k].pad = IF k = Len(frames) THEN padBytes ELSE frames[k + 1].padded
            /\ frames[k].end => k = Len(frames)
        BY <3>1 DEF H2Inv, InOrder
      <3> HIDE DEF k
      <3> QED
        BY <1>1, <3>1, <3>2, <3>3
    <2>2. ~streamEnded /\ (f.end => Len(frames) = 1)
      BY <1>1, <1>2, <1>6 DEF H2Inv, InOrder
    <2>3. streamEnded' => frames' = <<>>
      <3>1. streamEnded' => Len(frames) = 1
        BY <1>1, <2>2, Zenon
      <3>2. Len(frames) = 1 => frames' = <<>>
        BY <1>3
      <3> QED
        BY <3>1, <3>2
    <2> QED
      BY <2>1, <2>3 DEF InOrder
  <1>8. Received = f.sent /\ Received' = f.sent + f.n
    <2>1. Received = f.sent
      BY <1>1 DEF Received, f
    <2>2. f.sent + f.n = IF Len(frames) = 1 THEN sentBytes ELSE frames[2].sent
      <3>1. frames[1].sent + frames[1].n = IF 1 = Len(frames) THEN sentBytes ELSE frames[1 + 1].sent
        BY <1>6 DEF H2Inv, InOrder
      <3> QED
        BY <1>2, <3>1
    <2>3. CASE Len(frames) = 1
      <3>1. frames' = <<>>
        BY <1>3, <2>3
      <3> QED
        BY <1>1, <2>1, <2>2, <2>3, <3>1 DEF Received
    <2>4. CASE Len(frames) # 1
      <3>1. frames' # <<>> /\ Head(frames') = frames[2]
        BY <1>2, <1>3, <2>4
      <3> QED
        BY <2>1, <2>2, <2>4, <3>1 DEF Received
    <2> QED
      BY <2>3, <2>4
  <1>9. Accounted'
    <2>1. /\ readBuf \in Nat /\ readBytes \in Nat /\ unackedBytes \in Nat /\ InitialWindow \in Nat
          /\ credit \in Nat /\ sentBytes \in Nat /\ padBytes \in Nat
      BY WsH2Assumption DEF H2Inv, H2Type
    <2>2. readBytes + readBuf = Received /\ f.sent \in Nat /\ f.n \in Nat
      BY <1>4 DEF H2Inv, Accounted
    <2>3. up => credit + sentBytes + padBytes + readBuf + unackedBytes = InitialWindow + Received
      BY DEF H2Inv, Accounted
    <2>4. /\ readBuf' = readBuf + f.n /\ readBytes' = readBytes /\ unackedBytes' = unackedBytes /\ up' = up
          /\ credit' = credit /\ sentBytes' = sentBytes /\ padBytes' = padBytes
      BY <1>1
    <2>5. Received' = Received + f.n
      BY <1>8
    <2> QED
      BY <2>1, <2>2, <2>3, <2>4, <2>5, <1>8 DEF Accounted
  <1>10. ReaderFits'
    <2>1. reader' # "frame" /\ reader' # "eof" /\ (reader' = "reset" => f.kind # "data")
      BY <1>1, <1>2 DEF Frames
    <2>2. f.kind # "data" => f.n = 0
      BY <1>2, <1>6 DEF H2Inv, InOrder
    <2>3. readBuf = 0
      BY <1>1 DEF H2Inv, ReaderFits
    <2> QED
      BY <1>1, <2>1, <2>2, <2>3 DEF ReaderFits
  <1> QED
    BY <1>5, <1>7, <1>9, <1>10 DEF H2Inv

(* The other steps of the reader, and those of the writers and the closer. *)
LEMMA FramesWait ==
  ASSUME H2Inv, UNCHANGED <<frames, sentBytes, padBytes>>, count' \in Nat, up' \in BOOLEAN, up' => up,
         UNCHANGED <<credit, bufVars>>, ReaderFits'
  PROVE  H2Inv'
  <1>1. Received' = Received
    BY DEF Received
  <1> QED
    BY <1>1 DEF H2Inv, H2Type, InOrder, Accounted, bufVars

LEMMA BytesTaken ==
  ASSUME H2Inv, Take
  PROVE  H2Inv'
  <1> DEFINE n == IF readBuf < ReadSize THEN readBuf ELSE ReadSize
  <1>1. /\ reader = "take" /\ readBuf' = readBuf - n /\ readBytes' = readBytes + n
        /\ unackedBytes' = unackedBytes + n /\ reader' \in {"credit", "idle"}
        /\ UNCHANGED <<frames, sentBytes, padBytes, credit, count, streamEnded, up>>
    BY DEF Take, peerH2Vars
  <1>2. /\ readBuf \in Nat /\ readBytes \in Nat /\ unackedBytes \in Nat /\ InitialWindow \in Nat
        /\ credit \in Nat /\ sentBytes \in Nat /\ padBytes \in Nat /\ Received \in Nat
    BY WsH2Assumption, ReceivedIsNat DEF H2Inv, H2Type
  <1>3. n \in 0 .. readBuf
    BY <1>2, WsH2Assumption
  <1>4. Received' = Received
    BY <1>1 DEF Received
  <1> HIDE DEF n
  <1>5. H2Type'
    BY <1>1, <1>2, <1>3 DEF H2Inv, H2Type
  <1>6. InOrder' /\ ReaderFits'
    BY <1>1 DEF H2Inv, InOrder, ReaderFits
  <1>7. Accounted'
    BY <1>1, <1>2, <1>3, <1>4 DEF H2Inv, Accounted
  <1> QED
    BY <1>5, <1>6, <1>7 DEF H2Inv

LEMMA CreditReturned ==
  ASSUME H2Inv, ReaderReturnsCredit
  PROVE  H2Inv'
  <1>1. /\ credit' = IF up THEN credit + unackedBytes ELSE credit
        /\ unackedBytes' = 0 /\ reader' = "idle"
        /\ UNCHANGED <<frames, count, sentBytes, padBytes, readBuf, readBytes, streamEnded, up>>
    BY DEF ReaderReturnsCredit, AfterUpdate
  <1>2. /\ readBuf \in Nat /\ readBytes \in Nat /\ unackedBytes \in Nat /\ InitialWindow \in Nat
        /\ credit \in Nat /\ sentBytes \in Nat /\ padBytes \in Nat /\ Received \in Nat
    BY WsH2Assumption, ReceivedIsNat DEF H2Inv, H2Type
  <1>3. Received' = Received
    BY <1>1 DEF Received
  <1>4. H2Type'
    BY <1>1, <1>2 DEF H2Inv, H2Type
  <1>5. InOrder' /\ ReaderFits'
    BY <1>1 DEF H2Inv, InOrder, ReaderFits
  <1>6. Accounted'
    BY <1>1, <1>2, <1>3 DEF H2Inv, Accounted
  <1> QED
    BY <1>4, <1>5, <1>6 DEF H2Inv

LEMMA ReaderKeepsAccounts ==
  ASSUME H2Inv, ReaderStep2
  PROVE  H2Inv'
  <1>1. CASE ReadFrame
    BY <1>1, FrameRead
  <1>2. CASE Take
    BY <1>2, BytesTaken
  <1>3. CASE ReaderReturnsCredit
    BY <1>3, CreditReturned
  <1>4. CASE ReadBegins
    <2>1. UNCHANGED <<peerH2Vars, bufVars, up>> /\ ReaderFits'
      BY <1>4 DEF ReadBegins, MustEnd, ReaderFits, peerH2Vars, bufVars
    <2> QED
      BY <2>1, FramesWait DEF H2Inv, H2Type, peerH2Vars
  <1>5. CASE H2ReadFails \/ ReaderLocks \/ ReaderAcks
    <2>1. UNCHANGED <<peerH2Vars, bufVars, up>> /\ ReaderFits'
      BY <1>5 DEF H2Inv, H2ReadFails, ReaderLocks, ReaderAcks, ReaderFits, peerH2Vars, bufVars
    <2> QED
      BY <2>1, FramesWait DEF H2Inv, H2Type, peerH2Vars
  <1> QED
    BY <1>1, <1>2, <1>3, <1>4, <1>5 DEF ReaderStep2

LEMMA H2NextInv == H2Inv /\ [H2Next]_h2Vars => H2Inv'
  <1> SUFFICES ASSUME H2Inv, [H2Next]_h2Vars
               PROVE  H2Inv'
    OBVIOUS
  <1>1. CASE ReaderStep2
    BY <1>1, ReaderKeepsAccounts
  <1>2. ASSUME \/ \E n \in Sizes, pad \in Paddings, end \in BOOLEAN : PeerData(n, pad, end)
               \/ \E kind \in {"control", "reset", "goaway", "other"} : PeerOther(kind)
        PROVE  H2Inv'
    BY <1>2, PeerSends
  <1>3. CASE CloseBegins \/ CloserStep \/ ConnectionLost \/ PeerStalls \/ \E w \in H2Writers : WriterStep2(w)
    <2>1. UNCHANGED <<peerH2Vars, bufVars, reader>> /\ (up' = up \/ up' = FALSE)
      BY <1>3 DEF CloseBegins, CloserStep, CloseLocks, CloseEnds, ConnectionLost, PeerStalls, WriterStep2,
                  WriterLocks, WriterSends
    <2>2. ReaderFits'
      BY <2>1 DEF H2Inv, ReaderFits, bufVars
    <2>3. UNCHANGED <<frames, sentBytes, padBytes>> /\ UNCHANGED <<credit, bufVars>> /\ count' = count
      BY <2>1 DEF peerH2Vars
    <2>4. count \in Nat /\ up \in BOOLEAN
      BY DEF H2Inv, H2Type
    <2>5. up' \in BOOLEAN /\ (up' => up)
      <3>1. CASE up' = up
        BY <2>4, <3>1
      <3>2. CASE up' = FALSE
        BY <3>2
      <3> QED
        BY <2>1, <3>1, <3>2
    <2> QED
      BY <2>2, <2>3, <2>4, <2>5, FramesWait
  <1>4. CASE UNCHANGED h2Vars
    <2>1. UNCHANGED <<peerH2Vars, bufVars, reader, up>>
      BY <1>4 DEF h2Vars, peerH2Vars, bufVars
    <2>2. ReaderFits'
      BY <2>1 DEF H2Inv, ReaderFits, bufVars
    <2> QED
      BY <2>1, <2>2, FramesWait DEF H2Inv, H2Type, peerH2Vars
  <1> QED
    BY <1>1, <1>2, <1>3, <1>4 DEF H2Next

LEMMA AccountsHold == H2Inv => StreamAccounts
  <1> SUFFICES ASSUME H2Inv
               PROVE  StreamAccounts
    OBVIOUS
  <1>1. /\ readBuf \in Nat /\ readBytes \in Nat /\ unackedBytes \in Nat /\ InitialWindow \in Nat
        /\ credit \in Nat /\ sentBytes \in Nat /\ padBytes \in Nat /\ Received \in Nat
    BY WsH2Assumption, ReceivedIsNat DEF H2Inv, H2Type
  <1>2. PadReceived \in Nat
    BY ReceivedIsNat DEF H2Inv
  <1>3. CreditConserved
    BY <1>1, <1>2 DEF H2Inv, Accounted, CreditConserved, H2InFlight
  <1>4. reader = "eof" => readBytes = sentBytes
    BY <1>1 DEF H2Inv, ReaderFits, InOrder, Accounted, Received
  <1>5. ReadBeforeEof
    BY <1>4 DEF H2Inv, ReaderFits, ReadBeforeEof
  <1> QED
    BY <1>3, <1>5 DEF StreamAccounts

(* However frames, padding, reads, writes, the loss of the connection and   *)
(* Close interleave on a stream, no credit is made or lost, and the end is  *)
(* reported after every byte before it (wsconn.go, wsH2Conn).               *)
THEOREM StreamsKeepAccounts == MCSpec => []StreamAccounts
  <1>1. (\E component \in {"pool", "dial", "h3", "dns", "ws", "ws2"} : Only(component)) => H2Inv
    BY H2Starts DEF Only
  <1>2. H2Inv /\ [MCNext]_allVars => H2Inv'
    <2>1. [MCNext]_allVars => [H2Next]_h2Vars
      BY DEF MCNext, allVars, wsVars
    <2> QED
      BY <2>1, H2NextInv
  <1> QED
    BY <1>1, <1>2, AccountsHold, PTL DEF MCSpec
=============================================================================
