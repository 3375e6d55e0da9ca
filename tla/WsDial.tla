-------------------------------- MODULE WsDial -------------------------------
(***************************************************************************)
(* DialWebSocketWithConfig (realtime/ws/websocket.go): one dial, over the  *)
(* protocol ALPN chose (HTTP/3, HTTP/2 Extended CONNECT, HTTP/1.1 Upgrade),*)
(* with the HTTP/2 handshake of wsconn.go.  The server may send any frame  *)
(* of the HTTP/2 handshake in any order, or fall silent.                   *)
(***************************************************************************)
EXTENDS Naturals, Sequences

CONSTANTS
  DialRequests,      \* dials: url (valid or not), tls, protocols, compression, deadline
  UpgradeReplies, \* answers to the HTTP/1.1 request
  ConnectReplies, \* answers to the Extended CONNECT request
  MaxChatter     \* bound on the frames before the one that decides

ASSUME WsDialAssumption == MaxChatter \in Nat

VARIABLES
  req,       \* the dial
  dpc,       \* where it is
  alpn,      \* the protocol the socket negotiated, "" for none
  sock,      \* "none", "open" or "closed"
  armed,     \* the socket has a deadline
  ctxDone,   \* the caller's context is done
  chatter,   \* frames read so far
  agreed,    \* the connection returned
  server     \* what the server agreed to: the selected subprotocol and compression

dialVars == <<req, dpc, alpn, sock, armed, ctxDone, chatter, agreed, server>>

NothingAgreed == [protocol |-> "", compress |-> FALSE]
Agreed(p, c) == [protocol |-> p, compress |-> c]

DialOver == {"connected", "failed"}

DialInit ==
  /\ req \in DialRequests
  /\ dpc = "parse" /\ alpn = "" /\ sock = "none" /\ armed = FALSE /\ ctxDone = FALSE
  /\ chatter = 0 /\ agreed = NothingAgreed /\ server = NothingAgreed

-----------------------------------------------------------------------------
(* Faulty variants of single steps, which the properties must tell apart    *)
(* from the code.                                                           *)
SkipCheck(requested, selected) == TRUE

-----------------------------------------------------------------------------
DialFails(s) ==
  /\ dpc' = "failed" /\ sock' = s
  /\ UNCHANGED <<req, alpn, armed, ctxDone, chatter, agreed, server>>

DialGoes(pc) ==
  /\ dpc' = pc
  /\ UNCHANGED <<req, alpn, sock, armed, ctxDone, chatter, agreed, server>>

DialSucceeds(c) ==
  /\ dpc' = "connected" /\ agreed' = c
  /\ UNCHANGED <<req, alpn, sock, ctxDone, chatter>>

(* parseWSURL and buildHandshakeRequest *)
ParseWSURL ==
  /\ dpc = "parse"
  /\ IF req.valid THEN DialGoes("dial") ELSE DialFails("none")

(* dialBaseConnection: a plain socket has no ALPN. *)
DialBaseConnection(proto) ==
  /\ dpc = "dial"
  /\ proto # "" => req.tls
  /\ alpn' = proto /\ sock' = "open" /\ dpc' = "tryH3"
  /\ UNCHANGED <<req, armed, ctxDone, chatter, agreed, server>>

DialBaseFails == dpc = "dial" /\ DialFails("none")

(* tryH3ExtendedConnect: nothing is sent and nothing is read; the connection *)
(* claims what was asked for, the whole list as one name.                    *)
TryH3 ==
  /\ dpc = "tryH3"
  /\ IF alpn # "h3" \/ ctxDone
       THEN DialGoes("tryH2")
       ELSE /\ DialSucceeds(Agreed(IF req.protocols = <<>> THEN "" ELSE IF Len(req.protocols) = 1
                                 THEN req.protocols[1] ELSE "list", FALSE))
            /\ UNCHANGED <<armed, server>>

(* tryH2ExtendedConnect, as far as the deadline on reading: the context's,  *)
(* or 30 seconds.                                                           *)
TryH2 ==
  /\ dpc = "tryH2"
  /\ IF alpn # "h2" \/ ctxDone
       THEN DialGoes("guard")
       ELSE /\ dpc' = "preface" /\ armed' = TRUE
            /\ UNCHANGED <<req, alpn, sock, ctxDone, chatter, agreed, server>>

-----------------------------------------------------------------------------
(* clientPreface: the peer's settings decide; pings are answered, updates   *)
(* of the window and acknowledgements skipped, anything else is an error.   *)
PrefaceSkips ==
  /\ dpc = "preface" /\ chatter < MaxChatter
  /\ chatter' = chatter + 1
  /\ UNCHANGED <<req, dpc, alpn, sock, armed, ctxDone, agreed, server>>

(* processPrefaceSettingsFrame, and the deadline is taken off again. *)
PrefaceSettings(enableConnect) ==
  /\ dpc = "preface"
  /\ dpc' = IF enableConnect THEN "response" ELSE "guard"
  /\ armed' = FALSE
  /\ UNCHANGED <<req, alpn, sock, ctxDone, chatter, agreed, server>>

(* An unexpected frame, a lost connection, a write that fails. *)
PrefaceFails ==
  /\ dpc = "preface"
  /\ dpc' = "guard" /\ armed' = FALSE
  /\ UNCHANGED <<req, alpn, sock, ctxDone, chatter, agreed, server>>

(* readConnectResponse: settings and pings are answered, frames of other    *)
(* streams skipped.                                                         *)
ResponseSkips ==
  /\ dpc = "response" /\ chatter < MaxChatter
  /\ chatter' = chatter + 1
  /\ UNCHANGED <<req, dpc, alpn, sock, armed, ctxDone, agreed, server>>

(* processResponseHeaders; the subprotocol is taken as it comes, and        *)
(* compression is never turned on, whatever the server answers.             *)
ResponseHeaders(r) ==
  /\ dpc = "response"
  /\ IF r.status = 200
       THEN DialSucceeds(Agreed(r.protocol, FALSE)) /\ server' = Agreed(r.protocol, r.compress) /\ UNCHANGED armed
       ELSE DialGoes("guard")

(* RST_STREAM, GOAWAY, a lost connection, a write that fails. *)
ResponseFails == dpc = "response" /\ DialGoes("guard")

(* A socket committed to HTTP/2 or HTTP/3 frames takes no upgrade request. *)
AfterGuard == IF alpn \in {"h2", "h3"} THEN "refuse" ELSE "upgrade"

ProtocolGuard == dpc = "guard" /\ DialGoes(AfterGuard)

Refuse == dpc = "refuse" /\ DialFails("closed")

-----------------------------------------------------------------------------
DialDeadline == req.deadline

(* performHTTP1Handshake: the deadline covers the exchange. *)
Upgrade ==
  /\ dpc = "upgrade"
  /\ dpc' = "await" /\ armed' = DialDeadline
  /\ UNCHANGED <<req, alpn, sock, ctxDone, chatter, agreed, server>>

ValidateSubprotocol(requested, selected) ==
  selected = "" \/ requested = <<>> \/ \E i \in DOMAIN requested : requested[i] = selected

Switches(r) ==
  /\ r.status = 101 /\ r.upgrade /\ r.accept
  /\ ValidateSubprotocol(req.protocols, r.protocol)

(* The answer, whatever it selects; compression is on when the server's     *)
(* extensions name it, offered or not, and the deadline is taken off.       *)
UpgradeAnswer(r) ==
  /\ dpc = "await"
  /\ armed' = FALSE
  /\ IF Switches(r)
       THEN DialSucceeds(Agreed(r.protocol, r.compress)) /\ server' = Agreed(r.protocol, r.compress)
       ELSE dpc' = "failed" /\ sock' = "closed" /\ UNCHANGED <<req, alpn, ctxDone, chatter, agreed, server>>

UpgradeFails ==
  /\ dpc = "await"
  /\ armed' = FALSE /\ dpc' = "failed" /\ sock' = "closed"
  /\ UNCHANGED <<req, alpn, ctxDone, chatter, agreed, server>>

-----------------------------------------------------------------------------
(* The deadline on the socket passes: the read that waits fails. *)
DeadlinePasses ==
  /\ armed
  /\ PrefaceFails \/ UpgradeFails

ContextEnds ==
  /\ dpc \notin DialOver /\ ~ctxDone
  /\ ctxDone' = TRUE
  /\ UNCHANGED <<req, dpc, alpn, sock, armed, chatter, agreed, server>>

(* The steps of the dial itself. *)
DialStep == ParseWSURL \/ TryH3 \/ TryH2 \/ ProtocolGuard \/ Refuse \/ Upgrade

DialNext ==
  \/ DialStep \/ ContextEnds
  \/ (\E p \in {"", "h2", "h3"} : DialBaseConnection(p)) \/ DialBaseFails
  \/ PrefaceSkips \/ (\E b \in BOOLEAN : PrefaceSettings(b)) \/ PrefaceFails
  \/ ResponseSkips \/ (\E r \in ConnectReplies : ResponseHeaders(r)) \/ ResponseFails
  \/ (\E r \in UpgradeReplies : UpgradeAnswer(r)) \/ UpgradeFails
  \/ DeadlinePasses

(* The dial runs on, connecting ends in success or failure, and a deadline  *)
(* passes; nothing is assumed of the server.                                *)
DialFairness ==
  /\ WF_dialVars(DialStep)
  /\ WF_dialVars(DialBaseFails \/ \E p \in {"", "h2", "h3"} : DialBaseConnection(p))
  /\ WF_dialVars(DeadlinePasses)

DialSpec == DialInit /\ [][DialNext]_dialVars /\ DialFairness

-----------------------------------------------------------------------------
(* "On error, closes underlying net.Conn sockets to prevent connection      *)
(* leaks" (websocket.go:235), whichever handshake the dial broke off and    *)
(* whenever the context ended; and a connection handed out is open, carries *)
(* no deadline of the dial, and was never spoken to in two protocols.       *)
DialSettlesSocket ==
  /\ dpc = "failed" => sock # "open"
  /\ dpc = "connected" => sock = "open" /\ ~armed
  /\ dpc = "await" => alpn = ""

Offered(p) == p = "" \/ \E i \in DOMAIN req.protocols : req.protocols[i] = p

(* Over HTTP/1.1 both ends leave the handshake with the same subprotocol    *)
(* and the same compression, whatever the server selected.  The subprotocol *)
(* is none or one that was asked for, unless none was asked for: then       *)
(* ValidateSubprotocol lets any pass (websocket.go:126).                    *)
UpgradeAgrees ==
  dpc = "connected" /\ alpn = "" =>
    /\ agreed = server
    /\ Offered(agreed.protocol) \/ req.protocols = <<>>

(* A dial whose context has a deadline is still under way, other than in    *)
(* the wait for the answer to an Extended CONNECT: the deadline is off by   *)
(* then.                                                                    *)
Dialling == req.deadline /\ dpc \notin DialOver \cup {"response"}

-----------------------------------------------------------------------------
(* "Conforms to RFC 6455 section 4 (Client Handshake) and RFC 7692", for the whole *)
(* cascade (websocket.go:247): both ends agree on the subprotocol and on    *)
(* compression over HTTP/2 as well.                                         *)
ConnectAgrees == dpc = "connected" /\ alpn = "h2" => agreed = server

(* The same claim for HTTP/1.1 (RFC 6455 section 4.1 and RFC 7692 section   *)
(* 5): the client fails a connection whose server selects a subprotocol or  *)
(* an extension it did not offer.                                           *)
OnlyOffered ==
  dpc = "connected" /\ alpn = "" => Offered(agreed.protocol) /\ (agreed.compress => req.compression)
=============================================================================
