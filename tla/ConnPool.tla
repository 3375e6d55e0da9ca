------------------------------ MODULE ConnPool ------------------------------
(***************************************************************************)
(* The multi-protocol connection pool (internal/transport/pool.go).        *)
(* Requests pick HTTP/3, HTTP/2 or HTTP/1.1, share one multiplexed         *)
(* connection per origin and protocol, elect one dialer per origin through *)
(* a dial promise, and keep idle HTTP/1.1 connections on a stack.  Every   *)
(* critical section of p.mu is one action; dialling, handshaking and the   *)
(* exchange itself are separate steps, so CloseIdleConnections, the peer   *)
(* and other requests interleave with them.                                *)
(***************************************************************************)
EXTENDS Naturals, Sequences, FiniteSets

CONSTANTS
  Requests,    \* calls of DoCtx
  Origins,     \* host:port keys of the maps
  None,        \* the nil connection or promise
  Modes,       \* pool configurations: which of the four toggles are set
  MaxCloses    \* bound on the calls of CloseIdleConnections

ASSUME NoneAssumption == None \notin Requests
ASSUME ModesAssumption ==
  Modes \subseteq SUBSET {"EnableH2", "ForceH2", "EnableH3", "ForceH3"}
ASSUME ClosesAssumption == MaxCloses \in Nat

Protos == {"h2", "h3"}

(* A request opens at most one QUIC and one TCP connection, so connections  *)
(* are named after the request that dials them.                             *)
ConnIds == Requests \X {"tcp", "quic"}
NoConn == <<None, "tcp">>

(* What a dial promise holds besides the connection it gave. *)
Unmade == <<None, "unmade">>
Pending == <<None, "pending">>

VARIABLES
  mode,      \* the toggles of this pool
  origin,    \* origin of each request
  https,     \* the requests with an https URL
  poolPc,        \* control point of each request
  using,     \* the connection a request holds in a local variable
  waitFor,   \* the promise (named after its dialer) a request waits on
  mux,       \* p.h2Conns and p.h3Conns
  dials,     \* p.h2Dials and p.h3Dials
  promise,   \* the promises, named after their dialers
  idle,      \* p.conns
  conn,      \* the connections: their kind, their state, and whether their
             \* stream limit was ever reached
  closes     \* calls of CloseIdleConnections so far

poolVars == <<mode, origin, https, poolPc, using, waitFor, mux, dials, promise, idle,
          conn, closes>>
inputs == <<mode, origin, https>>

Kinds == {"none", "tcp", "tls", "h2", "h3"}

UsesH2 == mode \cap {"EnableH2", "ForceH2"} # {}
TriesH3(r) == "ForceH3" \in mode \/ ("EnableH3" \in mode /\ r \in https)

(* IsClosed/Closed and CanOpenStream of the mach library.  "busy" stands    *)
(* for a connection whose peer admits no further stream for now.            *)
Alive(c) == conn[c].state \in {"open", "busy"}
Usable(p, c) ==
  /\ c # NoConn
  /\ IF p = "h3" THEN Alive(c) ELSE conn[c].state = "open"

PoolInit ==
  /\ mode \in Modes
  /\ origin \in [Requests -> Origins]
  /\ https \in SUBSET Requests
  /\ poolPc = [r \in Requests |-> "idle"]
  /\ using = [r \in Requests |-> NoConn]
  /\ waitFor = [r \in Requests |-> None]
  /\ mux = [p \in Protos |-> [o \in Origins |-> NoConn]]
  /\ dials = [p \in Protos |-> [o \in Origins |-> None]]
  /\ promise = [p \in Protos |-> [r \in Requests |-> Unmade]]
  /\ idle = [o \in Origins |-> <<>>]
  /\ conn = [c \in ConnIds |-> [kind |-> "none", state |-> "closed", full |-> FALSE]]
  /\ closes = 0

Goto(r, l) == poolPc' = [poolPc EXCEPT ![r] = l]
Hold(r, c) == using' = [using EXCEPT ![r] = c]
ConnBecomes(c, k, s) == conn' = [conn EXCEPT ![c] = [kind |-> k, state |-> s, full |-> FALSE]]

-----------------------------------------------------------------------------
(* Faulty variants of single steps, which the properties must tell apart    *)
(* from the code.                                                           *)
KeepIdle(o) == idle
ForgetWaiters(p, r, c) ==
  IF c = NoConn THEN [promise EXCEPT ![p][r] = c] ELSE promise
StayOpen(c) == conn

-----------------------------------------------------------------------------
(* DoCtx: choose the protocol family. *)
DoCtx(r) ==
  /\ poolPc[r] = "idle"
  /\ Goto(r, CASE TriesH3(r) -> "h3.check"
               [] ~TriesH3(r) /\ r \in https -> "tls.check"
               [] OTHER -> "h1.take")
  /\ UNCHANGED <<inputs, using, waitFor, mux, dials, promise, idle, conn, closes>>

(* The check that opens each round of doH3 and doTLS, under the mutex: the  *)
(* shared connection if it is usable, else the dial in flight, else a new   *)
(* promise of our own.                                                      *)
CheckLabel(p) == IF p = "h3" THEN "h3.check" ELSE "tls.check"
WaitLabel(p) == IF p = "h3" THEN "h3.wait" ELSE "tls.wait"
DoLabel(p) == IF p = "h3" THEN "h3.do" ELSE "h2.do"
DialLabel(p) == IF p = "h3" THEN "h3.dial" ELSE "tls.dial"
Checks(p, r) == poolPc[r] = CheckLabel(p) /\ (p = "h2" => UsesH2)

Reuse(p, r) ==
  /\ Checks(p, r)
  /\ Usable(p, mux[p][origin[r]])
  /\ Goto(r, DoLabel(p))
  /\ Hold(r, mux[p][origin[r]])
  /\ UNCHANGED <<inputs, waitFor, mux, dials, promise, idle, conn, closes>>

(* Someone already connects or is connecting to the origin. *)
Served(p, r) ==
  \/ Usable(p, mux[p][origin[r]])
  \/ dials[p][origin[r]] # None

Join(p, r) ==
  /\ Checks(p, r)
  /\ ~Usable(p, mux[p][origin[r]])
  /\ dials[p][origin[r]] # None
  /\ Goto(r, WaitLabel(p))
  /\ waitFor' = [waitFor EXCEPT ![r] = dials[p][origin[r]]]
  /\ UNCHANGED <<inputs, using, mux, dials, promise, idle, conn, closes>>

Promise(p, r) ==
  /\ Checks(p, r)
  /\ ~Served(p, r)
  /\ Goto(r, DialLabel(p))
  /\ dials' = [dials EXCEPT ![p][origin[r]] = r]
  /\ promise' = [promise EXCEPT ![p][r] = Pending]
  /\ UNCHANGED <<inputs, using, waitFor, mux, idle, conn, closes>>

(* With HTTP/2 disabled doTLS dials for itself, without a promise. *)
SkipPromise(r) ==
  /\ poolPc[r] = "tls.check"
  /\ ~UsesH2
  /\ Goto(r, "tls.dial")
  /\ UNCHANGED <<inputs, using, waitFor, mux, dials, promise, idle, conn, closes>>

(* close(dp.done) with the connection the dialer got, NoConn on failure and *)
(* when HTTP/1.1 was negotiated.                                            *)
Resolved(p, r, c) == [promise EXCEPT ![p][r] = c]

(* delete(dials, addr) and close(dp.done), whoever owns the entry by now. *)
SettleDial(p, r, c) ==
  /\ dials' = [dials EXCEPT ![p][origin[r]] = None]
  /\ promise' = Resolved(p, r, c)

(* The waiter's select: dp.done is closed and its connection is usable. *)
WokenUse(p, r) ==
  LET c == promise[p][waitFor[r]] IN
  /\ poolPc[r] = WaitLabel(p)
  /\ c # Pending
  /\ Usable(p, c)
  /\ Goto(r, DoLabel(p))
  /\ Hold(r, c)
  /\ waitFor' = [waitFor EXCEPT ![r] = None]
  /\ UNCHANGED <<inputs, mux, dials, promise, idle, conn, closes>>

(* dp.done is closed without a usable connection: another round. *)
WokenRetry(p, r) ==
  LET c == promise[p][waitFor[r]] IN
  /\ poolPc[r] = WaitLabel(p)
  /\ c # Pending
  /\ ~Usable(p, c)
  /\ Goto(r, CheckLabel(p))
  /\ waitFor' = [waitFor EXCEPT ![r] = None]
  /\ UNCHANGED <<inputs, using, mux, dials, promise, idle, conn, closes>>

(* What a request does when its HTTP/3 leg fails: an opportunistic one      *)
(* falls back to TLS, a forced one returns the error.                       *)
AfterH3Failure == IF "ForceH3" \in mode THEN "done" ELSE "tls.check"

(* The context ends while waiting; doH3's caller still falls back. *)
PoolWaitCancelled(p, r) ==
  /\ poolPc[r] = WaitLabel(p)
  /\ Goto(r, IF p = "h3" THEN AfterH3Failure ELSE "done")
  /\ waitFor' = [waitFor EXCEPT ![r] = None]
  /\ UNCHANGED <<inputs, using, mux, dials, promise, idle, conn, closes>>

-----------------------------------------------------------------------------
(* doH3's dial: quic.DialAddr and h3.NewClientConn.                         *)
H3DialOK(r) ==
  /\ poolPc[r] = "h3.dial"
  /\ SettleDial("h3", r, <<r, "quic">>)
  /\ mux' = [mux EXCEPT !["h3"][origin[r]] = <<r, "quic">>]
  /\ ConnBecomes(<<r, "quic">>, "h3", "open")
  /\ Hold(r, <<r, "quic">>)
  /\ Goto(r, "h3.do")
  /\ UNCHANGED <<inputs, waitFor, idle, closes>>

(* The QUIC dial failed, or NewClientConn did and qConn was closed. *)
H3DialFails(r) ==
  /\ poolPc[r] = "h3.dial"
  /\ SettleDial("h3", r, NoConn)
  /\ Goto(r, AfterH3Failure)
  /\ UNCHANGED <<inputs, using, waitFor, mux, idle, conn, closes>>

-----------------------------------------------------------------------------
(* doTLS's dial: TCP, TLS handshake, then HTTP/2 or HTTP/1.1.               *)
TcpDialOK(r) ==
  /\ poolPc[r] = "tls.dial"
  /\ ConnBecomes(<<r, "tcp">>, "tcp", "open")
  /\ Hold(r, <<r, "tcp">>)
  /\ Goto(r, "tls.handshake")
  /\ UNCHANGED <<inputs, waitFor, mux, dials, promise, idle, closes>>

(* The promise, if there is one, is settled before the error is returned. *)
SettleFailure(r) ==
  IF UsesH2 THEN SettleDial("h2", r, NoConn) ELSE UNCHANGED <<dials, promise>>

TcpDialFails(r) ==
  /\ poolPc[r] = "tls.dial"
  /\ SettleFailure(r)
  /\ Goto(r, "done")
  /\ UNCHANGED <<inputs, using, waitFor, mux, idle, conn, closes>>

(* rawConn.Close() when the handshake fails. *)
ShutRaw(c) == [conn EXCEPT ![c].state = "closed"]

(* The TLS or the HTTP/2 handshake fails: the socket is closed. *)
HandshakeFails(r) ==
  /\ poolPc[r] \in {"tls.handshake", "h2.handshake"}
  /\ conn' = ShutRaw(using[r])
  /\ Hold(r, NoConn)
  /\ SettleFailure(r)
  /\ Goto(r, "done")
  /\ UNCHANGED <<inputs, waitFor, mux, idle, closes>>

(* The TLS handshake succeeds; alpn is getNegotiatedProtocol(tlsConn).  *)
HandshakeOK(r, alpn) ==
  /\ poolPc[r] = "tls.handshake"
  /\ ConnBecomes(using[r], "tls", "open")
  /\ IF UsesH2 /\ (alpn = "h2" \/ "ForceH2" \in mode)
       THEN /\ Goto(r, "h2.handshake")
            /\ UNCHANGED <<dials, promise>>
       ELSE /\ Goto(r, "h1.take")
            /\ SettleFailure(r)
  /\ UNCHANGED <<inputs, using, waitFor, mux, idle, closes>>

H2HandshakeOK(r) ==
  /\ poolPc[r] = "h2.handshake"
  /\ ConnBecomes(using[r], "h2", "open")
  /\ mux' = [mux EXCEPT !["h2"][origin[r]] = using[r]]
  /\ SettleDial("h2", r, using[r])
  /\ Goto(r, "h2.do")
  /\ UNCHANGED <<inputs, using, waitFor, idle, closes>>

-----------------------------------------------------------------------------
(* The exchange on a multiplexed connection ends, well or not. *)
MuxDone(r, ok) ==
  /\ poolPc[r] \in {"h2.do", "h3.do"}
  /\ ok => Alive(using[r])
  /\ Goto(r, IF poolPc[r] = "h3.do" /\ ~ok THEN AfterH3Failure ELSE "done")
  /\ Hold(r, NoConn)
  /\ UNCHANGED <<inputs, waitFor, mux, dials, promise, idle, conn, closes>>

(* doH1 pops the idle stack only for requests without an existing           *)
(* connection; doTLS always passes the one it just opened.                  *)
MayTake(r) == using[r] = NoConn

H1Existing(r) ==
  /\ poolPc[r] = "h1.take"
  /\ ~MayTake(r)
  /\ Goto(r, "h1.do")
  /\ UNCHANGED <<inputs, using, waitFor, mux, dials, promise, idle, conn, closes>>

(* p.conns[addr] without its last element. *)
Popped(o) == [idle EXCEPT ![o] = SubSeq(@, 1, Len(@) - 1)]

H1Pop(r) ==
  LET list == idle[origin[r]] IN
  /\ poolPc[r] = "h1.take"
  /\ MayTake(r)
  /\ list # <<>>
  /\ Hold(r, list[Len(list)])
  /\ idle' = Popped(origin[r])
  /\ Goto(r, "h1.do")
  /\ UNCHANGED <<inputs, waitFor, mux, dials, promise, conn, closes>>

H1Dial(r, ok) ==
  /\ poolPc[r] = "h1.take"
  /\ MayTake(r)
  /\ idle[origin[r]] = <<>>
  /\ IF ok
       THEN /\ ConnBecomes(<<r, "tcp">>, "tcp", "open")
            /\ Hold(r, <<r, "tcp">>)
            /\ Goto(r, "h1.do")
       ELSE /\ Goto(r, "done")
            /\ UNCHANGED <<using, conn>>
  /\ UNCHANGED <<inputs, waitFor, mux, dials, promise, idle, closes>>

(* The connection that goes back to the idle stack. *)
Returned(r) == using[r]

(* The HTTP/1.1 exchange succeeds on a keep-alive connection. *)
H1Return(r) ==
  /\ poolPc[r] = "h1.do"
  /\ Alive(using[r])
  /\ idle' = [idle EXCEPT ![origin[r]] = Append(@, Returned(r))]
  /\ Hold(r, NoConn)
  /\ Goto(r, "done")
  /\ UNCHANGED <<inputs, waitFor, mux, dials, promise, conn, closes>>

(* cc.Close() after an error or a "Connection: close" response. *)
ShutH1(c) == [conn EXCEPT ![c].state = "closed"]

H1Close(r) ==
  /\ poolPc[r] = "h1.do"
  /\ conn' = ShutH1(using[r])
  /\ Hold(r, NoConn)
  /\ Goto(r, "done")
  /\ UNCHANGED <<inputs, waitFor, mux, dials, promise, idle, closes>>

-----------------------------------------------------------------------------
(* CloseIdleConnections: one critical section that closes every pooled      *)
(* connection and replaces all five maps.                                   *)
Idle == UNION {{idle[o][i] : i \in 1 .. Len(idle[o])} : o \in Origins}

Pooled ==
  Idle \cup {mux[p][o] : p \in Protos, o \in Origins}

CloseIdleConnections ==
  /\ closes < MaxCloses
  /\ closes' = closes + 1
  /\ conn' = [c \in ConnIds |->
                IF c \in Pooled THEN [conn[c] EXCEPT !.state = "closed"]
                                ELSE conn[c]]
  /\ idle' = [o \in Origins |-> <<>>]
  /\ mux' = [p \in Protos |-> [o \in Origins |-> NoConn]]
  /\ dials' = [p \in Protos |-> [o \in Origins |-> None]]
  /\ UNCHANGED <<inputs, poolPc, using, waitFor, promise>>

(* The peer drops a connection, or the stream limit of an HTTP/2 connection  *)
(* is reached or lifted.                                                    *)
PeerSets(c, s) ==
  /\ Alive(c)
  /\ conn[c].kind = "h2" \/ s = "lost"
  /\ conn' = [conn EXCEPT ![c] = [kind |-> @.kind, state |-> s, full |-> @.full \/ s = "busy"]]
  /\ UNCHANGED <<inputs, poolPc, using, waitFor, mux, dials, promise, idle, closes>>

PoolStep(r) ==
  \/ DoCtx(r)
  \/ \E p \in Protos :
       Reuse(p, r) \/ Join(p, r) \/ Promise(p, r) \/ WokenUse(p, r) \/ WokenRetry(p, r)
  \/ SkipPromise(r)
  \/ H3DialOK(r) \/ H3DialFails(r)
  \/ TcpDialOK(r) \/ TcpDialFails(r)
  \/ HandshakeFails(r)
  \/ \E alpn \in {"h2", "http/1.1"} : HandshakeOK(r, alpn)
  \/ H2HandshakeOK(r)
  \/ \E ok \in BOOLEAN : MuxDone(r, ok)
  \/ H1Existing(r) \/ H1Pop(r)
  \/ \E ok \in BOOLEAN : H1Dial(r, ok)
  \/ H1Return(r) \/ H1Close(r)

Environment ==
  \/ \E p \in Protos, r \in Requests : PoolWaitCancelled(p, r)
  \/ CloseIdleConnections
  \/ \E c \in ConnIds, s \in {"open", "busy", "lost"} : PeerSets(c, s)

PoolTerminated ==
  /\ \A r \in Requests : poolPc[r] = "done"
  /\ UNCHANGED poolVars

PoolNext == (\E r \in Requests : PoolStep(r)) \/ Environment \/ PoolTerminated

(* Dials, handshakes and exchanges end (they carry deadlines) and runnable  *)
(* goroutines run; cancellation, closing and the peer are not fair.         *)
PoolFairness == \A r \in Requests : WF_poolVars(PoolStep(r))

PoolSpec == PoolInit /\ [][PoolNext]_poolVars /\ PoolFairness

-----------------------------------------------------------------------------
(* A live multiplexed connection that always admitted another stream. *)
Current(c) == Alive(c) /\ conn[c].kind \in Protos /\ ~conn[c].full

Dialers(p, o) ==
  {r \in Requests : promise[p][r] = Pending /\ origin[r] = o}

(* An HTTP/1.1 connection carries one exchange at a time: it is held by at  *)
(* most one request, and a held one is not on the idle stack nor is an idle *)
(* one there twice; and an https request never travels over a connection    *)
(* without TLS, whatever the idle stack of its origin holds.                *)
ExclusiveH1 ==
  /\ \A r \in Requests : poolPc[r] = "h1.do" =>
       using[r] \notin Idle /\ \A s \in Requests : poolPc[s] = "h1.do" /\ using[s] = using[r] => s = r
  /\ \A o, q \in Origins : \A i \in 1 .. Len(idle[o]), j \in 1 .. Len(idle[q]) :
       idle[o][i] = idle[q][j] => o = q /\ i = j
  /\ \A r \in https :
       poolPc[r] \in {"h1.do", "h2.do", "h3.do"} => conn[using[r]].kind # "tcp"

(* No dial is lost: a request waits on a promise that is settled or whose   *)
(* dialer is still at work, even when CloseIdleConnections has thrown the   *)
(* promise map away in between; until then the requests to one origin share *)
(* one dial per protocol; a request that returned leaves no socket behind,  *)
(* whichever step failed: what it dialled over TCP or TLS is closed, pooled *)
(* or used; and what it multiplexes stays in its map while it lives, unless *)
(* CloseIdleConnections let a second dialer overwrite the entry (pool.go,   *)
(* 187 and 314) or its stream limit was reached once, upon which the next   *)
(* request dials anew and overwrites it.                                    *)
NoDialLost ==
  /\ \A p \in Protos, r \in Requests :
       poolPc[r] = WaitLabel(p) =>
         /\ waitFor[r] # None /\ promise[p][waitFor[r]] # Unmade
         /\ promise[p][waitFor[r]] = Pending =>
              poolPc[waitFor[r]] \in {"h3.dial", "tls.dial", "tls.handshake", "h2.handshake"}
  /\ closes = 0 => \A p \in Protos, o \in Origins : \A r, s \in Dialers(p, o) : r = s
  /\ \A c \in ConnIds :
       Alive(c) /\ conn[c].kind \in {"tcp", "tls"} =>
         c \in Pooled \/ \E r \in Requests : using[r] = c
  /\ closes = 0 => \A c \in ConnIds : Current(c) => mux[conn[c].kind][origin[c[1]]] = c

(* What it takes for "CloseIdleConnections closes all idle connections      *)
(* across H1, H2, and H3 pools" (pool.go:462): every live connection is in  *)
(* a map or in use.  No run checks it: the two overwrites named above lose  *)
(* the connection the map held, which nobody closes.                        *)
NothingOrphaned ==
  \A c \in ConnIds : Alive(c) => c \in Pooled \/ \E r \in Requests : using[r] = c

(* Some request has yet to return. *)
Unserved == \E r \in Requests : poolPc[r] # "done"
=============================================================================
