------------------------------ MODULE MCNetwork ------------------------------
(* Model-checking instances of what makes a connection: ConnPool in every   *)
(* mode, Dialer, H3Engine, DnsTransports, WsDial and WsH2.                  *)
(* A run explores the behaviours of each with the others at rest.           *)
EXTENDS ConnPool, Dialer, H3Engine, DnsTransports, WsDial, WsH2, TLC

(* NewPool's default, HTTP/2 off, forced HTTP/2, opportunistic and forced   *)
(* HTTP/3.                                                                  *)
AllModes == {{"EnableH2"}, {}, {"ForceH2"}, {"EnableH2", "EnableH3"},
             {"EnableH2", "EnableH3", "ForceH3"}}

(* Dials: a race, a race with a blocked address, a blocked literal, a proxy,*)
(* a named interface, and blocked addresses only.                           *)
Dial(addrs) ==
  [addrs |-> addrs, guard |-> TRUE, proxy |-> FALSE, literal |-> FALSE, nic |-> FALSE,
   filters |-> FALSE]
SixDials ==
  {[Dial(<<"public", "public">>) EXCEPT !.guard = FALSE, !.filters = TRUE],
   Dial(<<"public", "private", "public">>),
   [Dial(<<"private">>) EXCEPT !.literal = TRUE],
   [Dial(<<"private">>) EXCEPT !.proxy = TRUE, !.filters = TRUE],
   [Dial(<<"public", "public">>) EXCEPT !.guard = FALSE, !.nic = TRUE],
   Dial(<<"private", "private">>)}

(* Lookups: two over one DoQ connection, DoT that falls back on DoH, and    *)
(* races of two resolvers.                                                  *)
TwoLookups(first, second, how) == [by |-> <<first, second>>, how |-> how]
FourPlans ==
  {TwoLookups("doq", "doq", "each"), TwoLookups("dot", "doh", "fallback"),
   TwoLookups("dot", "dot", "race"), TwoLookups("doq", "doh", "race")}

(* WebSocket dials: an invalid URL, or with and without TLS, subprotocols,  *)
(* compression and a deadline.                                              *)
AllDials ==
  {[valid |-> FALSE, tls |-> TRUE, protocols |-> <<>>, compression |-> TRUE, deadline |-> TRUE]}
    \cup [valid : {TRUE}, tls : BOOLEAN, protocols : {<<>>, <<"a">>, <<"a", "b">>},
          compression : BOOLEAN, deadline : BOOLEAN]
AllUpgrades ==
  [status : {101, 200}, upgrade : BOOLEAN, accept : BOOLEAN, protocol : {"", "a", "b"}, compress : BOOLEAN]
AllConnects == [status : {200, 403}, protocol : {"", "a"}, compress : BOOLEAN]

VARIABLE focus   \* the component whose behaviour is explored

wsVars == <<dialVars, h2Vars>>
allVars == <<focus, poolVars, dialerVars, h3Vars, transportVars, wsVars>>

Only(component) ==
  /\ focus = component
  /\ component # "pool" => mode = {} /\ https = {} /\ origin = [r \in Requests |-> CHOOSE o \in Origins : TRUE]
  /\ component # "dial" => job = [Dial(<<"private">>) EXCEPT !.literal = TRUE]
  /\ component # "h3" => fixed = FALSE
  /\ component # "dns" => plan = TwoLookups("dot", "doh", "fallback")
  /\ component # "ws" => req = CHOOSE d \in AllDials : ~d.valid
  /\ PoolInit /\ DialerInit /\ H3Init /\ TransportInit /\ DialInit /\ H2Init

MCNext ==
  \/ focus = "pool" /\ PoolNext /\ UNCHANGED <<focus, dialerVars, h3Vars, transportVars, wsVars>>
  \/ focus = "dial" /\ DialerNext /\ UNCHANGED <<focus, poolVars, h3Vars, transportVars, wsVars>>
  \/ focus = "h3" /\ H3Next /\ UNCHANGED <<focus, poolVars, dialerVars, transportVars, wsVars>>
  \/ focus = "dns" /\ TransportNext /\ UNCHANGED <<focus, poolVars, dialerVars, h3Vars, wsVars>>
  \/ /\ focus = "ws" /\ DialNext
     /\ UNCHANGED <<focus, poolVars, dialerVars, h3Vars, transportVars, h2Vars>>
  \/ /\ focus = "ws2" /\ H2Next
     /\ UNCHANGED <<focus, poolVars, dialerVars, h3Vars, transportVars, dialVars>>

(* The fairness of each component, while it is the one explored. *)
MCFairness ==
  /\ \A r \in Requests :
       WF_allVars(focus = "pool" /\ PoolStep(r) /\ UNCHANGED <<focus, dialerVars, h3Vars, transportVars, wsVars>>)
  /\ WF_allVars(focus = "dial" /\ CallerStep /\ UNCHANGED <<focus, poolVars, h3Vars, transportVars, wsVars>>)
  /\ \A a \in 1..MaxAddrs :
       WF_allVars(/\ focus = "dial" /\ a \in Addrs /\ AttemptStep(a)
                  /\ UNCHANGED <<focus, poolVars, h3Vars, transportVars, wsVars>>)
  /\ \A r \in H3Requests :
       WF_allVars(focus = "h3" /\ H3ConnStep(r) /\ UNCHANGED <<focus, poolVars, dialerVars, transportVars, wsVars>>)
  /\ \A l \in 1..2 :
       WF_allVars(/\ focus = "dns" /\ l \in Asked /\ DotStep(l)
                  /\ UNCHANGED <<focus, poolVars, dialerVars, h3Vars, wsVars>>)
  /\ WF_allVars(focus = "ws" /\ DialStep /\ UNCHANGED <<focus, poolVars, dialerVars, h3Vars, transportVars, h2Vars>>)
  /\ WF_allVars(/\ focus = "ws" /\ (DialBaseFails \/ \E p \in {"", "h2", "h3"} : DialBaseConnection(p))
                /\ UNCHANGED <<focus, poolVars, dialerVars, h3Vars, transportVars, h2Vars>>)
  /\ WF_allVars(/\ focus = "ws" /\ DeadlinePasses
                /\ UNCHANGED <<focus, poolVars, dialerVars, h3Vars, transportVars, h2Vars>>)
  /\ SF_allVars(/\ focus = "ws2" /\ ReaderStep2
                /\ UNCHANGED <<focus, poolVars, dialerVars, h3Vars, transportVars, dialVars>>)
  /\ SF_allVars(/\ focus = "ws2" /\ CloserStep
                /\ UNCHANGED <<focus, poolVars, dialerVars, h3Vars, transportVars, dialVars>>)
  /\ \A w \in H2Writers :
       SF_allVars(/\ focus = "ws2" /\ WriterStep2(w)
                  /\ UNCHANGED <<focus, poolVars, dialerVars, h3Vars, transportVars, dialVars>>)

MCSpec ==
  /\ \E component \in {"pool", "dial", "h3", "dns", "ws", "ws2"} : Only(component)
  /\ [][MCNext]_allVars
  /\ MCFairness

(* The specification of a dial alone. *)
DialOnly == Only("dial") /\ [][MCNext]_allVars /\ MCFairness

(* No connection is left behind or made where it must not be: the losers of *)
(* a race are closed but for the two ways out of it LosersClosed names, no  *)
(* blocked address is touched (netdial.go, multinic.go), an HTTP/3          *)
(* connection is pooled or closed whatever Close and a dial do at the same  *)
(* time (h3_engine.go), and DoQ keeps one alive (doq.go).                   *)
NoStrayConn == LosersClosed /\ GuardedDial /\ NoStrayH3Conn /\ OneQuicConn

(* A WebSocket dial settles its socket, whichever handshake it broke off    *)
(* and whenever the context ended, and over HTTP/1.1 both ends leave the    *)
(* handshake with the same subprotocol and compression, whatever the server *)
(* selects; the subprotocol is one asked for when any was (websocket.go).   *)
DialAgrees == DialSettlesSocket /\ UpgradeAgrees

(* A WebSocket over HTTP/2 loses no byte of credit and reports the end of   *)
(* the stream after every byte before it (wsconn.go).                       *)
StreamAccounts == CreditConserved /\ ReadBeforeEof

Waiting ==
  \/ focus = "pool" /\ Unserved
  \/ focus = "dial" /\ Overdue
  \/ focus = "h3" /\ H3Connecting
  \/ focus = "dns" /\ Resolving
  \/ focus = "ws" /\ Dialling
  \/ focus = "ws2" /\ Closing

(* Nobody waits for ever: every request to the pool returns, also one that  *)
(* waits for another's dial; the end of its context ends a dial, unless a   *)
(* proxy keeps it waiting; a request to the HTTP/3 engine gets a connection *)
(* or fails, also when the dialer it waits for does; a DoT lookup and a     *)
(* WebSocket dial with a deadline end against a silent server (the dial not *)
(* in the wait for the answer to an Extended CONNECT); and Close of a       *)
(* WebSocket over HTTP/2 gets the mutex it shares with writers and returns, *)
(* as long as the peer takes what is written: the end of stream is sent     *)
(* under that mutex, without a deadline, before the socket is closed.       *)
ConnectingEnds == Waiting ~> ~Waiting
=============================================================================
