------------------------------- MODULE H3Engine ------------------------------
(***************************************************************************)
(* The HTTP/3 engine (h3_engine.go): requests share one connection per     *)
(* origin; the first that misses dials it and the others wait for its      *)
(* promise.  The mutex e.mu makes each critical section one step; a dial   *)
(* and an exchange happen outside of it.                                   *)
(***************************************************************************)
EXTENDS Naturals, Sequences, FiniteSets

CONSTANTS
  H3Requests,   \* calls of RoundTrip
  H3Origins     \* values of getTargetAddr

Nobody == "nobody"
NoH3Conn == 0

ASSUME H3Assumption == Nobody \notin H3Requests

VARIABLES
  h3pc,        \* where each request is
  aim,         \* its origin
  ctxOver,     \* requests whose own context is over
  cc,          \* the connection each request works with
  follows,     \* the request whose promise a request waits for
  h3promise,   \* each request's promise: none, pending, or [conn] once done
  conns,       \* e.conns
  h3dials,     \* e.dials: the request that dials an origin
  h3conn,      \* every connection made: open or closed
  fixed,       \* e.fixedConn is set (connection 1)
  h3closed,    \* e.closed
  held         \* requests that hold a pooled request and response

h3Vars == <<h3pc, aim, ctxOver, cc, follows, h3promise, conns, h3dials, h3conn, fixed,
            h3closed, held>>

NoPromise == [done |-> FALSE, conn |-> NoH3Conn]

(* NewH3Engine, or NewH3EngineFromConn with an open connection.             *)
H3Init ==
  /\ h3pc = [r \in H3Requests |-> "start"]
  /\ aim \in [H3Requests -> H3Origins]
  /\ ctxOver = {}
  /\ cc = [r \in H3Requests |-> NoH3Conn]
  /\ follows = [r \in H3Requests |-> Nobody]
  /\ h3promise = [r \in H3Requests |-> NoPromise]
  /\ conns = [o \in H3Origins |-> NoH3Conn]
  /\ h3dials = [o \in H3Origins |-> Nobody]
  /\ fixed \in BOOLEAN
  /\ h3conn = IF fixed THEN <<"open">> ELSE <<>>
  /\ h3closed = FALSE
  /\ held = {}

H3Open(c) == c # NoH3Conn /\ h3conn[c] = "open"

-----------------------------------------------------------------------------
H3Goes(r, pc) == h3pc' = [h3pc EXCEPT ![r] = pc]

(* A pooled connection is found open. *)
Found(r) ==
  /\ H3Open(conns[aim[r]])
  /\ cc' = [cc EXCEPT ![r] = conns[aim[r]]]
  /\ H3Goes(r, "exchange")

(* getConn under the read lock. *)
H3Lookup(r) ==
  /\ h3pc[r] = "start"
  /\ \/ /\ r \in ctxOver \/ h3closed \/ (fixed /\ ~H3Open(1))
        /\ H3Goes(r, "failed")
        /\ UNCHANGED cc
     \/ /\ r \notin ctxOver /\ ~h3closed /\ fixed /\ H3Open(1)
        /\ cc' = [cc EXCEPT ![r] = 1]
        /\ H3Goes(r, "exchange")
     \/ r \notin ctxOver /\ ~h3closed /\ ~fixed /\ Found(r)
     \/ /\ r \notin ctxOver /\ ~h3closed /\ ~fixed /\ ~H3Open(conns[aim[r]])
        /\ H3Goes(r, "lock")
        /\ UNCHANGED cc
  /\ UNCHANGED <<aim, ctxOver, follows, h3promise, conns, h3dials, h3conn, fixed, h3closed, held>>

InFlightDial(o) == h3dials[o] # Nobody

(* getConn under the lock: the connection may have come meanwhile; else the *)
(* request waits for the dial in flight or becomes the dialer.              *)
H3Lock(r) ==
  LET o == aim[r] IN
  /\ h3pc[r] = "lock"
  /\ \/ h3closed /\ H3Goes(r, "failed") /\ UNCHANGED <<cc, follows, h3promise, h3dials>>
     \/ ~h3closed /\ Found(r) /\ UNCHANGED <<follows, h3promise, h3dials>>
     \/ /\ ~h3closed /\ ~H3Open(conns[o]) /\ InFlightDial(o)
        /\ follows' = [follows EXCEPT ![r] = h3dials[o]]
        /\ H3Goes(r, "wait")
        /\ UNCHANGED <<cc, h3promise, h3dials>>
     \/ /\ ~h3closed /\ ~H3Open(conns[o]) /\ ~InFlightDial(o)
        /\ h3promise' = [h3promise EXCEPT ![r] = NoPromise]
        /\ h3dials' = [h3dials EXCEPT ![o] = r]
        /\ H3Goes(r, "dial")
        /\ UNCHANGED <<cc, follows>>
  /\ UNCHANGED <<aim, ctxOver, conns, h3conn, fixed, h3closed, held>>

H3WaitCancelled(r) ==
  /\ h3pc[r] = "wait" /\ r \in ctxOver
  /\ H3Goes(r, "failed")
  /\ UNCHANGED <<aim, ctxOver, cc, follows, h3promise, conns, h3dials, h3conn, fixed, h3closed, held>>

(* The promise is kept: its connection, or another round.                   *)
WaitDone(r) ==
  LET p == h3promise[follows[r]] IN
  /\ h3pc[r] = "wait" /\ p.done
  /\ \/ /\ H3Open(p.conn)
        /\ cc' = [cc EXCEPT ![r] = p.conn]
        /\ H3Goes(r, "exchange")
     \/ /\ ~H3Open(p.conn)
        /\ H3Goes(r, IF r \in ctxOver THEN "failed" ELSE "lock")
        /\ UNCHANGED cc
  /\ UNCHANGED <<aim, ctxOver, follows, h3promise, conns, h3dials, h3conn, fixed, h3closed, held>>

(* dial, within DialTimeout and the dialer's own context. *)
H3Dial(r, ok) ==
  /\ h3pc[r] = "dial"
  /\ h3conn' = IF ok THEN Append(h3conn, "open") ELSE h3conn
  /\ cc' = [cc EXCEPT ![r] = IF ok THEN Len(h3conn) + 1 ELSE NoH3Conn]
  /\ H3Goes(r, "publish")
  /\ UNCHANGED <<aim, ctxOver, follows, h3promise, conns, h3dials, fixed, h3closed, held>>

SeenClosed == h3closed

(* After the dial, under the lock. *)
Publish(r) ==
  /\ h3pc[r] = "publish"
  /\ h3dials' = [h3dials EXCEPT ![aim[r]] = Nobody]
  /\ \/ /\ cc[r] = NoH3Conn
        /\ h3promise' = [h3promise EXCEPT ![r].done = TRUE]
        /\ H3Goes(r, "failed")
        /\ UNCHANGED conns
     \/ /\ cc[r] # NoH3Conn /\ SeenClosed
        /\ H3Goes(r, "abandon")
        /\ UNCHANGED <<conns, h3promise>>
     \/ /\ cc[r] # NoH3Conn /\ ~SeenClosed
        /\ conns' = [conns EXCEPT ![aim[r]] = cc[r]]
        /\ h3promise' = [h3promise EXCEPT ![r] = [done |-> TRUE, conn |-> cc[r]]]
        /\ H3Goes(r, "exchange")
  /\ UNCHANGED <<aim, ctxOver, cc, follows, h3conn, fixed, h3closed, held>>

(* The engine was closed during the dial: the connection goes, outside the  *)
(* lock, and the promise is kept without one.                               *)
Abandon(r) ==
  /\ h3pc[r] = "abandon"
  /\ h3conn' = [h3conn EXCEPT ![cc[r]] = "closed"]
  /\ h3promise' = [h3promise EXCEPT ![r].done = TRUE]
  /\ H3Goes(r, "failed")
  /\ UNCHANGED <<aim, ctxOver, cc, follows, conns, h3dials, fixed, h3closed, held>>

(* RoundTrip acquires a request and a response; populateRequest may fail on *)
(* the body.                                                                *)
Populate(r, ok) ==
  /\ h3pc[r] = "exchange" /\ r \notin held
  /\ held' = IF ok THEN held \cup {r} ELSE held
  /\ H3Goes(r, IF ok THEN "exchange" ELSE "failed")
  /\ UNCHANGED <<aim, ctxOver, cc, follows, h3promise, conns, h3dials, h3conn, fixed, h3closed>>

H3Do(r, ok) ==
  /\ h3pc[r] = "exchange" /\ r \in held
  /\ ok => H3Open(cc[r])
  /\ held' = IF ok THEN held ELSE held \ {r}
  /\ H3Goes(r, IF ok THEN "body" ELSE "failed")
  /\ UNCHANGED <<aim, ctxOver, cc, follows, h3promise, conns, h3dials, h3conn, fixed, h3closed>>

(* h3BodyReadCloser.Close *)
CloseBody(r) ==
  /\ h3pc[r] = "body"
  /\ held' = held \ {r}
  /\ H3Goes(r, "closed")
  /\ UNCHANGED <<aim, ctxOver, cc, follows, h3promise, conns, h3dials, h3conn, fixed, h3closed>>

Shut(cs) == h3conn' = [c \in DOMAIN h3conn |-> IF c \in cs THEN "closed" ELSE h3conn[c]]
Pooled3 == {conns[o] : o \in H3Origins} \ {NoH3Conn}

CloseIdleH3 ==
  /\ Shut(Pooled3)
  /\ conns' = [o \in H3Origins |-> NoH3Conn]
  /\ UNCHANGED <<h3pc, aim, ctxOver, cc, follows, h3promise, h3dials, fixed, h3closed, held>>

(* Close also cancels the dials in flight and forgets them.                 *)
CloseEngine ==
  /\ h3closed' = TRUE
  /\ Shut(Pooled3 \cup (IF fixed THEN {1} ELSE {}))
  /\ conns' = [o \in H3Origins |-> NoH3Conn]
  /\ h3dials' = [o \in H3Origins |-> Nobody]
  /\ UNCHANGED <<h3pc, aim, ctxOver, cc, follows, h3promise, fixed, held>>

(* The peer or the network ends a connection; a caller's context ends.      *)
ConnEnds(c) ==
  /\ h3conn[c] = "open"
  /\ h3conn' = [h3conn EXCEPT ![c] = "closed"]
  /\ UNCHANGED <<h3pc, aim, ctxOver, cc, follows, h3promise, conns, h3dials, fixed, h3closed, held>>

CtxEnds(r) ==
  /\ r \notin ctxOver
  /\ ctxOver' = ctxOver \cup {r}
  /\ UNCHANGED <<h3pc, aim, cc, follows, h3promise, conns, h3dials, h3conn, fixed, h3closed, held>>

H3ConnStep(r) ==
  H3Lookup(r) \/ H3Lock(r) \/ H3WaitCancelled(r) \/ WaitDone(r) \/ Publish(r) \/ Abandon(r)
  \/ \E ok \in BOOLEAN : H3Dial(r, ok)

H3Next ==
  \/ \E r \in H3Requests :
       \/ H3ConnStep(r) \/ CloseBody(r) \/ CtxEnds(r)
       \/ \E ok \in BOOLEAN : Populate(r, ok) \/ H3Do(r, ok)
  \/ CloseIdleH3 \/ CloseEngine
  \/ \E c \in DOMAIN h3conn : ConnEnds(c)

(* Connecting needs no one else: a dial is bounded by its timeout.          *)
H3Fairness == \A r \in H3Requests : WF_h3Vars(H3ConnStep(r))

H3Spec == H3Init /\ [][H3Next]_h3Vars /\ H3Fairness

-----------------------------------------------------------------------------
Connecting == {"lock", "wait", "dial", "publish", "abandon"}

(* Whatever requests, CloseIdleConnections and Close do at the same time,   *)
(* an open connection is pooled, fixed, or in the hands of the dialer that  *)
(* has yet to publish it, so that Close leaves none behind; no origin is    *)
(* dialled twice at once; and a request that failed or whose body is closed *)
(* has given its pooled objects back.                                       *)
NoStrayH3Conn ==
  /\ \A c \in DOMAIN h3conn : h3conn[c] = "open" =>
       \/ c \in Pooled3 /\ ~h3closed
       \/ fixed /\ c = 1
       \/ \E r \in H3Requests : cc[r] = c /\ h3pc[r] \in {"publish", "abandon"}
  /\ \A r, s \in H3Requests :
       h3pc[r] = "dial" /\ h3pc[s] = "dial" /\ aim[r] = aim[s] => r = s
  /\ \A r \in held : h3pc[r] \in {"exchange", "body"}

(* Some request is looking for a connection. *)
H3Connecting == \E r \in H3Requests : h3pc[r] \in Connecting

-----------------------------------------------------------------------------
(* "CloseIdleConnections terminates all idle HTTP/3 connections in the      *)
(* pool" (h3_engine.go:431): one that carries an exchange is left alone.    *)
OnlyIdleClosed ==
  [][CloseIdleH3 =>
       ~\E r \in H3Requests : h3pc[r] = "exchange" /\ r \in held /\ cc[r] \in Pooled3]_h3Vars
=============================================================================
