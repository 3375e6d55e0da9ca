------------------------------ MODULE Streams -------------------------------
(***************************************************************************)
(* Streams of events over one response (realtime/stream/stream.go): the    *)
(* SSE, NDJSON, gRPC-Web and chunk readers behind SeqToChan, and           *)
(* ResumableSSE, which reconnects with the last event id.  A stream is one *)
(* goroutine, a watcher that closes the body when the context ends, the    *)
(* server and the consumer of the two channels.                            *)
(***************************************************************************)
EXTENDS Naturals, Sequences, FiniteSets

CONSTANTS
  Streams,         \* calls of SSE, Channel or ResumableSSE
  Formats,         \* formats a stream may have; "resumable" is ResumableSSE
  Logs,            \* event logs a server may hold
  MaxReconnects,   \* SSEReconnectOptions.MaxReconnects, 0 for none
  OutCapacity,     \* buffer of out in ResumableSSE
  MaxConnections   \* bound on the connections of a stream

ASSUME StreamAssumption ==
  /\ MaxReconnects \in Nat /\ OutCapacity \in Nat /\ MaxConnections \in Nat
  /\ OutCapacity > 0

(* An event carries an id or not, and its payload decodes, does not, or is   *)
(* one of the two marks that end the connection's events.                    *)
ASSUME EventsAssumption ==
  Logs \subseteq Seq([id : BOOLEAN, kind : {"data", "done", "trailer", "bad"}])

VARIABLES
  format, log,
  spc,          \* the goroutine: connect, await, read, send, sleep, ended
  link,         \* the response body: none, open, eof, failed or closed
  sentUpto,     \* events of the log the server has sent on this connection
  lastId,       \* lastEventID, as a position in the log
  attempts,     \* failed connects in a row
  pending,      \* the event between NextEvent and the channel
  out,          \* values in the channel
  received,     \* positions of the values the consumer received
  errs,         \* values sent to errs, a channel of capacity one
  watcher,      \* armed or gone
  halted,       \* the context is done
  why,          \* what ended the stream (a ghost)
  made          \* connections made

streamVars == <<format, log, spc, link, sentUpto, lastId, attempts, pending, out, received,
                errs, watcher, halted, why, made>>

Resumes(s) == format[s] = "resumable"

Upd(f, s, v) == [f EXCEPT ![s] = v]

StreamInit ==
  /\ format \in [Streams -> Formats]
  /\ log \in [Streams -> Logs]
  /\ spc = [s \in Streams |-> "connect"]
  /\ link = [s \in Streams |-> "none"]
  /\ sentUpto = [s \in Streams |-> 0]
  /\ lastId = [s \in Streams |-> 0]
  /\ attempts = [s \in Streams |-> 0]
  /\ pending = [s \in Streams |-> 0]
  /\ out = [s \in Streams |-> <<>>]
  /\ received = [s \in Streams |-> <<>>]
  /\ errs = [s \in Streams |-> 0]
  /\ watcher = [s \in Streams |-> "gone"]
  /\ halted = {}
  /\ why = [s \in Streams |-> "running"]
  /\ made = [s \in Streams |-> 0]

-----------------------------------------------------------------------------
(* Faulty variants of single steps, which the properties must tell apart    *)
(* from the code.                                                           *)
IdWithoutCheck(s, n) == IF log[s][n].id THEN n ELSE 0

-----------------------------------------------------------------------------
(* The deferred calls: the body is closed, the watcher let go and both      *)
(* channels are closed.                                                     *)
ClosedBody(s) == IF link[s] = "none" THEN "none" ELSE "closed"

Leave(s, reason) ==
  /\ spc' = Upd(spc, s, "ended")
  /\ link' = Upd(link, s, ClosedBody(s))
  /\ watcher' = Upd(watcher, s, "gone")
  /\ why' = Upd(why, s, reason)

Fail(s, reason) ==
  /\ errs' = Upd(errs, s, errs[s] + 1)
  /\ Leave(s, reason)

(* The loop of ResumableSSE, or the one connect of the others. *)
Connect(s) ==
  /\ spc[s] = "connect"
  /\ s \notin halted
  /\ made[s] < MaxConnections
  /\ spc' = Upd(spc, s, "await")
  /\ made' = Upd(made, s, made[s] + 1)
  /\ UNCHANGED <<format, log, link, sentUpto, lastId, attempts, pending, out, received, errs,
                 watcher, halted, why>>

ConnectHalted(s) ==
  /\ spc[s] = "connect"
  /\ s \in halted
  /\ Fail(s, "halted")
  /\ UNCHANGED <<format, log, sentUpto, lastId, attempts, pending, out, received, halted, made>>

(* Get succeeds: the server resumes after the id it was told. *)
Armed == "armed"

Accepted(s, status) ==
  /\ spc[s] = "await"
  /\ status \in {"200", "204"}
  /\ attempts' = Upd(attempts, s, 0)
  /\ sentUpto' = Upd(sentUpto, s, lastId[s])
  /\ link' = Upd(link, s, IF status = "204" THEN "empty" ELSE "open")
  /\ watcher' = Upd(watcher, s, Armed)
  /\ spc' = Upd(spc, s, "read")
  /\ UNCHANGED <<format, log, lastId, pending, out, received, errs, halted, why, made>>

(* Get fails, or answers with another status, whose body it closes. *)
Rejected(s) ==
  /\ spc[s] = "await"
  /\ attempts' = Upd(attempts, s, attempts[s] + 1)
  /\ IF ~Resumes(s) \/ (MaxReconnects > 0 /\ attempts[s] + 1 > MaxReconnects)
       THEN Fail(s, "refused")
       ELSE /\ spc' = Upd(spc, s, "sleep")
            /\ UNCHANGED <<link, watcher, why, errs>>
  /\ UNCHANGED <<format, log, sentUpto, lastId, pending, out, received, halted, made>>

-----------------------------------------------------------------------------
(* The server closes the connection, or it breaks. *)
ServerEnds(s, how) ==
  /\ link[s] \in {"open", "empty"}
  /\ link' = Upd(link, s, IF link[s] = "empty" THEN "eof204" ELSE how)
  /\ UNCHANGED <<format, log, spc, sentUpto, lastId, attempts, pending, out, received, errs,
                 watcher, halted, why, made>>

(* The position that lastEventID takes from the n-th event. *)
IdAfter(s, n) == IF log[s][n].id THEN n ELSE lastId[s]

(* NextEvent, or Next of the other readers, returns the next event; [DONE]  *)
(* and a trailer end the connection's events as an EOF does, and what the   *)
(* server sends behind them is never read.                                  *)
ReadEvent(s) ==
  /\ spc[s] = "read"
  /\ link[s] \in {"open", "eof", "failed"}
  /\ sentUpto[s] < Len(log[s])
  /\ ~(Resumes(s) /\ s \in halted)
  /\ LET n == sentUpto[s] + 1
         e == log[s][n]
     IN /\ sentUpto' = Upd(sentUpto, s, n)
        /\ CASE e.kind \in {"done", "trailer"} ->
                  /\ link' = Upd(link, s, "done")
                  /\ UNCHANGED <<lastId, pending, spc, errs, watcher, why>>
             [] e.kind = "bad" /\ ~Resumes(s) ->
                  /\ Fail(s, IF s \in halted THEN "halted" ELSE "undecodable")
                  /\ UNCHANGED <<lastId, pending>>
             [] OTHER ->
                  /\ lastId' = Upd(lastId, s, IdAfter(s, n))
                  /\ pending' = Upd(pending, s, n)
                  /\ spc' = Upd(spc, s, "send")
                  /\ UNCHANGED <<link, errs, watcher, why>>
  /\ UNCHANGED <<format, log, attempts, out, received, halted, made>>

(* The body ends: EOF ends a plain stream and makes ResumableSSE wait,      *)
(* unless the status was 204; an error ends both.  A body that breaks off   *)
(* within the header of a gRPC-Web frame counts as ended.                   *)
ReadEnds(s) ==
  /\ spc[s] = "read"
  /\ ~(Resumes(s) /\ s \in halted)
  /\ link[s] # "open" /\ link[s] # "empty"
  /\ \/ /\ link[s] \in {"eof", "done", "eof204"} \/ (link[s] = "failed" /\ format[s] = "grpc")
        /\ IF Resumes(s) /\ link[s] # "eof204"
             THEN /\ spc' = Upd(spc, s, "sleep")
                  /\ link' = Upd(link, s, ClosedBody(s))
                  /\ watcher' = Upd(watcher, s, "gone")
                  /\ UNCHANGED <<errs, why>>
             ELSE IF s \in halted THEN Fail(s, "halted")
             ELSE Leave(s, "finished") /\ UNCHANGED errs
     \/ /\ link[s] \in {"failed", "closed"}
        /\ Fail(s, IF s \in halted THEN "halted" ELSE "broken")
  /\ UNCHANGED <<format, log, sentUpto, lastId, attempts, pending, out, received, halted, made>>

(* consumeSSEResponse looks at the context before each event. *)
ReadHalted(s) ==
  /\ spc[s] = "read"
  /\ Resumes(s) /\ s \in halted
  /\ Fail(s, "halted")
  /\ UNCHANGED <<format, log, sentUpto, lastId, attempts, pending, out, received, halted, made>>

(* The value goes to out: a buffer in ResumableSSE, else a rendezvous that  *)
(* needs the consumer.                                                      *)
SendValue(s) ==
  /\ spc[s] = "send"
  /\ log[s][pending[s]].kind # "bad"
  /\ IF Resumes(s)
       THEN Len(out[s]) < OutCapacity /\ out' = Upd(out, s, Append(out[s], pending[s])) /\ received' = received
       ELSE s \notin halted /\ received' = Upd(received, s, Append(received[s], pending[s])) /\ out' = out
  /\ spc' = Upd(spc, s, "read")
  /\ pending' = Upd(pending, s, 0)
  /\ UNCHANGED <<format, log, link, sentUpto, lastId, attempts, errs, watcher, halted, why, made>>

SendHalted(s) ==
  /\ spc[s] = "send"
  /\ s \in halted
  /\ Fail(s, "halted")
  /\ UNCHANGED <<format, log, sentUpto, lastId, attempts, pending, out, received, halted, made>>

(* dispatchSSEEvent cannot decode the value. *)
SendUndecodable(s) ==
  /\ spc[s] = "send"
  /\ log[s][pending[s]].kind = "bad"
  /\ Fail(s, "undecodable")
  /\ UNCHANGED <<format, log, sentUpto, lastId, attempts, pending, out, received, halted, made>>

(* sleepOrCancel *)
Slept(s) ==
  /\ spc[s] = "sleep"
  /\ spc' = Upd(spc, s, "connect")
  /\ UNCHANGED <<format, log, link, sentUpto, lastId, attempts, pending, out, received, errs,
                 watcher, halted, why, made>>

CancelSleep(s) == Fail(s, "halted")

SleepHalted(s) ==
  /\ spc[s] = "sleep"
  /\ s \in halted
  /\ CancelSleep(s)
  /\ UNCHANGED <<format, log, sentUpto, lastId, attempts, pending, out, received, halted, made>>

(* The watcher closes the body, which ends a read that is blocked on it. *)
Watch(s) ==
  /\ watcher[s] = "armed"
  /\ s \in halted
  /\ watcher' = Upd(watcher, s, "gone")
  /\ link' = Upd(link, s, "closed")
  /\ UNCHANGED <<format, log, spc, sentUpto, lastId, attempts, pending, out, received, errs,
                 halted, why, made>>

(* The consumer. *)
Receive(s) ==
  /\ out[s] # <<>>
  /\ received' = Upd(received, s, Append(received[s], Head(out[s])))
  /\ out' = Upd(out, s, Tail(out[s]))
  /\ UNCHANGED <<format, log, spc, link, sentUpto, lastId, attempts, pending, errs, watcher,
                 halted, why, made>>

Halt(s) ==
  /\ s \notin halted
  /\ halted' = halted \cup {s}
  /\ UNCHANGED <<format, log, spc, link, sentUpto, lastId, attempts, pending, out, received, errs,
                 watcher, why, made>>

(* Get returns at once when the context ends. *)
StreamGoroutine(s) ==
  \/ Connect(s) \/ ConnectHalted(s) \/ ReadEvent(s) \/ ReadEnds(s) \/ ReadHalted(s)
  \/ (s \in halted /\ Rejected(s))
  \/ SendHalted(s) \/ SendUndecodable(s) \/ SleepHalted(s) \/ Slept(s)

StreamNext ==
  \E s \in Streams :
    \/ StreamGoroutine(s)
    \/ SendValue(s)
    \/ Watch(s)
    \/ \E status \in {"200", "204"} : Accepted(s, status)
    \/ Rejected(s)
    \/ \E how \in {"eof", "failed"} : ServerEnds(s, how)
    \/ Receive(s)
    \/ Halt(s)

(* The goroutines run; the server and the consumer need do nothing. *)
StreamFairness == \A s \in Streams : WF_streamVars(StreamGoroutine(s)) /\ WF_streamVars(Watch(s))

StreamSpec == StreamInit /\ [][StreamNext]_streamVars /\ StreamFairness

-----------------------------------------------------------------------------
Taken(s) == received[s] \o out[s]

Feed == INSTANCE EventFeed WITH
  Feeds     <- Streams,
  feed      <- log,
  resuming  <- {s \in Streams : Resumes(s)},
  delivered <- [s \in Streams |-> Taken(s)],
  errors    <- errs,
  holding   <- {s \in Streams : link[s] \notin {"none", "closed"} \/ watcher[s] = "armed"},
  over      <- {s \in Streams : spc[s] = "ended"}

(* The goroutines, watchers and channels of a stream implement the feed     *)
(* its consumer is promised: over any number of broken connections no event *)
(* is skipped or reordered and only what followed the last id is repeated,  *)
(* at most one error goes into errs (whose capacity is one), and nothing    *)
(* holds the response after the end.                                        *)
ImplementsFeed == Feed!FeedSpec

(* A stream has not ended although its context has. *)
Lingering == \E s \in halted : spc[s] # "ended"

-----------------------------------------------------------------------------
(* "ResumableSSE opens an auto-reconnecting Server-Sent Event stream"       *)
(* (stream.go:434): a connection that breaks does not end it.               *)
BrokenIsResumed ==
  \A s \in Streams : Resumes(s) => why[s] # "broken"
=============================================================================
