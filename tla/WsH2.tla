--------------------------------- MODULE WsH2 --------------------------------
(***************************************************************************)
(* A WebSocket's HTTP/2 stream (realtime/ws/wsconn.go, wsH2Conn): one      *)
(* goroutine reads, several write, one closes.  The reader answers control *)
(* frames and returns flow-control credit under the writers' mutex.        *)
(* Bytes are counted, not named.                                           *)
(***************************************************************************)
EXTENDS Integers, Sequences, FiniteSets

CONSTANTS
  H2Writers,      \* goroutines that call Write, once each
  Sizes, Paddings, \* of the data frames the peer sends
  InitialWindow,  \* h2InitialWindowSize (65535 in the code)
  AckThreshold,   \* unacknowledged bytes that return credit (16384)
  ReadSize,       \* bytes a Read takes (4096)
  FramesPerWrite, \* data frames of one Write
  MaxFrames       \* bound on the frames of the peer

ASSUME WsH2Assumption ==
  /\ InitialWindow \in Nat /\ AckThreshold \in 1..InitialWindow
  /\ ReadSize \in Nat \ {0} /\ FramesPerWrite \in Nat \ {0} /\ MaxFrames \in Nat
  /\ Sizes \subseteq Nat /\ Paddings \subseteq Nat

VARIABLES
  credit,      \* bytes the peer may still send
  frames,      \* frames in flight from the peer
  count,       \* frames the peer has sent
  sentBytes, padBytes,  \* data and padding it has sent
  readBuf,     \* c.readBuf, as a length
  readBytes,   \* data handed to the WebSocket layer
  unackedBytes, streamEnded,
  reader,      \* "idle", "frame", "ack", "credit" or the end of the stream
  tx,          \* who holds c.writeMu, "" for nobody
  sender,      \* the frames each writer has left
  closer,      \* "open", "locking", "closing", "closed"
  up,          \* c.base is usable
  stalled      \* the peer reads no more and the socket's buffer is full: a write does not return

h2Vars == <<credit, frames, count, sentBytes, padBytes, readBuf, readBytes, unackedBytes,
            streamEnded, reader, tx, sender, closer, up, stalled>>
peerH2Vars == <<credit, frames, count, sentBytes, padBytes>>
bufVars == <<readBuf, readBytes, unackedBytes, streamEnded>>

(* A frame carries what was sent before it (a ghost). *)
Frame(kind, n, pad, end) ==
  [kind |-> kind, n |-> n, pad |-> pad, end |-> end, sent |-> sentBytes, padded |-> padBytes]
DataFrame(n, pad, end) == Frame("data", n, pad, end)
OtherFrame(kind) == Frame(kind, 0, 0, FALSE)

NotYet == FramesPerWrite + 1

H2Init ==
  /\ credit = InitialWindow /\ frames = <<>> /\ count = 0 /\ sentBytes = 0 /\ padBytes = 0
  /\ readBuf = 0 /\ readBytes = 0 /\ unackedBytes = 0 /\ streamEnded = FALSE
  /\ reader = "idle" /\ tx = ""
  /\ sender = [w \in H2Writers |-> NotYet]
  /\ closer = "open" /\ up = TRUE /\ stalled = FALSE

-----------------------------------------------------------------------------
(* Faulty variants of single steps, which the properties must tell apart    *)
(* from the code.                                                           *)
KeepCount == unackedBytes

-----------------------------------------------------------------------------
(* The peer: it keeps to its credit, and sends nothing after the end of the *)
(* stream.                                                                  *)
PeerMayData == ~\E i \in DOMAIN frames : frames[i].end
Ended == streamEnded \/ ~PeerMayData \/ reader \in {"eof", "reset", "failed"}

PeerData(n, pad, end) ==
  /\ ~Ended /\ count < MaxFrames /\ n + pad <= credit
  /\ frames' = Append(frames, DataFrame(n, pad, end))
  /\ credit' = credit - (n + pad)
  /\ count' = count + 1
  /\ sentBytes' = sentBytes + n /\ padBytes' = padBytes + pad
  /\ UNCHANGED <<bufVars, reader, tx, sender, closer, up, stalled>>

PeerOther(kind) ==
  /\ ~Ended /\ count < MaxFrames
  /\ \A i \in DOMAIN frames : frames[i].kind # "reset"
  /\ frames' = Append(frames, OtherFrame(kind))
  /\ count' = count + 1
  /\ UNCHANGED <<credit, sentBytes, padBytes, bufVars, reader, tx, sender, closer, up, stalled>>

ConnectionLost ==
  /\ up /\ closer # "closed"
  /\ up' = FALSE
  /\ UNCHANGED <<peerH2Vars, bufVars, reader, tx, sender, closer, stalled>>

(* The peer stops reading for good.  No write has a deadline, so one that   *)
(* is under way, or begins, ends only with the connection.                  *)
PeerStalls ==
  /\ ~stalled
  /\ stalled' = TRUE
  /\ UNCHANGED <<peerH2Vars, bufVars, reader, tx, sender, closer, up>>

WriteReturns == up => ~stalled

-----------------------------------------------------------------------------
(* Read: the buffer is looked at before the end of the stream. *)
MustEnd == readBuf = 0 /\ streamEnded

ReadBegins ==
  /\ reader = "idle"
  /\ reader' = IF MustEnd THEN "eof" ELSE IF readBuf = 0 THEN "frame" ELSE "take"
  /\ UNCHANGED <<peerH2Vars, bufVars, tx, sender, closer, up, stalled>>

(* framer.ReadFrame and handleH2Frame *)
ReadFrame ==
  LET f == Head(frames) IN
  /\ reader = "frame" /\ up /\ frames # <<>>
  /\ frames' = Tail(frames)
  /\ readBuf' = readBuf + f.n
  /\ streamEnded' = (streamEnded \/ f.end)
  /\ reader' = CASE f.kind = "data" -> "idle"
                 [] f.kind = "control" -> "ack"
                 [] f.kind \in {"reset", "goaway"} -> "reset"
                 [] OTHER -> "idle"
  /\ UNCHANGED <<credit, count, sentBytes, padBytes, readBytes, unackedBytes, tx, sender, closer, up, stalled>>

H2ReadFails ==
  /\ reader = "frame" /\ ~up
  /\ reader' = "failed"
  /\ UNCHANGED <<peerH2Vars, bufVars, tx, sender, closer, up, stalled>>

(* readBuf.Read *)
Take ==
  LET n == IF readBuf < ReadSize THEN readBuf ELSE ReadSize IN
  /\ reader = "take"
  /\ readBuf' = readBuf - n
  /\ readBytes' = readBytes + n
  /\ unackedBytes' = unackedBytes + n
  /\ reader' = IF unackedBytes + n >= AckThreshold THEN "credit" ELSE "idle"
  /\ UNCHANGED <<peerH2Vars, streamEnded, tx, sender, closer, up, stalled>>

Unlocks(who) == tx' = ""

ReaderLocks ==
  /\ reader \in {"ack", "credit"} /\ tx = ""
  /\ tx' = "reader"
  /\ UNCHANGED <<peerH2Vars, bufVars, reader, sender, closer, up, stalled>>

(* handleH2SettingsFrame, handleH2PingFrame: SETTINGS and PING are answered. *)
ReaderAcks ==
  /\ reader = "ack" /\ tx = "reader" /\ WriteReturns
  /\ Unlocks("reader")
  /\ reader' = IF up THEN "idle" ELSE "failed"
  /\ UNCHANGED <<peerH2Vars, bufVars, sender, closer, up, stalled>>

AfterUpdate == 0

(* Two WINDOW_UPDATE frames; their errors are ignored. *)
ReaderReturnsCredit ==
  /\ reader = "credit" /\ tx = "reader" /\ WriteReturns
  /\ credit' = IF up THEN credit + unackedBytes ELSE credit
  /\ unackedBytes' = AfterUpdate
  /\ Unlocks("reader")
  /\ reader' = "idle"
  /\ UNCHANGED <<frames, count, sentBytes, padBytes, readBuf, readBytes, streamEnded, sender, closer, up, stalled>>

-----------------------------------------------------------------------------
(* Write holds the mutex for all its frames. *)
WriterLocks(w) ==
  /\ sender[w] = NotYet /\ tx = ""
  /\ tx' = w
  /\ sender' = [sender EXCEPT ![w] = FramesPerWrite]
  /\ UNCHANGED <<peerH2Vars, bufVars, reader, closer, up, stalled>>

WriterSends(w) ==
  /\ tx = w /\ WriteReturns
  /\ IF up /\ sender[w] > 1
       THEN sender' = [sender EXCEPT ![w] = @ - 1] /\ UNCHANGED tx
       ELSE sender' = [sender EXCEPT ![w] = 0] /\ Unlocks(w)
  /\ UNCHANGED <<peerH2Vars, bufVars, reader, closer, up, stalled>>

(* Close, under sync.Once: an empty data frame that ends the stream, which  *)
(* waits for the mutex, then the socket.                                    *)
CloseBegins ==
  /\ closer = "open"
  /\ closer' = "locking"
  /\ UNCHANGED <<peerH2Vars, bufVars, reader, tx, sender, up, stalled>>

CloseLocks ==
  /\ closer = "locking" /\ tx = ""
  /\ tx' = "closer" /\ closer' = "closing"
  /\ UNCHANGED <<peerH2Vars, bufVars, reader, sender, up, stalled>>

CloseEnds ==
  /\ closer = "closing" /\ WriteReturns
  /\ closer' = "closed" /\ up' = FALSE
  /\ Unlocks("closer")
  /\ UNCHANGED <<peerH2Vars, bufVars, reader, sender, stalled>>

-----------------------------------------------------------------------------
ReaderStep2 == ReadBegins \/ ReadFrame \/ H2ReadFails \/ Take \/ ReaderLocks \/ ReaderAcks \/ ReaderReturnsCredit
WriterStep2(w) == WriterLocks(w) \/ WriterSends(w)
CloserStep == CloseLocks \/ CloseEnds

H2Next ==
  \/ ReaderStep2 \/ CloseBegins \/ CloserStep \/ ConnectionLost \/ PeerStalls
  \/ \E w \in H2Writers : WriterStep2(w)
  \/ \E n \in Sizes, pad \in Paddings, end \in BOOLEAN : PeerData(n, pad, end)
  \/ \E kind \in {"control", "reset", "goaway", "other"} : PeerOther(kind)

(* Goroutines run on, and a mutex that is free again and again is taken in  *)
(* the end: sync.Mutex lets no waiter starve.  A write to the socket ends   *)
(* while the peer reads or once the connection is gone; a write that the    *)
(* peer does not take is not enabled, and holds the mutex.                  *)
H2Fairness ==
  /\ SF_h2Vars(ReaderStep2) /\ SF_h2Vars(CloserStep)
  /\ \A w \in H2Writers : SF_h2Vars(WriterStep2(w))

H2Spec == H2Init /\ [][H2Next]_h2Vars /\ H2Fairness

-----------------------------------------------------------------------------
(* Data and padding the reader has taken off the connection: all that was  *)
(* sent before the first frame in flight.                                   *)
Received == IF frames = <<>> THEN sentBytes ELSE Head(frames).sent
PadReceived == IF frames = <<>> THEN padBytes ELSE Head(frames).padded
H2InFlight == (sentBytes - Received) + (padBytes - PadReceived)

(* Close has begun and not returned, and the peer takes what is written.    *)
Closing == closer \in {"locking", "closing"} /\ ~stalled

(* Flow control neither creates nor loses credit: what the peer may not     *)
(* send is in flight, buffered or about to be returned, or was padding,     *)
(* which Read never returns.                                                *)
CreditConserved ==
  up => credit + H2InFlight + readBuf + unackedBytes + PadReceived = InitialWindow

(* The end of the stream is reported after every byte before it: a Read     *)
(* that says EOF for END_STREAM or RST_STREAM leaves nothing unread.        *)
ReadBeforeEof == reader \in {"eof", "reset"} => readBuf = 0 /\ (reader = "eof" => readBytes = sentBytes)
=============================================================================
