------------------------------- MODULE WsConn -------------------------------
(***************************************************************************)
(* A WebSocket connection (realtime/ws/wsconn.go, wsRawConn): one          *)
(* goroutine reads messages, several write them, anyone may Close.  A      *)
(* reader reassembles fragments and answers control frames; a writer       *)
(* builds its frame in buffers of the connection, under a token.           *)
(*                                                                         *)
(* A payload is abstracted to the pair <<message, piece>> it carries, an   *)
(* outgoing frame to the call that wrote it.                               *)
(***************************************************************************)
EXTENDS Integers, Sequences, SequencesExt

CONSTANTS
  Writers,        \* goroutines that call Write or WriteMessage
  IsClient,       \* c.isClient: frames are masked in writeBuf
  Controls,       \* control frames the peer sends: "ping", "pong", "close"
  Strays,         \* malformed input explored: "text", "cont", "reserved", "bad"
  Compression,    \* values explored for a message's RSV1 flag
  MaxEmptyReads,  \* maxConsecutiveEmptyReads (100 in the code)
  MaxTraffic,     \* bound on messages, control, stray and garbled frames, frames cut by a
                  \* deadline and writes, together
  MaxPieces,      \* bound on the frames of a message
  MaxInFlight,    \* bound on the frames in flight
  Reader, None

ASSUME BoundsAssumption ==
  /\ MaxEmptyReads \in Nat \ {0}
  /\ MaxTraffic \in Nat /\ MaxPieces \in Nat /\ MaxInFlight \in Nat
ASSUME InputsAssumption ==
  /\ IsClient \in BOOLEAN /\ Compression \subseteq BOOLEAN
  /\ Controls \subseteq {"ping", "pong", "close"}
  /\ Strays \subseteq {"text", "cont", "reserved", "bad"}
ASSUME OpcodesAssumption == None \notin {"text", "reserved"}
ASSUME ActorsAssumption == Reader \notin Writers /\ None \notin Writers \cup {Reader}

Actors == Writers \cup {Reader}

VARIABLES
  inbox,       \* frames in flight from the peer
  peer,        \* messages the peer has begun: pieces, compressed, complete
  traffic,     \* how many of what MaxTraffic bounds so far
  ended,       \* the connection is lost
  fragOpcode,  \* opcode of the message being reassembled, None if there is none
  fragBuf, fragCompress,
  rd,          \* the reader: control point, method, iterations left
  desync,      \* a call has failed in the middle of a frame
  got,         \* messages handed to the application
  lost,        \* messages reported as impossible to inflate
  writeMu,     \* who holds the write token
  writeHdr, writeBuf,  \* the frames whose header and payload they hold
  wr,          \* every writing goroutine: control point, method, calls made
  wire,        \* frames written to the socket
  closed,      \* c.closed and c.base are closed
  raced        \* the reader and a writer have been in writeFrame at once (a ghost)

vars == <<inbox, peer, traffic, ended, fragOpcode, fragBuf, fragCompress, rd, desync,
          got, lost, writeMu, writeHdr, writeBuf, wr, wire, closed, raced>>
peerVars == <<inbox, peer, traffic, ended>>
fragVars == <<fragOpcode, fragBuf, fragCompress>>
gotVars == <<got, lost>>
writeVars == <<writeMu, writeHdr, writeBuf, wire, raced>>

(* The reader between two calls. *)
Idle == [pc |-> "idle", via |-> "ReadMessage", left |-> 0, outer |-> 0]

(* One more message, frame, cut or write. *)
Counts == traffic < MaxTraffic /\ traffic' = traffic + 1

Writing == {a \in Actors : wr[a].pc \in {"build", "fill", "send"}}

Frame(op, fin, rsv1, msg, k) == [op |-> op, fin |-> fin, rsv1 |-> rsv1, piece |-> <<msg, k>>]

Init ==
  /\ inbox = <<>> /\ peer = <<>> /\ traffic = 0 /\ ended = FALSE
  /\ fragOpcode = None /\ fragBuf = <<>> /\ fragCompress = FALSE
  /\ rd = Idle
  /\ desync = FALSE /\ got = <<>> /\ lost = {}
  /\ writeMu = None /\ writeHdr = None
  /\ writeBuf = [hdr |-> None, payload |-> None]
  /\ wr = [a \in Actors |-> [pc |-> "idle", via |-> "WriteMessage", n |-> 0]]
  /\ wire = <<>> /\ closed = FALSE /\ raced = FALSE

-----------------------------------------------------------------------------
(* The peer. *)

PeerOpen == peer # <<>> /\ ~Last(peer).done

Arrives(f) ==
  /\ ~ended /\ Len(inbox) < MaxInFlight
  /\ inbox' = Append(inbox, f)
  /\ UNCHANGED <<ended, fragVars, rd, desync, gotVars, writeVars, wr, closed>>

(* The first frame of a message. *)
PeerStarts(fin, rsv1) ==
  /\ ~PeerOpen /\ Counts
  /\ peer' = Append(peer, [n |-> 1, rsv1 |-> rsv1, done |-> fin])
  /\ Arrives(Frame("text", fin, rsv1, Len(peer) + 1, 1))

(* A continuation frame of the open message. *)
PeerContinues(fin) ==
  /\ PeerOpen /\ Last(peer).n < MaxPieces
  /\ peer' = [peer EXCEPT ![Len(peer)].n = @ + 1, ![Len(peer)].done = fin]
  /\ Arrives(Frame("cont", fin, FALSE, Len(peer), Last(peer).n + 1))
  /\ UNCHANGED traffic

(* A control frame, possibly between two fragments (RFC 6455, 5.4), or a  *)
(* frame that belongs to no message: a continuation of nothing, data in   *)
(* the middle of a fragmented message, a reserved opcode, a bad header.   *)
PeerExtra(op, fin) ==
  /\ Counts
  /\ \/ op \in Controls /\ fin
     \/ op \in Strays /\ op = "text" /\ PeerOpen
     \/ op \in Strays /\ op = "cont" /\ ~PeerOpen
     \/ op \in Strays /\ op = "reserved" /\ ~PeerOpen /\ fin
     \/ op \in Strays /\ op = "bad" /\ fin
  /\ Arrives(Frame(op, fin, op = "text" /\ TRUE \in Compression, 0, 0))
  /\ UNCHANGED peer

(* The connection is lost. *)
PeerEnds ==
  /\ ~ended
  /\ ended' = TRUE
  /\ UNCHANGED <<inbox, peer, traffic, fragVars, rd, desync, gotVars, writeVars, wr, closed>>

-----------------------------------------------------------------------------
(* Faulty variants of single steps, which the properties must tell apart   *)
(* from the code.                                                          *)
KeepFragments(p) == Append(fragBuf, p)
IgnoreToken == TRUE
WithToken == writeMu = None

-----------------------------------------------------------------------------
(* Closing. *)

(* Close() takes no lock. *)
MayClose == TRUE

CloseConn ==
  /\ MayClose
  /\ closed' = TRUE

(* The application calls Close. *)
AppCloses ==
  /\ ~closed
  /\ CloseConn
  /\ UNCHANGED <<peerVars, fragVars, rd, desync, gotVars, writeVars, wr>>
-----------------------------------------------------------------------------
(* The reader. *)

(* Read or ReadMessage (ReadMessageTo, ReadMessageScoped) is called, after a *)
(* call that failed too; the application makes no new calls once the        *)
(* connection is closed.                                                    *)
StartRead(via) ==
  /\ rd.pc = "idle" /\ ~closed
  /\ rd' = [pc |-> "loop", via |-> via, left |-> MaxEmptyReads, outer |-> MaxEmptyReads]
  /\ UNCHANGED <<peerVars, fragVars, desync, gotVars, writeVars, wr, closed>>

(* The call fails; Read then closes the connection. *)
Fails == rd' = [Idle EXCEPT !.pc = IF rd.via = "Read" THEN "close" ELSE "idle"]

(* for range maxConsecutiveEmptyReads *)
MayLoop(left) == left > 0

(* What a piece of a payload, or of any other bytes, may look like; fin and *)
(* rsv1 vary where the reader looks at them.                                *)
Garbage ==
  {f \in [op : {"text", "cont"} \cup Controls \cup Strays, fin : BOOLEAN, rsv1 : Compression,
          piece : {<<0, 0>>}] :
     /\ f.rsv1 => f.op = "text"
     /\ f.fin \/ f.op \in {"text", "cont"}}

(* An iteration takes f, with one of the opcodes ops, off the wire.  Once a *)
(* call has failed in the middle of a frame, f is whatever the bytes that   *)
(* are left of it and of those behind it look like, or, by luck, a frame.   *)
Takes(f, ops) ==
  /\ rd.pc = "loop" /\ MayLoop(rd.left)
  /\ f.op \in ops
  /\ \/ inbox # <<>> /\ f = Head(inbox) /\ inbox' = Tail(inbox) /\ UNCHANGED traffic
     \/ /\ desync /\ f \in Garbage /\ Counts
        /\ \E n \in 0 .. Len(inbox) : inbox' = SubSeq(inbox, n + 1, Len(inbox))
  /\ UNCHANGED <<peer, ended, writeMu, writeHdr, writeBuf, wire, closed>>

Looped == [rd EXCEPT !.left = @ - 1]

(* readRawFrame: no further frame. *)
ReadFails ==
  /\ rd.pc = "loop" /\ MayLoop(rd.left)
  /\ closed \/ (ended /\ inbox = <<>>)
  /\ Fails
  /\ UNCHANGED <<peerVars, fragVars, desync, gotVars, writeVars, wr, closed>>

(* A read deadline passes, between two frames or in the middle of one. *)
ReadTimesOut ==
  /\ rd.pc = "loop" /\ MayLoop(rd.left) /\ ~closed
  /\ Fails
  /\ \/ UNCHANGED <<inbox, traffic, desync>>
     \/ inbox # <<>> /\ inbox' = Tail(inbox) /\ Counts /\ desync' = TRUE
  /\ UNCHANGED <<peer, ended, fragVars, gotVars, writeVars, wr, closed>>

(* readRawFrame rejects a header and leaves the payload, if any, unread. *)
TakeBad(f) ==
  /\ Takes(f, {"bad"})
  /\ Fails
  /\ desync' \in {desync, TRUE}
  /\ UNCHANGED <<fragVars, gotVars, wr, raced>>

(* A ping or a close frame is answered by a frame of the reader's own. *)
TakeAnswered(f) ==
  /\ Takes(f, {"ping", "close"})
  /\ rd' = [Looped EXCEPT !.pc = f.op]
  /\ wr' = [wr EXCEPT ![Reader].pc = "build", ![Reader].n = @ + 1]
  /\ UNCHANGED <<fragVars, desync, gotVars>>
  /\ raced' = (raced \/ Writing # {})

TakePong(f) ==
  /\ Takes(f, {"pong"})
  /\ rd' = Looped
  /\ UNCHANGED <<fragVars, desync, gotVars, wr, raced>>

(* The answer has been written, or its error ignored. *)
Answered ==
  /\ rd.pc \in {"ping", "close"} /\ wr[Reader].pc = "idle"
  /\ \/ /\ rd.pc = "ping"
        /\ rd' = [rd EXCEPT !.pc = "loop"]
        /\ UNCHANGED closed
     \/ /\ rd.pc = "close"
        /\ CloseConn
        /\ rd' = Idle
  /\ UNCHANGED <<peerVars, fragVars, desync, gotVars, writeVars, wr>>

(* readFrame returns a message; Read goes on past opcodes it does not know. *)
Delivers(op, data, compressed) ==
  LET m == [op |-> op, msg |-> Head(data)[1], data |-> data, inflated |-> compressed, garbled |-> desync]
  IN \/ /\ rd.via = "ReadMessage" \/ op = "text"
        /\ got' = Append(got, m)
        /\ rd' = Idle
        /\ UNCHANGED lost
     \/ /\ rd.via = "Read" /\ op # "text"
        /\ IF rd.outer > 1 THEN rd' = [rd EXCEPT !.left = MaxEmptyReads, !.outer = @ - 1]
                           ELSE Fails
        /\ UNCHANGED gotVars
     \/ /\ compressed
        /\ lost' = lost \cup {Head(data)[1]}
        /\ Fails
        /\ UNCHANGED got

(* A continuation frame: refused, appended, or the end of the message. *)
TakeCont(f) ==
  /\ Takes(f, {"cont"})
  /\ IF fragOpcode = None
     THEN Fails /\ UNCHANGED <<fragVars, gotVars>>
     ELSE /\ fragBuf' = Append(fragBuf, f.piece)
          /\ fragOpcode' = IF f.fin THEN None ELSE fragOpcode
          /\ fragCompress' = (fragCompress /\ ~f.fin)
          /\ IF f.fin THEN Delivers(fragOpcode, fragBuf', fragCompress)
                      ELSE rd' = Looped /\ UNCHANGED gotVars
  /\ UNCHANGED <<desync, wr, raced>>

(* c.fragBuf = append(c.fragBuf[:0], payload...) *)
StartFragments(p) == <<p>>

(* A data frame: refused, a whole message, or the first fragment. *)
TakeData(f) ==
  /\ Takes(f, {"text", "reserved"})
  /\ IF fragOpcode # None
     THEN Fails /\ UNCHANGED <<fragVars, gotVars>>
     ELSE IF f.fin
     THEN Delivers(f.op, <<f.piece>>, f.rsv1) /\ UNCHANGED fragVars
     ELSE /\ fragOpcode' = f.op
          /\ fragCompress' = f.rsv1
          /\ fragBuf' = StartFragments(f.piece)
          /\ rd' = Looped
          /\ UNCHANGED gotVars
  /\ UNCHANGED <<desync, wr, raced>>

(* The loop is over without a message: io.EOF. *)
LoopEnds ==
  /\ rd.pc = "loop" /\ ~MayLoop(rd.left)
  /\ Fails
  /\ UNCHANGED <<peerVars, fragVars, desync, gotVars, writeVars, wr, closed>>

ReaderStep ==
  \/ ReadFails \/ ReadTimesOut \/ Answered \/ LoopEnds
  \/ \E f \in Garbage \cup ToSet(inbox) :
       TakeBad(f) \/ TakeAnswered(f) \/ TakePong(f) \/ TakeCont(f) \/ TakeData(f)

-----------------------------------------------------------------------------
(* The writers. *)

WritesOnly == UNCHANGED <<peerVars, fragVars, rd, desync, gotVars>>

(* Write or WriteMessage is called. *)
StartWrite(w, via) ==
  /\ wr[w].pc = "idle" /\ ~closed /\ Counts
  /\ wr' = [wr EXCEPT ![w] = [pc |-> "lock", via |-> via, n |-> @.n + 1]]
  /\ UNCHANGED <<inbox, peer, ended, fragVars, rd, desync, gotVars, writeVars, closed>>

(* <-c.writeMu *)
TokenFree == writeMu = None

LockWrite(w) ==
  /\ wr[w].pc = "lock" /\ TokenFree
  /\ writeMu' = w
  /\ wr' = [wr EXCEPT ![w].pc = "build"]
  /\ raced' = (raced \/ Reader \in Writing)
  /\ WritesOnly /\ UNCHANGED <<writeHdr, writeBuf, wire, closed>>

Mine(a) == <<a, wr[a].n>>

(* writeFrame puts the header into writeHdr. *)
BuildHeader(a) ==
  /\ wr[a].pc = "build"
  /\ writeHdr' = Mine(a)
  /\ wr' = [wr EXCEPT ![a].pc = IF IsClient THEN "fill" ELSE "send"]
  /\ WritesOnly /\ UNCHANGED <<writeMu, writeBuf, wire, closed, raced>>

(* writeMaskedFrameZeroAlloc copies header and payload into writeBuf. *)
FillBuffer(a) ==
  /\ wr[a].pc = "fill"
  /\ writeBuf' = [hdr |-> writeHdr, payload |-> Mine(a)]
  /\ wr' = [wr EXCEPT ![a].pc = "send"]
  /\ WritesOnly /\ UNCHANGED <<writeMu, writeHdr, wire, closed, raced>>

(* unlockWrite; the reader's writeFrame has no lock to release. *)
Release(a) == writeMu' = IF a = Reader THEN writeMu ELSE None

Resting(call) == [call EXCEPT !.pc = "idle", !.via = "WriteMessage"]

(* c.base.Write; a server writes the header and the payload it was given. *)
Send(a) ==
  /\ wr[a].pc = "send" /\ ~closed /\ ~ended
  /\ wire' = Append(wire, IF IsClient THEN writeBuf ELSE [hdr |-> writeHdr, payload |-> Mine(a)])
  /\ Release(a)
  /\ wr' = [wr EXCEPT ![a] = Resting(@)]
  /\ WritesOnly /\ UNCHANGED <<writeHdr, writeBuf, closed, raced>>

(* writeFrame refuses the frame or the socket fails; Write then closes. *)
WriteFails(a) ==
  /\ \/ wr[a].pc = "build" /\ a # Reader
     \/ wr[a].pc = "send" /\ (closed \/ ended)
  /\ wr' = [wr EXCEPT ![a] = IF a # Reader /\ @.via = "Write" THEN [@ EXCEPT !.pc = "close"] ELSE Resting(@)]
  /\ IF wr'[a].pc = "idle" THEN Release(a) ELSE UNCHANGED writeMu
  /\ WritesOnly /\ UNCHANGED <<writeHdr, writeBuf, wire, closed, raced>>

CloseAfterFailure(w) ==
  /\ wr[w].pc = "close"
  /\ CloseConn
  /\ Release(w)
  /\ wr' = [wr EXCEPT ![w] = Resting(@)]
  /\ WritesOnly /\ UNCHANGED <<writeHdr, writeBuf, wire, raced>>

WriterStep(a) ==
  \/ LockWrite(a) \/ BuildHeader(a) \/ FillBuffer(a)
  \/ Send(a) \/ WriteFails(a) \/ CloseAfterFailure(a)

-----------------------------------------------------------------------------
(* Nothing need happen on a closed connection any more, except that the     *)
(* calls under way return (EveryCallReturns).                               *)
Terminated == closed /\ UNCHANGED vars

Next ==
  \/ \E fin \in BOOLEAN, rsv1 \in Compression : PeerStarts(fin, rsv1)
  \/ \E fin \in BOOLEAN : PeerContinues(fin)
  \/ \E op \in Controls \cup Strays, fin \in BOOLEAN : PeerExtra(op, fin)
  \/ PeerEnds \/ AppCloses
  \/ \E via \in {"Read", "ReadMessage"} : StartRead(via)
  \/ ReaderStep
  \/ \E w \in Writers, via \in {"Write", "WriteMessage"} : StartWrite(w, via)
  \/ \E a \in Actors : WriterStep(a)
  \/ Terminated

Spec == Init /\ [][Next]_vars

(* A blocked socket call is only sure to return once the connection is      *)
(* closed; from then on every goroutine keeps going.                        *)
FairSpec ==
  /\ Spec
  /\ WF_vars(closed /\ ReaderStep)
  /\ \A a \in Actors : WF_vars(closed /\ WriterStep(a))

-----------------------------------------------------------------------------
Intact ==
  /\ \A i \in 1..Len(wire) : wire[i].hdr = wire[i].payload
  /\ \A i, j \in 1..Len(wire) : i # j => wire[i] # wire[j]

(* Writers never mix their frames: as long as the reader has not answered a *)
(* control frame while one of them was writing, every frame on the wire has *)
(* the header and the payload of one call of writeFrame, and no call is on  *)
(* the wire twice.                                                          *)
FramesIntact == ~raced => Intact

(* writeBuf is "protected by writeMu", Conn is "thread-safe": frames are    *)
(* never mixed, those of the reader's answers included.                     *)
AlwaysIntact == Intact

Received(m, i) == \E j \in 1..i : got[j].op = "text" /\ got[j].msg = m

(* The i-th message handed over is one of the peer's, whole, in order, the  *)
(* first and only time, inflated exactly if it was compressed, and none     *)
(* before it is missing except those reported as impossible to inflate.     *)
Entire(i) ==
  LET m == got[i].msg
  IN /\ m \in 1..Len(peer) /\ peer[m].done
     /\ got[i].data = [k \in 1..peer[m].n |-> <<m, k>>]
     /\ got[i].inflated = peer[m].rsv1
     /\ \A j \in 1..(i - 1) : got[j].op = "text" => got[j].msg < m
     /\ \A l \in 1..m : l \in lost \/ Received(l, i)

(* The application receives the peer's messages whole, whatever control or  *)
(* stray frames arrive between the fragments, and however often a call that *)
(* failed between two frames is repeated, for a deadline, a frame that is   *)
(* refused or a message that cannot be inflated.  Only after a call has     *)
(* failed in the middle of a frame, at a header that is refused or at a     *)
(* deadline, are messages made of what is left of it.                       *)
Reassembled == \A i \in 1..Len(got) : got[i].op = "text" /\ ~got[i].garbled => Entire(i)

(* readFrame "reads and parses an incoming logical message, reassembling    *)
(* fragmented frames": what it hands over is always one of the peer's       *)
(* messages.                                                                *)
AlwaysReassembled == \A i \in 1..Len(got) : got[i].op = "text" => Entire(i)

(* ReadMessage and Read return io.EOF only when the peer has closed.      *)
EofMeansClosed == [][LoopEnds => closed \/ ended]_vars

(* Once the connection is closed, every call under way returns: no writer   *)
(* waits for ever for the token, and no Close for a writer.                 *)
EveryCallReturns ==
  closed ~> (rd.pc = "idle" /\ \A a \in Actors : wr[a].pc = "idle")
=============================================================================
