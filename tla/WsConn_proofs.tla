---------------------------- MODULE WsConn_proofs ----------------------------
(***************************************************************************)
(* Proofs about a WebSocket connection, for any number of writers, either  *)
(* side and every bound: the frames on the wire are whole, and so are the  *)
(* messages handed to the application.                                     *)
(***************************************************************************)
EXTENDS WsConn, TLAPS

Calls == [pc : {"idle", "lock", "build", "fill", "send", "close"}, via : {"Write", "WriteMessage"}, n : Nat]
Frames == Actors \X Nat

(* Who writes, and under which token.  The reader has none. *)
TokenHeld ==
  /\ wr \in [Actors -> Calls]
  /\ wr[Reader].pc \notin {"lock", "close"}
  /\ wr[Reader].pc # "idle" => rd.pc \in {"ping", "close"}
  /\ \A w \in Writers : wr[w].pc \in {"build", "fill", "send", "close"} => writeMu = w

(* Nobody else writes while one does. *)
Alone == \A a, b \in Writing : a = b

(* The buffers hold the frame of the one who has filled them. *)
Buffered ==
  \A a \in Actors :
    /\ wr[a].pc \in {"fill", "send"} => writeHdr = Mine(a)
    /\ IsClient /\ wr[a].pc = "send" => writeBuf = [hdr |-> Mine(a), payload |-> Mine(a)]

(* The frames on the wire are whole, and older than the one being written. *)
Whole(f, call) ==
  /\ f \in [hdr : Frames, payload : Frames] /\ f.hdr = f.payload
  /\ f.hdr[2] <= call[f.hdr[1]].n
  /\ call[f.hdr[1]].pc \in {"lock", "build", "fill", "send"} => f.hdr[2] < call[f.hdr[1]].n

Written ==
  /\ wire \in Seq([hdr : Frames, payload : Frames])
  /\ \A i \in 1 .. Len(wire) : Whole(wire[i], wr)
  /\ \A i, j \in 1 .. Len(wire) : i # j => wire[i] # wire[j]

FrameInv == TokenHeld /\ (~raced => Alone /\ Buffered /\ Written)

-----------------------------------------------------------------------------
(* A step of the peer or of the reader that neither writes nor begins to.   *)
LEMMA ReadsOnly ==
  ASSUME FrameInv, UNCHANGED <<writeVars, wr>>, rd' = rd \/ wr[Reader].pc = "idle"
  PROVE  FrameInv'
  <1>1. TokenHeld'
    BY DEF FrameInv, TokenHeld, writeVars
  <1>2. /\ UNCHANGED <<writeHdr, writeBuf, wire, raced, wr>>
    BY DEF writeVars
  <1>3. Alone => Alone'
    BY <1>2 DEF Alone, Writing
  <1>4. Buffered => Buffered'
    BY <1>2 DEF Buffered, Mine
  <1>5. Written => Written'
    BY <1>2 DEF Written, Whole
  <1> QED
    BY <1>1, <1>2, <1>3, <1>4, <1>5 DEF FrameInv

(* The call of a takes another turn: the others' calls stay as they are. *)
LEMMA CallOf ==
  ASSUME wr \in [Actors -> Calls], NEW a \in Actors, NEW call \in Calls, wr' = [wr EXCEPT ![a] = call]
  PROVE  /\ wr' \in [Actors -> Calls] /\ wr'[a] = call
         /\ \A b \in Actors \ {a} : wr'[b] = wr[b]
  OBVIOUS

(* A whole frame stays whole when its call goes on or ends. *)
LEMMA WholeStays ==
  ASSUME NEW f, NEW before, NEW after, Whole(f, before), after[f.hdr[1]].n = before[f.hdr[1]].n,
         after[f.hdr[1]].pc \in {"idle", before[f.hdr[1]].pc}
  PROVE  Whole(f, after)
  BY DEF Whole

(* Frames stay whole as long as no call goes back. *)
LEMMA WireKept ==
  ASSUME Written, UNCHANGED wire, wr \in [Actors -> Calls], wr' \in [Actors -> Calls],
         \A a \in Actors :
           \/ wr'[a].n = wr[a].n /\ (wr'[a].pc \in {"lock", "build", "fill", "send"}
                                       => wr[a].pc \in {"lock", "build", "fill", "send"})
           \/ wr'[a].n = wr[a].n + 1
  PROVE  Written'
  <1>1. ASSUME NEW f \in [hdr : Frames, payload : Frames], Whole(f, wr) PROVE Whole(f, wr')
    <2>1. f.hdr[1] \in Actors /\ f.hdr[2] \in Nat
      BY DEF Frames
    <2>2. wr[f.hdr[1]].n \in Nat
      BY <2>1 DEF Calls
    <2> QED
      BY <1>1, <2>1, <2>2 DEF Whole
  <1>2. \A i \in 1 .. Len(wire) : wire[i] \in [hdr : Frames, payload : Frames]
    BY DEF Written, Whole
  <1> QED
    BY <1>1, <1>2 DEF Written

(* The reader answers a control frame: from then on it and a writer may be   *)
(* in writeFrame at once.                                                    *)
LEMMA TakeAnsweredInv ==
  ASSUME FrameInv, NEW f, TakeAnswered(f)
  PROVE  FrameInv'
  <1>1. /\ wr' = [wr EXCEPT ![Reader].pc = "build", ![Reader].n = @ + 1]
        /\ rd.pc = "loop" /\ rd'.pc = f.op /\ f.op \in {"ping", "close"}
        /\ raced' = (raced \/ Writing # {})
        /\ UNCHANGED <<writeMu, writeHdr, writeBuf, wire>>
    BY DEF TakeAnswered, Takes, Looped
  <1>2. wr \in [Actors -> Calls] /\ wr[Reader].pc = "idle" /\ Reader \in Actors
    BY <1>1 DEF FrameInv, TokenHeld, Actors
  <1>4. /\ wr' \in [Actors -> Calls] /\ wr'[Reader].pc = "build" /\ wr'[Reader].n = wr[Reader].n + 1
        /\ \A b \in Actors \ {Reader} : wr'[b] = wr[b]
    BY <1>1, <1>2 DEF Calls
  <1>5. TokenHeld'
    BY <1>1, <1>2, <1>4, ActorsAssumption DEF FrameInv, TokenHeld, Actors
  <1>6. ASSUME ~raced' PROVE Alone' /\ Buffered' /\ Written'
    <2>1. Writing = {} /\ Buffered /\ Written
      BY <1>1, <1>6 DEF FrameInv
    <2>2. \A b \in Actors : wr'[b].pc \notin {"fill", "send"} /\ (wr'[b].pc = "build" => b = Reader)
      BY <1>4, <2>1 DEF Writing
    <2>3. Alone'
      BY <2>2 DEF Alone, Writing
    <2>4. Buffered'
      BY <2>2 DEF Buffered
    <2>5. Written'
      BY <1>1, <1>2, <1>4, <2>1, WireKept
    <2> QED
      BY <2>3, <2>4, <2>5
  <1> QED
    BY <1>5, <1>6 DEF FrameInv

(* Write or WriteMessage is called. *)
LEMMA StartWriteInv ==
  ASSUME FrameInv, NEW w \in Writers, NEW via \in {"Write", "WriteMessage"}, StartWrite(w, via)
  PROVE  FrameInv'
  <1>1. /\ wr[w].pc = "idle" /\ wr' = [wr EXCEPT ![w] = [pc |-> "lock", via |-> via, n |-> @.n + 1]]
        /\ UNCHANGED <<rd, writeMu, writeHdr, writeBuf, wire, raced>>
    BY DEF StartWrite, writeVars
  <1>2. wr \in [Actors -> Calls] /\ w \in Actors /\ Reader \in Actors /\ w # Reader
    BY ActorsAssumption DEF FrameInv, TokenHeld, Actors
  <1>3. [pc |-> "lock", via |-> via, n |-> wr[w].n + 1] \in Calls
    BY <1>2 DEF Calls
  <1>4. /\ wr' \in [Actors -> Calls] /\ wr'[w].pc = "lock" /\ wr'[w].n = wr[w].n + 1
        /\ \A b \in Actors \ {w} : wr'[b] = wr[b]
    BY <1>1, <1>2, <1>3
  <1>5. TokenHeld'
    BY <1>1, <1>2, <1>4 DEF FrameInv, TokenHeld, Actors
  <1>6. ASSUME ~raced' PROVE Alone' /\ Buffered' /\ Written'
    <2>1. Alone /\ Buffered /\ Written
      BY <1>1, <1>6 DEF FrameInv
    <2>2. Alone'
      BY <1>4, <2>1 DEF Alone, Writing
    <2>3. Buffered'
      BY <1>1, <1>4, <2>1 DEF Buffered, Mine
    <2>4. Written'
      BY <1>1, <1>2, <1>4, <2>1, WireKept
    <2> QED
      BY <2>2, <2>3, <2>4
  <1> QED
    BY <1>5, <1>6 DEF FrameInv

(* A writer takes the token. *)
LEMMA LockWriteInv ==
  ASSUME FrameInv, NEW w \in Actors, LockWrite(w)
  PROVE  FrameInv'
  <1>1. /\ wr[w].pc = "lock" /\ writeMu = None /\ writeMu' = w /\ wr' = [wr EXCEPT ![w].pc = "build"]
        /\ raced' = (raced \/ Reader \in Writing)
        /\ UNCHANGED <<rd, writeHdr, writeBuf, wire>>
    BY DEF LockWrite, TokenFree, WritesOnly
  <1>2. wr \in [Actors -> Calls] /\ w \in Writers /\ Reader \in Actors /\ w # Reader
    BY <1>1, ActorsAssumption DEF FrameInv, TokenHeld, Actors
  <1>3. /\ wr' \in [Actors -> Calls] /\ wr'[w].pc = "build" /\ wr'[w].n = wr[w].n
        /\ \A b \in Actors \ {w} : wr'[b] = wr[b]
    BY <1>1, <1>2 DEF Calls
  <1>4. \A b \in Writers : wr[b].pc \notin {"build", "fill", "send", "close"}
    BY <1>1, <1>2, ActorsAssumption DEF FrameInv, TokenHeld
  <1>5. TokenHeld'
    BY <1>1, <1>2, <1>3, <1>4 DEF FrameInv, TokenHeld, Actors
  <1>6. ASSUME ~raced' PROVE Alone' /\ Buffered' /\ Written'
    <2>1. Reader \notin Writing /\ Buffered /\ Written
      BY <1>1, <1>6 DEF FrameInv
    <2>2. \A b \in Actors : wr'[b].pc \notin {"fill", "send"} /\ (wr'[b].pc = "build" => b = w)
      BY <1>2, <1>3, <1>4, <2>1 DEF Writing, Actors
    <2>3. Alone'
      BY <2>2 DEF Alone, Writing
    <2>4. Buffered'
      BY <2>2 DEF Buffered
    <2>5. Written'
      BY <1>1, <1>2, <1>3, <2>1, WireKept
    <2> QED
      BY <2>3, <2>4, <2>5
  <1> QED
    BY <1>5, <1>6 DEF FrameInv

(* The header is built, and the buffer filled. *)
LEMMA BuildInv ==
  ASSUME FrameInv, NEW a \in Actors, BuildHeader(a) \/ FillBuffer(a)
  PROVE  FrameInv'
  <1>1. /\ UNCHANGED <<rd, writeMu, wire, raced>>
        /\ \/ /\ wr[a].pc = "build" /\ writeHdr' = Mine(a) /\ writeBuf' = writeBuf
              /\ wr' = [wr EXCEPT ![a].pc = IF IsClient THEN "fill" ELSE "send"]
           \/ /\ wr[a].pc = "fill" /\ writeHdr' = writeHdr
              /\ writeBuf' = [hdr |-> writeHdr, payload |-> Mine(a)]
              /\ wr' = [wr EXCEPT ![a].pc = "send"]
    BY DEF BuildHeader, FillBuffer, WritesOnly
  <1>2. wr \in [Actors -> Calls] /\ Reader \in Actors /\ a \in Writing
    BY <1>1 DEF FrameInv, TokenHeld, Actors, Writing
  <1>3. /\ wr' \in [Actors -> Calls] /\ wr'[a].n = wr[a].n /\ wr'[a].pc \in {"fill", "send"}
        /\ \A b \in Actors \ {a} : wr'[b] = wr[b]
        /\ wr[a].pc \in {"build", "fill"}
        /\ wr[a].pc = "build" => (wr'[a].pc = IF IsClient THEN "fill" ELSE "send")
        /\ wr[a].pc = "fill" => wr'[a].pc = "send"
    BY <1>1, <1>2 DEF Calls
  <1>4. TokenHeld'
    BY <1>1, <1>2, <1>3 DEF FrameInv, TokenHeld, Actors
  <1>5. ASSUME ~raced' PROVE Alone' /\ Buffered' /\ Written'
    <2>1. Alone /\ Buffered /\ Written
      BY <1>1, <1>5 DEF FrameInv
    <2>2. Mine(a)' = Mine(a)
      BY <1>3 DEF Mine
    <2>3. \A b \in Actors : wr'[b].pc \in {"build", "fill", "send"} => b = a
      BY <1>2, <1>3, <2>1 DEF Alone, Writing
    <2>4. Alone'
      BY <2>3 DEF Alone, Writing
    <2>5. writeHdr' = Mine(a)
      BY <1>1, <2>1 DEF Buffered
    <2>6. IsClient /\ wr'[a].pc = "send" => writeBuf' = [hdr |-> Mine(a), payload |-> Mine(a)]
      <3>1. IsClient /\ wr'[a].pc = "send" => wr[a].pc = "fill"
        BY <1>3
      <3>2. wr[a].pc = "fill" => writeBuf' = [hdr |-> Mine(a), payload |-> Mine(a)]
        BY <1>1, <2>1 DEF Buffered
      <3> QED
        BY <3>1, <3>2
    <2>7. Buffered'
      BY <2>2, <2>3, <2>5, <2>6 DEF Buffered
    <2>8. Written'
      BY <1>1, <1>2, <1>3, <2>1, WireKept
    <2> QED
      BY <2>4, <2>7, <2>8
  <1> QED
    BY <1>4, <1>5 DEF FrameInv

(* The frame goes to the socket. *)
LEMMA SendInv ==
  ASSUME FrameInv, NEW a \in Actors, Send(a)
  PROVE  FrameInv'
  <1>1. /\ wr[a].pc = "send" /\ UNCHANGED <<rd, writeHdr, writeBuf, raced>>
        /\ wire' = Append(wire, IF IsClient THEN writeBuf ELSE [hdr |-> writeHdr, payload |-> Mine(a)])
        /\ writeMu' = (IF a = Reader THEN writeMu ELSE None)
        /\ wr' = [wr EXCEPT ![a] = Resting(wr[a])]
    BY DEF Send, Release, WritesOnly
  <1>2. wr \in [Actors -> Calls] /\ Reader \in Actors /\ a \in Writing
    BY <1>1 DEF FrameInv, TokenHeld, Actors, Writing
  <1>3. /\ Resting(wr[a]) \in Calls /\ Resting(wr[a]).pc = "idle" /\ Resting(wr[a]).n = wr[a].n
    <2>1. wr[a] \in Calls
      BY <1>2
    <2> QED
      BY <2>1 DEF Resting, Calls
  <1>4. /\ wr' \in [Actors -> Calls] /\ wr'[a].pc = "idle" /\ wr'[a].n = wr[a].n
        /\ \A b \in Actors \ {a} : wr'[b] = wr[b]
    BY <1>1, <1>2, <1>3
  <1>5. TokenHeld'
    BY <1>1, <1>2, <1>4 DEF FrameInv, TokenHeld, Actors
  <1>6. ASSUME ~raced' PROVE Alone' /\ Buffered' /\ Written'
    <2>1. Alone /\ Buffered /\ Written
      BY <1>1, <1>6 DEF FrameInv
    <2>2. \A b \in Actors : wr'[b].pc \notin {"build", "fill", "send"}
      BY <1>2, <1>4, <2>1 DEF Alone, Writing
    <2>3. Alone' /\ Buffered'
      BY <2>2 DEF Alone, Writing, Buffered
    <2> DEFINE new == [hdr |-> Mine(a), payload |-> Mine(a)]
    <2>4. wire' = Append(wire, new)
      BY <1>1, <2>1 DEF Buffered
    <2>5. Mine(a) \in Frames /\ Mine(a)[1] = a /\ Mine(a)[2] = wr[a].n
      BY <1>2 DEF Mine, Frames, Calls
    <2>6. new \in [hdr : Frames, payload : Frames] /\ new.hdr = new.payload /\ new.hdr = Mine(a)
      BY <2>5
    <2> HIDE DEF new
    <2>7. Whole(new, wr')
      BY <1>2, <1>4, <2>5, <2>6 DEF Whole, Calls
    <2>8. wire \in Seq([hdr : Frames, payload : Frames]) /\ Len(wire) \in Nat
      BY <2>1 DEF Written
    <2>9. ASSUME NEW i \in 1 .. Len(wire) PROVE Whole(wire[i], wr') /\ wire[i] # new
      <3>1. Whole(wire[i], wr) /\ wire[i].hdr[1] \in Actors /\ wire[i].hdr[2] \in Nat
        BY <2>1 DEF Written, Whole, Frames
      <3>2. wire[i].hdr[1] = a => wire[i].hdr[2] < wr[a].n
        BY <1>1, <3>1 DEF Whole
      <3>3. wire[i] # new
        BY <1>2, <2>5, <2>6, <3>1, <3>2 DEF Calls
      <3>4. CASE wire[i].hdr[1] = a
        <4>1. wr'[wire[i].hdr[1]].pc = "idle" /\ wr'[wire[i].hdr[1]].n = wr[wire[i].hdr[1]].n
          BY <1>4, <3>4
        <4> QED
          BY <3>1, <3>3, <4>1, WholeStays
      <3>5. CASE wire[i].hdr[1] # a
        <4>1. wr'[wire[i].hdr[1]] = wr[wire[i].hdr[1]]
          BY <1>4, <3>1, <3>5
        <4> QED
          BY <3>1, <3>3, <4>1, WholeStays
      <3> QED
        BY <3>3, <3>4, <3>5
    <2>10. /\ wire' \in Seq([hdr : Frames, payload : Frames]) /\ Len(wire') = Len(wire) + 1
           /\ \A i \in 1 .. Len(wire') :
                \/ i \in 1 .. Len(wire) /\ wire'[i] = wire[i]
                \/ i = Len(wire) + 1 /\ wire'[i] = new
      BY <2>4, <2>6, <2>8
    <2>11. \A i \in 1 .. Len(wire') : Whole(wire'[i], wr')
      <3>1. ASSUME NEW i \in 1 .. Len(wire') PROVE Whole(wire'[i], wr')
        <4>1. CASE i \in 1 .. Len(wire) /\ wire'[i] = wire[i]
          BY <2>9, <4>1 DEF Whole
        <4>2. CASE wire'[i] = new
          BY <2>7, <4>2 DEF Whole
        <4> QED
          BY <2>10, <4>1, <4>2
      <3> QED
        BY <3>1
    <2>12. \A i, j \in 1 .. Len(wire') : i # j => wire'[i] # wire'[j]
      <3>1. \A i, j \in 1 .. Len(wire) : i # j => wire[i] # wire[j]
        BY <2>1 DEF Written
      <3> QED
        BY <2>9, <2>10, <3>1
    <2>13. Written'
      BY <2>10, <2>11, <2>12 DEF Written, Whole
    <2> QED
      BY <2>3, <2>13
  <1> QED
    BY <1>5, <1>6 DEF FrameInv

(* writeFrame refuses the frame, the socket fails, or the failed Write has   *)
(* closed the connection: the call leaves writeFrame without a frame.        *)
LEMMA WriteEndsInv ==
  ASSUME FrameInv, NEW a \in Actors, WriteFails(a) \/ CloseAfterFailure(a)
  PROVE  FrameInv'
  <1>1. wr \in [Actors -> Calls] /\ Reader \in Actors
    BY DEF FrameInv, TokenHeld, Actors
  <1>2. /\ Resting(wr[a]) \in Calls /\ Resting(wr[a]).pc = "idle" /\ Resting(wr[a]).n = wr[a].n
        /\ [wr[a] EXCEPT !.pc = "close"] \in Calls /\ [wr[a] EXCEPT !.pc = "close"].pc = "close"
        /\ [wr[a] EXCEPT !.pc = "close"].n = wr[a].n
    <2>1. wr[a] \in Calls
      BY <1>1
    <2> QED
      BY <2>1 DEF Resting, Calls
  <1>3. /\ UNCHANGED <<rd, writeHdr, writeBuf, wire, raced>>
        /\ wr[a].pc \in {"build", "send", "close"}
        /\ \/ wr' = [wr EXCEPT ![a] = Resting(wr[a])]
           \/ a # Reader /\ wr' = [wr EXCEPT ![a] = [wr[a] EXCEPT !.pc = "close"]]
        /\ IF wr'[a].pc = "idle" THEN writeMu' = (IF a = Reader THEN writeMu ELSE None) ELSE writeMu' = writeMu
    <2>1. CASE WriteFails(a)
      BY <2>1 DEF WriteFails, Release, WritesOnly
    <2>2. CASE CloseAfterFailure(a)
      <3>1. wr' = [wr EXCEPT ![a] = Resting(wr[a])] /\ wr'[a].pc = "idle"
        BY <1>1, <1>2, <2>2 DEF CloseAfterFailure
      <3> QED
        BY <2>2, <3>1 DEF CloseAfterFailure, Release, WritesOnly
    <2> QED
      BY <2>1, <2>2
  <1>4. /\ wr' \in [Actors -> Calls] /\ wr'[a].n = wr[a].n
        /\ wr'[a].pc = "idle" \/ (a # Reader /\ wr'[a].pc = "close")
        /\ \A b \in Actors \ {a} : wr'[b] = wr[b]
    <2>1. CASE wr' = [wr EXCEPT ![a] = Resting(wr[a])]
      BY <1>1, <1>2, <2>1
    <2>2. CASE a # Reader /\ wr' = [wr EXCEPT ![a] = [wr[a] EXCEPT !.pc = "close"]]
      BY <1>1, <1>2, <2>2
    <2> QED
      BY <1>3, <2>1, <2>2
  <1>5. TokenHeld'
    BY <1>1, <1>3, <1>4 DEF FrameInv, TokenHeld, Actors
  <1>6. ASSUME ~raced' PROVE Alone' /\ Buffered' /\ Written'
    <2>1. Alone /\ Buffered /\ Written
      BY <1>3, <1>6 DEF FrameInv
    <2>2. Alone'
      BY <1>4, <2>1 DEF Alone, Writing
    <2>3. Buffered'
      BY <1>3, <1>4, <2>1 DEF Buffered, Mine
    <2>4. Written'
      BY <1>1, <1>3, <1>4, <2>1, WireKept
    <2> QED
      BY <2>2, <2>3, <2>4
  <1> QED
    BY <1>5, <1>6 DEF FrameInv

(* A new connection. *)
LEMMA FrameInit == Init => FrameInv
  <1> SUFFICES ASSUME Init PROVE FrameInv
    OBVIOUS
  <1>1. wr \in [Actors -> Calls] /\ \A a \in Actors : wr[a].pc = "idle"
    BY DEF Init, Calls
  <1>2. TokenHeld
    BY <1>1 DEF TokenHeld, Actors
  <1>3. Alone /\ Buffered
    BY <1>1 DEF Alone, Writing, Buffered
  <1>4. Written
    BY DEF Init, Written
  <1> QED
    BY <1>2, <1>3, <1>4 DEF FrameInv

(* Every step of the peer, the reader, the writers and Close. *)
LEMMA FrameStep ==
  ASSUME FrameInv, [Next]_vars
  PROVE  FrameInv'
  <1>1. wr[Reader].pc # "idle" => rd.pc \in {"ping", "close"}
    BY DEF FrameInv, TokenHeld
  <1>2. ASSUME NEW fin, NEW rsv1, PeerStarts(fin, rsv1) PROVE FrameInv'
    BY <1>2, ReadsOnly DEF PeerStarts, Arrives
  <1>3. ASSUME NEW fin, PeerContinues(fin) PROVE FrameInv'
    BY <1>3, ReadsOnly DEF PeerContinues, Arrives
  <1>4. ASSUME NEW op, NEW fin, PeerExtra(op, fin) PROVE FrameInv'
    BY <1>4, ReadsOnly DEF PeerExtra, Arrives
  <1>5. CASE PeerEnds \/ AppCloses
    BY <1>5, ReadsOnly DEF PeerEnds, AppCloses
  <1>6. ASSUME NEW via, StartRead(via) PROVE FrameInv'
    BY <1>1, <1>6, ReadsOnly DEF StartRead
  <1>7. CASE ReadFails \/ ReadTimesOut \/ LoopEnds \/ Answered
    <2>1. UNCHANGED <<writeVars, wr>> /\ wr[Reader].pc = "idle"
      BY <1>1, <1>7 DEF ReadFails, ReadTimesOut, LoopEnds, Answered
    <2> QED
      BY <2>1, ReadsOnly
  <1>8. ASSUME NEW f, TakeBad(f) \/ TakePong(f) \/ TakeCont(f) \/ TakeData(f) PROVE FrameInv'
    <2>1. rd.pc = "loop" /\ UNCHANGED <<writeMu, writeHdr, writeBuf, wire, raced, wr>>
      BY <1>8 DEF TakeBad, TakePong, TakeCont, TakeData, Takes
    <2> QED
      BY <1>1, <2>1, ReadsOnly DEF writeVars
  <1>9. ASSUME NEW f, TakeAnswered(f) PROVE FrameInv'
    BY <1>9, TakeAnsweredInv
  <1>10. ASSUME NEW w \in Writers, NEW via \in {"Write", "WriteMessage"}, StartWrite(w, via) PROVE FrameInv'
    BY <1>10, StartWriteInv
  <1>11. ASSUME NEW a \in Actors, WriterStep(a) PROVE FrameInv'
    BY <1>11, LockWriteInv, BuildInv, SendInv, WriteEndsInv DEF WriterStep
  <1>12. CASE Terminated \/ UNCHANGED vars
    BY <1>12, ReadsOnly DEF Terminated, vars, writeVars
  <1> QED
    BY <1>2, <1>3, <1>4, <1>5, <1>6, <1>7, <1>8, <1>9, <1>10, <1>11, <1>12 DEF Next, ReaderStep

(* However many goroutines write, each frame on the wire has the header and  *)
(* the payload of one call of writeFrame and none is there twice, as long    *)
(* as the reader has not answered a control frame while a writer was in      *)
(* writeFrame: the answer takes no token.                                    *)
THEOREM WritersNeverMix == Spec => []FramesIntact
  <1>1. Init => FrameInv
    BY FrameInit
  <1>2. FrameInv /\ [Next]_vars => FrameInv'
    BY FrameStep
  <1>3. FrameInv => FramesIntact
    BY DEF FrameInv, Written, Whole, FramesIntact, Intact
  <1> QED
    BY <1>1, <1>2, <1>3, PTL DEF Spec
-----------------------------------------------------------------------------
(* The reader, and what it makes of the peer's frames: MessageInv holds     *)
(* until a call has failed in the middle of a frame, ReadInv always.        *)

Arrivals == [op : {"text", "cont", "ping", "pong", "close", "reserved", "bad"},
             fin : BOOLEAN, rsv1 : BOOLEAN, piece : Nat \X Nat]
Begun == [n : Nat \ {0}, rsv1 : BOOLEAN, done : BOOLEAN]
Messages == [op : {"text", "reserved"}, msg : Nat, data : Seq(Nat \X Nat), inflated : BOOLEAN,
             garbled : {FALSE}]

MessageType ==
  /\ inbox \in Seq(Arrivals) /\ peer \in Seq(Begun) /\ got \in Seq(Messages)
  /\ fragBuf \in Seq(Nat \X Nat)

(* A point in the peer's stream: k pieces of the m-th message have gone by.  *)
Points == [m : Nat, k : Nat, open : BOOLEAN]

(* The frame f leads from x to y. *)
Moves(p, x, f, y) ==
  \/ /\ f.op = "text" /\ ~x.open /\ f.piece = <<x.m + 1, 1>> /\ f.rsv1 = p[x.m + 1].rsv1
     /\ y = [m |-> x.m + 1, k |-> 1, open |-> ~f.fin]
  \/ /\ f.op = "cont" /\ x.open /\ f.piece = <<x.m, x.k + 1>>
     /\ y = [m |-> x.m, k |-> x.k + 1, open |-> ~f.fin]
  \/ /\ y = x
     /\ \/ f.op \in {"ping", "pong", "close", "bad"}
        \/ f.op = "text" /\ x.open
        \/ f.op = "cont" /\ ~x.open
        \/ f.op = "reserved" /\ ~x.open /\ f.fin /\ ~f.rsv1

(* Behind the last piece of a message the peer has completed it. *)
Fits(p, y) ==
  /\ y.m <= Len(p) /\ (y.open => y.m >= 1)
  /\ ~y.open /\ y.m >= 1 => p[y.m].done /\ p[y.m].n = y.k

(* Where the peer is. *)
AtEnd(p) ==
  [m |-> Len(p), k |-> IF p = <<>> THEN 0 ELSE p[Len(p)].n, open |-> p # <<>> /\ ~p[Len(p)].done]

(* The frames in flight lead from point to point up to where the peer is. *)
Chain(p, frames, pos) ==
  /\ pos \in [0 .. Len(frames) -> Points]
  /\ pos[Len(frames)] = AtEnd(p)
  /\ \A i \in 0 .. Len(frames) : Fits(p, pos[i])
  /\ \A i \in 1 .. Len(frames) : Moves(p, pos[i - 1], frames[i], pos[i])

(* The reader is at x: the fragments it keeps are those of the message that  *)
(* is open there, ...                                                        *)
Reads(x) ==
  IF x.open THEN /\ fragOpcode = "text" /\ fragCompress = peer[x.m].rsv1
                 /\ fragBuf = [k \in 1 .. x.k |-> <<x.m, k>>]
            ELSE fragOpcode = None

(* ... and the messages completed before have been handed over or lost. *)
Complete(x) == IF x.open THEN x.m - 1 ELSE x.m

Handed(x) ==
  /\ \A i \in 1 .. Len(got) : got[i].op = "text" => got[i].msg <= Complete(x)
  /\ \A l \in 1 .. Complete(x) : l \in lost \/ Received(l, Len(got))

MessageInv ==
  /\ MessageType /\ Reassembled
  /\ \E pos \in [0 .. Len(inbox) -> Points] : Chain(peer, inbox, pos) /\ Reads(pos[0]) /\ Handed(pos[0])

(* What a peer at p has made, a peer at q has made too. *)
Keeps(p, q) ==
  /\ \A x \in Points : Fits(p, x) => Fits(q, x)
  /\ \A x \in Points, z \in Points, g \in Arrivals : Fits(p, z) /\ Moves(p, x, g, z) => Moves(q, x, g, z)

(* The frames in flight get one more, at the point where the peer is. *)
LEMMA ChainGrows ==
  ASSUME NEW p \in Seq(Begun), NEW q \in Seq(Begun), NEW frames \in Seq(Arrivals), NEW f \in Arrivals,
         NEW pos, Chain(p, frames, pos), NEW y \in Points, y = AtEnd(q), Fits(q, y), Moves(q, AtEnd(p), f, y),
         Keeps(p, q)
  PROVE  \E more \in [0 .. Len(frames) + 1 -> Points] :
           more[0] = pos[0] /\ Chain(q, Append(frames, f), more)
  <1> DEFINE L == Len(frames)
             more == [i \in 0 .. L + 1 |-> IF i <= L THEN pos[i] ELSE y]
             all == Append(frames, f)
  <1>1. L \in Nat /\ Len(all) = L + 1 /\ all[L + 1] = f /\ \A i \in 1 .. L : all[i] = frames[i] /\ frames[i] \in Arrivals
    OBVIOUS
  <1>2. pos \in [0 .. L -> Points] /\ pos[L] = AtEnd(p)
    BY DEF Chain
  <1>3. /\ more \in [0 .. L + 1 -> Points] /\ more[L + 1] = y
        /\ \A i \in 0 .. L : more[i] = pos[i] /\ pos[i] \in Points
    <2>1. \A i \in 0 .. L + 1 : i <= L => i \in 0 .. L
      BY <1>1
    <2>2. \A i \in 0 .. L : i \in 0 .. L + 1 /\ i <= L
      BY <1>1
    <2>3. L + 1 \in 0 .. L + 1 /\ ~(L + 1 <= L)
      BY <1>1
    <2>4. more \in [0 .. L + 1 -> Points]
      BY <1>2, <2>1
    <2> QED
      BY <1>2, <2>2, <2>3, <2>4
  <1>4. ASSUME NEW i \in 0 .. L + 1 PROVE Fits(q, more[i])
    <2>1. CASE i \in 0 .. L
      BY <1>3, <2>1 DEF Chain, Keeps
    <2>2. CASE i = L + 1
      BY <1>3, <2>2
    <2> QED
      BY <1>1, <2>1, <2>2
  <1>5. ASSUME NEW i \in 1 .. L + 1 PROVE Moves(q, more[i - 1], all[i], more[i])
    <2>1. CASE i \in 1 .. L
      <3>1. i - 1 \in 0 .. L /\ i \in 0 .. L
        BY <1>1, <2>1
      <3>2. Moves(p, pos[i - 1], frames[i], pos[i]) /\ Fits(p, pos[i])
        BY <2>1, <3>1 DEF Chain
      <3>3. Moves(q, pos[i - 1], frames[i], pos[i])
        BY <1>1, <1>3, <2>1, <3>1, <3>2 DEF Keeps
      <3>4. more[i - 1] = pos[i - 1] /\ more[i] = pos[i] /\ all[i] = frames[i]
        BY <1>1, <1>3, <2>1, <3>1
      <3> QED
        BY <3>3, <3>4
    <2>2. CASE i = L + 1
      <3>1. more[i - 1] = AtEnd(p) /\ more[i] = y /\ all[i] = f
        BY <1>1, <1>2, <1>3, <2>2
      <3> QED
        BY <3>1
    <2> QED
      BY <1>1, <2>1, <2>2
  <1>6. Chain(q, all, more)
    <2> HIDE DEF more, all, L
    <2> QED
      BY <1>1, <1>3, <1>4, <1>5 DEF Chain
  <1>7. more[0] = pos[0]
    BY <1>1, <1>3
  <1> QED
    BY <1>3, <1>6, <1>7

(* The reader takes a frame and goes to the next point. *)
LEMMA ChainShrinks ==
  ASSUME NEW p, NEW frames \in Seq(Arrivals), frames # <<>>, NEW pos, Chain(p, frames, pos)
  PROVE  /\ pos[0] \in Points /\ pos[1] \in Points /\ Head(frames) \in Arrivals
         /\ Fits(p, pos[0]) /\ Fits(p, pos[1]) /\ Moves(p, pos[0], Head(frames), pos[1])
         /\ \E fewer \in [0 .. Len(Tail(frames)) -> Points] :
              fewer[0] = pos[1] /\ Chain(p, Tail(frames), fewer)
  <1> DEFINE L == Len(frames)
             fewer == [i \in 0 .. L - 1 |-> pos[i + 1]]
             rest == Tail(frames)
  <1>1. /\ L \in Nat \ {0} /\ Len(rest) = L - 1 /\ Head(frames) = frames[1] /\ frames[1] \in Arrivals
        /\ \A i \in 1 .. L - 1 : rest[i] = frames[i + 1]
    OBVIOUS
  <1>2. pos \in [0 .. L -> Points] /\ pos[L] = AtEnd(p)
    BY DEF Chain
  <1>3. 0 \in 0 .. L /\ 1 \in 0 .. L /\ 1 \in 1 .. L /\ 1 - 1 = 0
    BY <1>1
  <1>4. Fits(p, pos[0]) /\ Fits(p, pos[1]) /\ Moves(p, pos[1 - 1], frames[1], pos[1])
    BY <1>3 DEF Chain
  <1>5. fewer \in [0 .. L - 1 -> Points] /\ \A i \in 0 .. L - 1 : fewer[i] = pos[i + 1] /\ i + 1 \in 0 .. L
    BY <1>1, <1>2
  <1>6. ASSUME NEW i \in 1 .. L - 1 PROVE Moves(p, fewer[i - 1], rest[i], fewer[i])
    <2>1. i + 1 \in 1 .. L /\ (i + 1) - 1 = i /\ i - 1 \in 0 .. L - 1 /\ i \in 0 .. L - 1 /\ (i - 1) + 1 = i
      BY <1>1
    <2>2. Moves(p, pos[(i + 1) - 1], frames[i + 1], pos[i + 1])
      BY <2>1 DEF Chain
    <2>3. fewer[i - 1] = pos[i] /\ fewer[i] = pos[i + 1] /\ rest[i] = frames[i + 1]
      BY <1>1, <1>5, <2>1
    <2> QED
      BY <2>1, <2>2, <2>3
  <1>7. \A i \in 0 .. L - 1 : Fits(p, fewer[i])
    BY <1>5 DEF Chain
  <1>8. fewer[L - 1] = AtEnd(p) /\ fewer[0] = pos[1]
    BY <1>1, <1>2, <1>5
  <1>9. Chain(p, rest, fewer)
    <2> HIDE DEF fewer, rest, L
    <2> QED
      BY <1>1, <1>5, <1>6, <1>7, <1>8 DEF Chain
  <1>10. \E less \in [0 .. Len(rest) -> Points] : less[0] = pos[1] /\ Chain(p, rest, less)
    BY <1>1, <1>5, <1>8, <1>9
  <1> QED
    BY <1>1, <1>2, <1>3, <1>4, <1>10
(* The steps of the writers and of Close concern no message. *)
LEMMA SameMessages ==
  ASSUME MessageInv, UNCHANGED <<inbox, peer, fragVars, gotVars>>
  PROVE  MessageInv'
  <1>1. MessageType'
    BY DEF MessageInv, MessageType, fragVars, gotVars
  <1>2. Reassembled'
    BY DEF MessageInv, Reassembled, Received, gotVars
  <1>3. \A x : (Reads(x) => Reads(x)') /\ (Handed(x) => Handed(x)')
    BY DEF Reads, Handed, Received, fragVars, gotVars
  <1>4. PICK pos \in [0 .. Len(inbox) -> Points] : Chain(peer, inbox, pos) /\ Reads(pos[0]) /\ Handed(pos[0])
    BY DEF MessageInv
  <1>5. \E q \in [0 .. Len(inbox') -> Points] : Chain(peer', inbox', q) /\ Reads(q[0])' /\ Handed(q[0])'
    BY <1>3, <1>4
  <1> QED
    BY <1>1, <1>2, <1>5 DEF MessageInv

(* What has been handed over stays whole while the peer goes on, and when    *)
(* more messages are lost.                                                   *)
LEMMA StaysWhole ==
  ASSUME Reassembled, peer \in Seq(Begun), peer' \in Seq(Begun), Len(peer) <= Len(peer'),
         \A m \in 1 .. Len(peer) : peer[m].done => peer'[m] = peer[m],
         UNCHANGED got, lost \subseteq lost'
  PROVE  Reassembled'
  <1>1. ASSUME NEW i \in 1 .. Len(got), got[i].op = "text", ~got[i].garbled PROVE Entire(i)'
    <2> DEFINE m == got[i].msg
    <2>1. Entire(i)
      BY <1>1 DEF Reassembled
    <2>2. m \in 1 .. Len(peer) /\ m \in 1 .. Len(peer') /\ peer'[m] = peer[m]
      BY <2>1 DEF Entire
    <2>3. \A l : Received(l, i) => Received(l, i)'
      BY DEF Received
    <2>4. /\ peer[m].done /\ got[i].data = [k \in 1 .. peer[m].n |-> <<m, k>>] /\ got[i].inflated = peer[m].rsv1
          /\ \A j \in 1 .. (i - 1) : got[j].op = "text" => got[j].msg < m
          /\ \A l \in 1 .. m : l \in lost \/ Received(l, i)
      BY <2>1 DEF Entire
    <2>5. m = got'[i].msg /\ got' = got
      OBVIOUS
    <2> HIDE DEF m
    <2>6. got'[i].msg = m /\ got'[i].data = [k \in 1 .. peer'[m].n |-> <<m, k>>]
      BY <2>2, <2>4, <2>5
    <2> QED
      BY <2>2, <2>3, <2>4, <2>5, <2>6 DEF Entire
  <1> QED
    BY <1>1 DEF Reassembled

(* The peer goes on: what it has completed stays as it is. *)
LEMMA PeerGoesOn ==
  ASSUME MessageInv, NEW f \in Arrivals, inbox' = Append(inbox, f), UNCHANGED <<fragVars, gotVars>>,
         peer' \in Seq(Begun), Len(peer) <= Len(peer'),
         \A m \in 1 .. Len(peer) :
           peer'[m].rsv1 = peer[m].rsv1 /\ (peer[m].done => peer'[m] = peer[m]),
         NEW y \in Points, y = AtEnd(peer'), Fits(peer', y), Moves(peer', AtEnd(peer), f, y)
  PROVE  MessageInv'
  <1>1. MessageType /\ Reassembled /\ Len(peer) \in Nat /\ Len(peer') \in Nat /\ inbox \in Seq(Arrivals)
        /\ peer \in Seq(Begun)
    BY DEF MessageInv, MessageType
  <1>2. PICK pos \in [0 .. Len(inbox) -> Points] : Chain(peer, inbox, pos) /\ Reads(pos[0]) /\ Handed(pos[0])
    BY DEF MessageInv
  <1>3. ASSUME NEW x \in Points, Fits(peer, x) PROVE Fits(peer', x)
    BY <1>1, <1>3 DEF Fits, Points
  <1>4. ASSUME NEW x \in Points, NEW z \in Points, NEW g \in Arrivals, Fits(peer, z), Moves(peer, x, g, z)
        PROVE  Moves(peer', x, g, z)
    <2>1. CASE /\ g.op = "text" /\ ~x.open /\ g.piece = <<x.m + 1, 1>> /\ g.rsv1 = peer[x.m + 1].rsv1
               /\ z = [m |-> x.m + 1, k |-> 1, open |-> ~g.fin]
      <3>1. x.m + 1 \in 1 .. Len(peer)
        BY <1>1, <1>4, <2>1 DEF Fits, Points
      <3> QED
        BY <2>1, <3>1 DEF Moves
    <2>2. CASE ~(/\ g.op = "text" /\ ~x.open /\ g.piece = <<x.m + 1, 1>> /\ g.rsv1 = peer[x.m + 1].rsv1
                 /\ z = [m |-> x.m + 1, k |-> 1, open |-> ~g.fin])
      BY <1>4, <2>2 DEF Moves
    <2> QED
      BY <2>1, <2>2
  <1>5. PICK more \in [0 .. Len(inbox) + 1 -> Points] :
          more[0] = pos[0] /\ Chain(peer', Append(inbox, f), more)
    <2>1. Keeps(peer, peer')
      BY <1>3, <1>4 DEF Keeps
    <2>2. Chain(peer, inbox, pos) /\ peer' \in Seq(Begun)
      BY <1>2
    <2> DEFINE q == peer'
    <2>3. q \in Seq(Begun) /\ y = AtEnd(q) /\ Fits(q, y) /\ Moves(q, AtEnd(peer), f, y) /\ Keeps(peer, q)
      BY <2>1
    <2> HIDE DEF q
    <2>4. \E more \in [0 .. Len(inbox) + 1 -> Points] :
            more[0] = pos[0] /\ Chain(q, Append(inbox, f), more)
      BY <1>1, <2>2, <2>3, ChainGrows
    <2> QED
      BY <2>4 DEF q
  <1>6. Len(inbox') = Len(inbox) + 1
    BY <1>1
  <1>7. pos[0] \in Points /\ Fits(peer, pos[0])
    <2>1. 0 \in 0 .. Len(inbox)
      BY <1>1
    <2> QED
      BY <1>2, <2>1 DEF Chain
  <1>8. \A x \in Points : Fits(peer, x) /\ Reads(x) => Reads(x)'
    <2>1. ASSUME NEW x \in Points, Fits(peer, x), Reads(x) PROVE Reads(x)'
      <3>1. CASE x.open
        <4>1. x.m \in 1 .. Len(peer)
          BY <1>1, <2>1, <3>1 DEF Fits, Points
        <4>2. peer'[x.m].rsv1 = peer[x.m].rsv1
          BY <4>1
        <4> QED
          BY <2>1, <3>1, <4>2 DEF Reads, fragVars
      <3>2. CASE ~x.open
        BY <2>1, <3>2 DEF Reads, fragVars
      <3> QED
        BY <3>1, <3>2
    <2> QED
      BY <2>1
  <1>9. \A x : Handed(x) => Handed(x)'
    BY DEF Handed, Received, gotVars
  <1>10. Reassembled'
    BY <1>1, StaysWhole DEF gotVars
  <1>11. MessageType'
    BY <1>1 DEF MessageType, fragVars, gotVars
  <1>12. \E q \in [0 .. Len(inbox') -> Points] : Chain(peer', inbox', q) /\ Reads(q[0])' /\ Handed(q[0])'
    BY <1>2, <1>5, <1>6, <1>7, <1>8, <1>9
  <1> QED
    BY <1>10, <1>11, <1>12 DEF MessageInv

(* The first frame of a message is sent. *)
LEMMA PeerStartsInv ==
  ASSUME MessageInv, NEW fin \in BOOLEAN, NEW rsv1 \in Compression, PeerStarts(fin, rsv1)
  PROVE  MessageInv'
  <1> DEFINE L == Len(peer)
             new == [n |-> 1, rsv1 |-> rsv1, done |-> fin]
             f == Frame("text", fin, rsv1, L + 1, 1)
             y == [m |-> L + 1, k |-> 1, open |-> ~fin]
  <1>1. /\ ~PeerOpen /\ peer' = Append(peer, new) /\ inbox' = Append(inbox, f)
        /\ UNCHANGED <<fragVars, gotVars>>
    BY DEF PeerStarts, Arrives
  <1>2. peer \in Seq(Begun) /\ L \in Nat /\ rsv1 \in BOOLEAN
    BY InputsAssumption DEF MessageInv, MessageType
  <1>3. new \in Begun
    BY <1>2 DEF Begun
  <1>4. /\ peer' \in Seq(Begun) /\ Len(peer') = L + 1 /\ peer'[L + 1] = new /\ peer' # <<>>
        /\ \A m \in 1 .. L : peer'[m] = peer[m]
    BY <1>1, <1>2, <1>3
  <1>5. /\ f.op = "text" /\ f.fin = fin /\ f.rsv1 = rsv1 /\ f.piece = <<L + 1, 1>> /\ f \in Arrivals
    BY <1>2 DEF Frame, Arrivals
  <1>6. AtEnd(peer).m = L /\ ~AtEnd(peer).open
    BY <1>1, <1>2 DEF AtEnd, PeerOpen, Last
  <1>7. y = AtEnd(peer') /\ y \in Points /\ Fits(peer', y)
    <2>1. y = AtEnd(peer')
      BY <1>2, <1>4 DEF AtEnd
    <2>2. y \in Points
      BY <1>2 DEF Points
    <2>3. Fits(peer', y)
      <3>1. y.m = L + 1 /\ y.k = 1 /\ (y.open <=> ~fin)
        OBVIOUS
      <3>2. peer'[L + 1].n = 1 /\ (peer'[L + 1].done <=> fin)
        BY <1>4
      <3> HIDE DEF y, new
      <3>3. y.m <= Len(peer') /\ y.m >= 1
        BY <1>2, <1>4, <3>1
      <3>4. ~y.open => peer'[y.m].done /\ peer'[y.m].n = y.k
        BY <3>1, <3>2
      <3> QED
        BY <3>3, <3>4 DEF Fits
    <2> QED
      BY <2>1, <2>2, <2>3
  <1>8. Moves(peer', AtEnd(peer), f, y)
    BY <1>4, <1>5, <1>6 DEF Moves
  <1> HIDE DEF f, y, new, L
  <1>9. Len(peer) <= Len(peer')
    BY <1>2, <1>4 DEF L
  <1>10. \A m \in 1 .. Len(peer) : peer'[m].rsv1 = peer[m].rsv1 /\ (peer[m].done => peer'[m] = peer[m])
    BY <1>4 DEF L
  <1> QED
    BY <1>1, <1>4, <1>5, <1>7, <1>8, <1>9, <1>10, PeerGoesOn

(* The peer's open message gets one more frame. *)
LEMMA ContinuedPeer ==
  ASSUME peer \in Seq(Begun), NEW fin \in BOOLEAN, PeerContinues(fin)
  PROVE  /\ peer[Len(peer)] \in [n : Nat \ {0}, rsv1 : BOOLEAN, done : BOOLEAN] /\ Len(peer) \in Nat \ {0}
         /\ peer' \in Seq(Begun) /\ Len(peer') = Len(peer) /\ peer' # <<>> /\ Len(peer) <= Len(peer')
         /\ peer'[Len(peer)].n = peer[Len(peer)].n + 1 /\ peer'[Len(peer)].rsv1 = peer[Len(peer)].rsv1
         /\ peer'[Len(peer)].done = fin
         /\ \A m \in 1 .. Len(peer) : m # Len(peer) => peer'[m] = peer[m]
         /\ \A m \in 1 .. Len(peer) : peer'[m].rsv1 = peer[m].rsv1 /\ (peer[m].done => peer'[m] = peer[m])
  <1> DEFINE L == Len(peer)
  <1>1. peer # <<>> /\ ~peer[L].done /\ peer' = [peer EXCEPT ![L].n = @ + 1, ![L].done = fin]
    BY DEF PeerContinues, PeerOpen, Last
  <1>2. peer \in Seq(Begun) /\ L \in Nat \ {0} /\ L \in 1 .. L
    BY <1>1
  <1>3. peer[L] \in [n : Nat \ {0}, rsv1 : BOOLEAN, done : BOOLEAN]
    <2>1. peer[L] \in Begun
      BY <1>2
    <2> QED
      BY <2>1 DEF Begun
  <1>4. /\ peer' \in Seq(Begun) /\ Len(peer') = L /\ peer' # <<>>
        /\ peer'[L].n = peer[L].n + 1 /\ peer'[L].rsv1 = peer[L].rsv1 /\ peer'[L].done = fin
        /\ \A m \in 1 .. L : m # L => peer'[m] = peer[m]
    <2>1. peer' \in Seq(Begun) /\ Len(peer') = L
      <3> DEFINE new == [n |-> peer[L].n + 1, rsv1 |-> peer[L].rsv1, done |-> fin]
      <3>1. new \in Begun
        BY <1>3 DEF Begun
      <3>2. peer' = [peer EXCEPT ![L] = new]
        <4>1. [peer[L] EXCEPT !.n = @ + 1] = [n |-> peer[L].n + 1, rsv1 |-> peer[L].rsv1, done |-> peer[L].done]
          BY <1>3
        <4>2. [[peer[L] EXCEPT !.n = @ + 1] EXCEPT !.done = fin] = new
          <5> DEFINE mid == [n |-> peer[L].n + 1, rsv1 |-> peer[L].rsv1, done |-> peer[L].done]
          <5>1. [mid EXCEPT !.done = fin] = new
            OBVIOUS
          <5> HIDE DEF mid, new
          <5> QED
            BY <4>1, <5>1 DEF mid
        <4> HIDE DEF new
        <4> QED
          BY <1>1, <1>2, <4>2
      <3> HIDE DEF new
      <3> QED
        BY <1>2, <3>1, <3>2
    <2>2. peer'[L].n = peer[L].n + 1 /\ peer'[L].rsv1 = peer[L].rsv1 /\ peer'[L].done = fin
      BY <1>1, <1>2, <1>3
    <2>3. \A m \in 1 .. L : m # L => peer'[m] = peer[m]
      BY <1>1, <1>2
    <2> QED
      BY <1>2, <2>1, <2>2, <2>3
  <1> QED
    BY <1>1, <1>2, <1>3, <1>4

(* A continuation frame of the open message is sent. *)
LEMMA PeerContinuesInv ==
  ASSUME MessageInv, NEW fin \in BOOLEAN, PeerContinues(fin)
  PROVE  MessageInv'
  <1> DEFINE L == Len(peer)
             f == Frame("cont", fin, FALSE, L, peer[L].n + 1)
             y == [m |-> L, k |-> peer[L].n + 1, open |-> ~fin]
  <1>1. /\ peer # <<>> /\ ~peer[L].done /\ inbox' = Append(inbox, f)
        /\ peer' = [peer EXCEPT ![L].n = @ + 1, ![L].done = fin]
        /\ UNCHANGED <<fragVars, gotVars>>
    BY DEF PeerContinues, PeerOpen, Last, Arrives
  <1>2. peer \in Seq(Begun) /\ L \in Nat \ {0} /\ L \in 1 .. L
    BY <1>1 DEF MessageInv, MessageType
  <1>3. peer[L] \in [n : Nat \ {0}, rsv1 : BOOLEAN, done : BOOLEAN]
    BY <1>2, ContinuedPeer
  <1>4. /\ peer' \in Seq(Begun) /\ Len(peer') = L /\ peer' # <<>>
        /\ peer'[L].n = peer[L].n + 1 /\ peer'[L].rsv1 = peer[L].rsv1 /\ peer'[L].done = fin
        /\ \A m \in 1 .. L : m # L => peer'[m] = peer[m]
    BY <1>2, ContinuedPeer
  <1>5. f.op = "cont" /\ f.fin = fin /\ f.piece = <<L, peer[L].n + 1>> /\ f \in Arrivals
    BY <1>2, <1>3 DEF Frame, Arrivals
  <1>6. AtEnd(peer).m = L /\ AtEnd(peer).open /\ AtEnd(peer).k = peer[L].n
    BY <1>1 DEF AtEnd
  <1>7. y = AtEnd(peer') /\ y \in Points /\ Fits(peer', y)
    <2>1. y = AtEnd(peer')
      BY <1>2, <1>4 DEF AtEnd
    <2>2. y \in Points
      BY <1>2, <1>3 DEF Points
    <2>3. Fits(peer', y)
      <3>1. y.m = L /\ y.k = peer[L].n + 1 /\ (y.open <=> ~fin)
        OBVIOUS
      <3>2. peer'[L].n = peer[L].n + 1 /\ (peer'[L].done <=> fin)
        BY <1>4
      <3> HIDE DEF y
      <3>3. y.m <= Len(peer') /\ y.m >= 1
        BY <1>2, <1>4, <3>1
      <3>4. ~y.open => peer'[y.m].done /\ peer'[y.m].n = y.k
        BY <3>1, <3>2
      <3> QED
        BY <3>3, <3>4 DEF Fits
    <2> QED
      BY <2>1, <2>2, <2>3
  <1>8. Moves(peer', AtEnd(peer), f, y)
    BY <1>5, <1>6 DEF Moves
  <1> HIDE DEF f, y
  <1>9. Len(peer) <= Len(peer')
    BY <1>2, <1>4
  <1>10. \A m \in 1 .. Len(peer) : peer'[m].rsv1 = peer[m].rsv1 /\ (peer[m].done => peer'[m] = peer[m])
    <2> TAKE m \in 1 .. Len(peer)
    <2> QED
      BY <1>1, <1>4
  <1> QED
    BY <1>1, <1>4, <1>5, <1>7, <1>8, <1>9, <1>10, PeerGoesOn

(* A control frame, or a frame that belongs to no message, is sent. *)
LEMMA PeerExtraInv ==
  ASSUME MessageInv, NEW op \in Controls \cup Strays, NEW fin \in BOOLEAN, PeerExtra(op, fin)
  PROVE  MessageInv'
  <1> DEFINE f == Frame(op, fin, op = "text" /\ TRUE \in Compression, 0, 0)
             y == AtEnd(peer)
  <1>1. /\ inbox' = Append(inbox, f) /\ UNCHANGED <<peer, fragVars, gotVars>>
        /\ \/ op \in Controls /\ fin
           \/ op = "text" /\ PeerOpen
           \/ op = "cont" /\ ~PeerOpen
           \/ op = "reserved" /\ ~PeerOpen /\ fin
           \/ op = "bad"
    BY DEF PeerExtra, Arrives
  <1>2. /\ f.op = op /\ f.fin = fin /\ f \in Arrivals /\ (op # "text" => ~f.rsv1)
    BY InputsAssumption DEF Frame, Arrivals
  <1>3. peer \in Seq(Begun) /\ Len(peer) \in Nat
    BY DEF MessageInv, MessageType
  <1>4. y.m = Len(peer) /\ (y.open <=> PeerOpen) /\ y \in Points /\ Fits(peer, y)
    <2>1. CASE peer = <<>>
      <3>1. y.m = 0 /\ y.k = 0 /\ y.open = FALSE /\ y \in Points /\ Len(peer) = 0
        BY <2>1 DEF AtEnd, Points
      <3> HIDE DEF y
      <3> QED
        BY <2>1, <3>1 DEF PeerOpen, Fits
    <2>2. CASE peer # <<>>
      <3>1. /\ Len(peer) \in 1 .. Len(peer) /\ Len(peer) >= 1
            /\ peer[Len(peer)] \in [n : Nat \ {0}, rsv1 : BOOLEAN, done : BOOLEAN]
        <4>1. Len(peer) \in 1 .. Len(peer) /\ Len(peer) >= 1 /\ peer[Len(peer)] \in Begun
          BY <1>3, <2>2
        <4> QED
          BY <4>1 DEF Begun
      <3>2. y = [m |-> Len(peer), k |-> peer[Len(peer)].n, open |-> ~peer[Len(peer)].done]
        BY <2>2 DEF AtEnd
      <3> HIDE DEF y
      <3>3. y.m = Len(peer) /\ y.k = peer[Len(peer)].n /\ (y.open <=> ~peer[Len(peer)].done) /\ y \in Points
        BY <1>3, <3>1, <3>2 DEF Points
      <3>4. y.open <=> PeerOpen
        BY <2>2, <3>3 DEF PeerOpen, Last
      <3>5. Fits(peer, y)
        BY <1>3, <3>1, <3>3 DEF Fits
      <3> QED
        BY <3>3, <3>4, <3>5
    <2> QED
      BY <2>1, <2>2
  <1>5. Moves(peer', AtEnd(peer), f, y)
    BY <1>1, <1>2, <1>4, InputsAssumption DEF Moves
  <1>6. y = AtEnd(peer') /\ Fits(peer', y)
    BY <1>1, <1>4
  <1> HIDE DEF f, y
  <1>7. peer' \in Seq(Begun) /\ Len(peer) <= Len(peer') /\
        \A m \in 1 .. Len(peer) : peer'[m].rsv1 = peer[m].rsv1 /\ (peer[m].done => peer'[m] = peer[m])
    BY <1>1, <1>3
  <1> QED
    BY <1>1, <1>2, <1>4, <1>5, <1>6, <1>7, PeerGoesOn

(* The reader takes a frame: what remains to be shown of the step. *)
LEMMA HeadTaken ==
  ASSUME MessageInv, inbox # <<>>, inbox' = Tail(inbox), UNCHANGED peer
  PROVE  \E x, y \in Points :
           /\ Fits(peer, x) /\ Fits(peer, y) /\ Moves(peer, x, Head(inbox), y) /\ Head(inbox) \in Arrivals
           /\ Reads(x) /\ Handed(x)
           /\ MessageType' /\ Reassembled' /\ Reads(y)' /\ Handed(y)' => MessageInv'
  <1>1. PICK pos \in [0 .. Len(inbox) -> Points] : Chain(peer, inbox, pos) /\ Reads(pos[0]) /\ Handed(pos[0])
    BY DEF MessageInv
  <1>2. inbox \in Seq(Arrivals)
    BY DEF MessageInv, MessageType
  <1>3. /\ pos[0] \in Points /\ pos[1] \in Points /\ Head(inbox) \in Arrivals
        /\ Fits(peer, pos[0]) /\ Fits(peer, pos[1]) /\ Moves(peer, pos[0], Head(inbox), pos[1])
        /\ \E fewer \in [0 .. Len(Tail(inbox)) -> Points] :
             fewer[0] = pos[1] /\ Chain(peer, Tail(inbox), fewer)
    BY <1>1, <1>2, ChainShrinks
  <1>4. ASSUME MessageType', Reassembled', NEW y, y = pos[1], Reads(y)', Handed(y)' PROVE MessageInv'
    <2>1. PICK fewer \in [0 .. Len(Tail(inbox)) -> Points] : fewer[0] = y /\ Chain(peer, Tail(inbox), fewer)
      BY <1>3, <1>4
    <2>2. \E q \in [0 .. Len(inbox') -> Points] : Chain(peer', inbox', q) /\ Reads(q[0])' /\ Handed(q[0])'
      BY <1>4, <2>1
    <2> QED
      BY <1>4, <2>2 DEF MessageInv
  <1>5. \E y : y = pos[1]
    OBVIOUS
  <1>6. PICK y : y = pos[1]
    BY <1>5
  <1> QED
    BY <1>1, <1>3, <1>4, <1>6

(* Control frames, bad headers and frames that the reader refuses leave the  *)
(* fragments and the messages as they are.                                   *)
LEMMA IgnoredInv ==
  ASSUME MessageInv, inbox # <<>>, inbox' = Tail(inbox), UNCHANGED <<peer, fragVars, gotVars>>,
         \/ Head(inbox).op \in {"ping", "pong", "close", "bad"}
         \/ Head(inbox).op = "cont" /\ fragOpcode = None
         \/ Head(inbox).op \in {"text", "reserved"} /\ fragOpcode # None
  PROVE  MessageInv'
  <1>1. PICK x, y \in Points :
          /\ Fits(peer, x) /\ Fits(peer, y) /\ Moves(peer, x, Head(inbox), y) /\ Head(inbox) \in Arrivals
          /\ Reads(x) /\ Handed(x)
          /\ MessageType' /\ Reassembled' /\ Reads(y)' /\ Handed(y)' => MessageInv'
    BY HeadTaken
  <1>2. fragOpcode = None <=> ~x.open
    BY <1>1, OpcodesAssumption DEF Reads
  <1>3. y = x
    BY <1>1, <1>2 DEF Moves
  <1>4. MessageType'
    BY DEF MessageInv, MessageType, fragVars, gotVars
  <1>5. Reassembled'
    <2>1. Reassembled /\ peer \in Seq(Begun) /\ got' = got /\ lost' = lost /\ peer' = peer
      BY DEF MessageInv, MessageType, gotVars
    <2> QED
      BY <2>1, StaysWhole
  <1>6. Reads(y)' /\ Handed(y)'
    BY <1>1, <1>3 DEF Reads, Handed, Received, fragVars, gotVars
  <1> QED
    BY <1>1, <1>4, <1>5, <1>6

(* Message m is among the first i of s. *)
Among(s, m, i) == \E j \in 1 .. i : s[j].op = "text" /\ s[j].msg = m

(* The i-th message of s is one of p, whole, and none before it is missing.  *)
Fine(p, s, gone, i) ==
  s[i].op = "text" /\ ~s[i].garbled =>
    /\ s[i].msg \in 1 .. Len(p) /\ p[s[i].msg].done
    /\ s[i].data = [k \in 1 .. p[s[i].msg].n |-> <<s[i].msg, k>>]
    /\ s[i].inflated = p[s[i].msg].rsv1
    /\ \A j \in 1 .. (i - 1) : s[j].op = "text" => s[j].msg < s[i].msg
    /\ \A l \in 1 .. s[i].msg : l \in gone \/ Among(s, l, i)

(* Reassembled speaks of one message after the other. *)
LEMMA AllFine ==
  /\ Reassembled <=> \A i \in 1 .. Len(got) : Fine(peer, got, lost, i)
  /\ Reassembled' <=> \A i \in 1 .. Len(got') : Fine(peer', got', lost', i)
  BY DEF Reassembled, Entire, Fine, Received, Among

(* Message m, which is new, is the one to come after those of s. *)
ComesNext(p, s, gone, m, new) ==
  /\ m \in 1 .. Len(p) /\ p[m].done
  /\ new \in Messages /\ new.op = "text" /\ new.msg = m /\ new.inflated = p[m].rsv1
  /\ new.data = [k \in 1 .. p[m].n |-> <<m, k>>]
  /\ \A i \in 1 .. Len(s) : Fine(p, s, gone, i)
  /\ \A i \in 1 .. Len(s) : s[i].op = "text" => s[i].msg <= m - 1
  /\ \A l \in 1 .. m - 1 : l \in gone \/ Among(s, l, Len(s))

(* A message is handed over: what came before stays fine. *)
LEMMA OneMore ==
  ASSUME NEW p \in Seq(Begun), NEW s \in Seq(Messages), NEW gone, NEW m, NEW new, ComesNext(p, s, gone, m, new)
  PROVE  LET t == Append(s, new)
         IN /\ t \in Seq(Messages) /\ \A i \in 1 .. Len(t) : Fine(p, t, gone, i)
            /\ \A i \in 1 .. Len(t) : t[i].op = "text" => t[i].msg <= m
            /\ \A l \in 1 .. m : l \in gone \/ Among(t, l, Len(t))
  <1> DEFINE t == Append(s, new)
             G == Len(s)
  <1>1. /\ t \in Seq(Messages) /\ G \in Nat /\ Len(t) = G + 1 /\ t[G + 1] = new
        /\ \A i \in 1 .. G : t[i] = s[i] /\ s[i] \in Messages
    BY DEF ComesNext
  <1> HIDE DEF t, G
  <1>2. \A i \in 1 .. G : s[i].msg \in Nat
    BY <1>1 DEF Messages
  <1>3. m \in Nat \ {0}
    BY DEF ComesNext
  <1>4. \A i \in 1 .. G : t[i].op = "text" => t[i].msg < m
    BY <1>1, <1>2, <1>3 DEF ComesNext, G
  <1>5. ASSUME NEW l, NEW i \in 0 .. G PROVE Among(t, l, i) <=> Among(s, l, i)
    <2>1. \A j \in 1 .. i : t[j] = s[j]
      BY <1>1
    <2> QED
      BY <2>1 DEF Among
  <1>6. ASSUME NEW l \in 1 .. m PROVE l \in gone \/ Among(t, l, G + 1)
    <2>1. CASE l = m
      <3>1. G + 1 \in 1 .. G + 1
        BY <1>1
      <3> QED
        BY <1>1, <2>1, <3>1 DEF Among, ComesNext
    <2>2. CASE l # m
      <3>1. l \in gone \/ Among(s, l, G)
        BY <1>3, <2>2 DEF ComesNext, G
      <3>2. Among(s, l, G) => Among(t, l, G)
        BY <1>1, <1>5
      <3>3. Among(t, l, G) => Among(t, l, G + 1)
        BY <1>1 DEF Among
      <3> QED
        BY <3>1, <3>2, <3>3
    <2> QED
      BY <2>1, <2>2
  <1>7. ASSUME NEW i \in 1 .. G + 1 PROVE Fine(p, t, gone, i)
    <2>1. CASE i = G + 1
      <3>1. \A j \in 1 .. (i - 1) : t[j].op = "text" => t[j].msg < m
        BY <1>1, <1>4, <2>1
      <3>2. t[i] = new
        BY <1>1, <2>1
      <3> QED
        BY <1>6, <2>1, <3>1, <3>2 DEF Fine, ComesNext
    <2>2. CASE i # G + 1
      <3>1. i \in 1 .. G /\ i \in 0 .. G
        BY <1>1, <2>2
      <3>2. t[i] = s[i] /\ \A j \in 1 .. (i - 1) : t[j] = s[j]
        BY <1>1, <3>1
      <3>3. \A l : Among(t, l, i) <=> Among(s, l, i)
        BY <1>5, <3>1
      <3>4. Fine(p, s, gone, i)
        BY <3>1 DEF ComesNext, G
      <3> QED
        BY <3>2, <3>3, <3>4 DEF Fine
    <2> QED
      BY <2>1, <2>2
  <1>8. \A i \in 1 .. G + 1 : t[i].op = "text" => t[i].msg <= m
    <2> TAKE i \in 1 .. G + 1
    <2>1. CASE i = G + 1
      BY <1>1, <1>3, <2>1 DEF ComesNext
    <2>2. CASE i \in 1 .. G
      BY <1>1, <1>2, <1>3, <1>4, <2>2
    <2> QED
      BY <1>1, <2>1, <2>2
  <1> QED
    BY <1>1, <1>6, <1>7, <1>8 DEF t

(* readFrame hands over the m-th message, whole, or reports it as lost. *)
LEMMA DeliveredWhole ==
  ASSUME MessageType, Reassembled, desync = FALSE, NEW x \in Points, Handed(x), NEW m \in 1 .. Len(peer), Complete(x) = m - 1,
         peer[m].done, NEW data, data = [k \in 1 .. peer[m].n |-> <<m, k>>],
         NEW compressed, compressed = peer[m].rsv1, Delivers("text", data, compressed), UNCHANGED peer
  PROVE  /\ got' \in Seq(Messages) /\ Reassembled'
         /\ \A i \in 1 .. Len(got') : got'[i].op = "text" => got'[i].msg <= m
         /\ \A l \in 1 .. m : l \in lost' \/ Among(got', l, Len(got'))
  <1> DEFINE new == [op |-> "text", msg |-> m, data |-> data, inflated |-> compressed, garbled |-> FALSE]
  <1>1. peer \in Seq(Begun) /\ Len(peer) \in Nat /\ got \in Seq(Messages) /\ m \in Nat \ {0}
    BY DEF MessageType
  <1>2. peer[m].n \in Nat \ {0} /\ compressed \in BOOLEAN
    <2>1. peer[m] \in Begun
      BY <1>1
    <2> QED
      BY <2>1 DEF Begun
  <1>3. data \in Seq(Nat \X Nat) /\ Head(data) = <<m, 1>>
    <2>1. data \in [1 .. peer[m].n -> Nat \X Nat]
      BY <1>1, <1>2
    <2>2. data \in Seq(Nat \X Nat) /\ Len(data) = peer[m].n /\ data[1] = <<m, 1>>
      BY <1>2, <2>1
    <2> QED
      BY <1>2, <2>2
  <1>4. new \in Messages
    BY <1>1, <1>2, <1>3 DEF Messages
  <1>5. (got' = Append(got, new) /\ lost' = lost) \/ (got' = got /\ lost' = lost \cup {m})
    <2>1. Head(data)[1] = m
      BY <1>3
    <2> QED
      BY <2>1 DEF Delivers
  <1>6. \A i \in 1 .. Len(got) : got[i].op = "text" => got[i].msg <= m - 1
    BY DEF Handed
  <1>7. \A l \in 1 .. m - 1 : l \in lost \/ Among(got, l, Len(got))
    BY DEF Handed, Received, Among
  <1>8. \A i \in 1 .. Len(got) : Fine(peer, got, lost, i)
    BY AllFine
  <1>9. CASE got' = Append(got, new) /\ lost' = lost
    <2>1. new.op = "text" /\ new.msg = m /\ new.data = data /\ new.inflated = compressed
      OBVIOUS
    <2> HIDE DEF new
    <2>2. LET t == Append(got, new)
          IN /\ t \in Seq(Messages) /\ \A i \in 1 .. Len(t) : Fine(peer, t, lost, i)
             /\ \A i \in 1 .. Len(t) : t[i].op = "text" => t[i].msg <= m
             /\ \A l \in 1 .. m : l \in lost \/ Among(t, l, Len(t))
      <3>1. ComesNext(peer, got, lost, m, new)
        BY <1>4, <1>6, <1>7, <1>8, <2>1 DEF ComesNext
      <3> QED
        BY <1>1, <3>1, OneMore
    <2> QED
      BY <1>9, <2>2, AllFine
  <1>10. CASE got' = got /\ lost' = lost \cup {m}
    <2>1. \A i \in 1 .. Len(got) : Fine(peer, got, lost', i)
      BY <1>8, <1>10 DEF Fine
    <2>2. \A i \in 1 .. Len(got) : got[i].op = "text" => got[i].msg <= m
      <3>1. \A i \in 1 .. Len(got) : got[i].msg \in Nat
        <4>1. \A i \in 1 .. Len(got) : got[i] \in Messages
          BY <1>1
        <4> QED
          BY <4>1 DEF Messages
      <3> QED
        BY <1>1, <1>6, <3>1
    <2>3. \A l \in 1 .. m : l \in lost' \/ Among(got, l, Len(got))
      BY <1>1, <1>7, <1>10
    <2> QED
      BY <1>1, <1>10, <2>1, <2>2, <2>3, AllFine
  <1> QED
    BY <1>5, <1>9, <1>10

(* A continuation frame: refused, a fragment, or the end of the message. *)
LEMMA TakeContInv ==
  ASSUME MessageInv, desync = FALSE, NEW f, TakeCont(f)
  PROVE  MessageInv'
  <1>1. inbox # <<>> /\ f = Head(inbox) /\ f.op = "cont" /\ inbox' = Tail(inbox) /\ peer' = peer
    BY DEF TakeCont, Takes
  <1>2. CASE fragOpcode = None
    <2>1. UNCHANGED <<peer, fragVars, gotVars>>
      BY <1>1, <1>2 DEF TakeCont
    <2> QED
      BY <1>1, <1>2, <2>1, IgnoredInv
  <1>3. CASE fragOpcode # None
    <2>1. PICK x, y \in Points :
            /\ Fits(peer, x) /\ Fits(peer, y) /\ Moves(peer, x, f, y) /\ f \in Arrivals
            /\ Reads(x) /\ Handed(x)
            /\ MessageType' /\ Reassembled' /\ Reads(y)' /\ Handed(y)' => MessageInv'
      BY <1>1, HeadTaken
    <2>2. x.open /\ fragOpcode = "text" /\ fragCompress = peer[x.m].rsv1 /\ fragBuf = [k \in 1 .. x.k |-> <<x.m, k>>]
      BY <1>3, <2>1 DEF Reads
    <2>3. f.piece = <<x.m, x.k + 1>> /\ y = [m |-> x.m, k |-> x.k + 1, open |-> ~f.fin]
      BY <1>1, <2>1, <2>2 DEF Moves
    <2>4. y.m = x.m /\ y.k = x.k + 1 /\ (y.open <=> ~f.fin)
      BY <2>3
    <2>5. x.m \in Nat /\ x.k \in Nat /\ f.fin \in BOOLEAN
      BY <2>1 DEF Points, Arrivals
    <2>6. fragBuf' = [k \in 1 .. y.k |-> <<y.m, k>>]
      <3>1. fragBuf' = Append(fragBuf, <<x.m, x.k + 1>>)
        BY <1>3, <2>3 DEF TakeCont
      <3> QED
        BY <2>2, <2>4, <2>5, <3>1
    <2>7. fragBuf' \in Seq(Nat \X Nat)
      <3>1. fragBuf' \in [1 .. y.k -> Nat \X Nat]
        BY <2>4, <2>5, <2>6
      <3> QED
        BY <2>4, <2>5, <3>1
    <2>8. inbox' \in Seq(Arrivals) /\ peer' \in Seq(Begun) /\ peer \in Seq(Begun) /\ got \in Seq(Messages)
          /\ Reassembled /\ MessageType
      BY <1>1 DEF MessageInv, MessageType
    <2>9. CASE ~f.fin
      <3>1. fragOpcode' = fragOpcode /\ (fragCompress' <=> fragCompress) /\ UNCHANGED gotVars
        BY <1>3, <2>9 DEF TakeCont
      <3>2. fragCompress' = fragCompress
        <4>1. fragCompress' = (fragCompress /\ ~f.fin)
          BY <1>3 DEF TakeCont
        <4>2. fragCompress \in BOOLEAN
          <5>1. peer[x.m] \in Begun
            BY <2>1, <2>2, <2>5, <2>8 DEF Fits
          <5> QED
            BY <2>2, <5>1 DEF Begun
        <4> QED
          BY <2>9, <4>1, <4>2
      <3>3. Reads(y)'
        BY <1>1, <2>2, <2>4, <2>6, <2>9, <3>1, <3>2 DEF Reads
      <3>4. Handed(y)'
        BY <2>1, <2>2, <2>4, <2>9, <3>1 DEF Handed, Received, Complete, gotVars
      <3>5. Reassembled'
        <4>1. got' = got /\ lost' = lost /\ peer' = peer /\ Reassembled
          BY <1>1, <2>8, <3>1 DEF gotVars
        <4> QED
          BY <4>1 DEF Reassembled, Entire, Received
      <3>6. MessageType'
        BY <2>7, <2>8, <3>1 DEF MessageType, gotVars
      <3> QED
        BY <2>1, <3>3, <3>4, <3>5, <3>6
    <2>10. CASE f.fin
      <3>1. fragOpcode' = None /\ Delivers("text", fragBuf', fragCompress)
        BY <1>3, <2>2, <2>10 DEF TakeCont
      <3>2. /\ ~y.open /\ x.m \in 1 .. Len(peer) /\ peer[x.m].done /\ peer[x.m].n = y.k
            /\ Complete(x) = x.m - 1 /\ Complete(y) = x.m
        BY <2>1, <2>2, <2>4, <2>5, <2>8, <2>10 DEF Fits, Complete
      <3> DEFINE data == fragBuf'
      <3>3. data = [k \in 1 .. peer[x.m].n |-> <<x.m, k>>] /\ Delivers("text", data, fragCompress)
        BY <2>4, <2>6, <3>1, <3>2
      <3> HIDE DEF data
      <3>4. /\ got' \in Seq(Messages) /\ Reassembled'
            /\ \A i \in 1 .. Len(got') : got'[i].op = "text" => got'[i].msg <= x.m
            /\ \A l \in 1 .. x.m : l \in lost' \/ Among(got', l, Len(got'))
        BY <1>1, <2>1, <2>2, <2>8, <3>2, <3>3, DeliveredWhole
      <3>5. Handed(y)'
        BY <3>2, <3>4 DEF Handed, Received, Among
      <3>6. Reads(y)'
        BY <3>1, <3>2 DEF Reads
      <3>7. MessageType'
        BY <2>7, <2>8, <3>4 DEF MessageType
      <3> QED
        BY <2>1, <3>4, <3>5, <3>6, <3>7
    <2> QED
      BY <2>5, <2>9, <2>10
  <1> QED
    BY <1>2, <1>3

(* A data frame: refused, a whole message, the first fragment, or a frame    *)
(* with a reserved opcode, which is handed over under that opcode.           *)
LEMMA TakeDataInv ==
  ASSUME MessageInv, desync = FALSE, NEW f, TakeData(f)
  PROVE  MessageInv'
  <1>1. inbox # <<>> /\ f = Head(inbox) /\ f.op \in {"text", "reserved"} /\ inbox' = Tail(inbox) /\ peer' = peer
    BY DEF TakeData, Takes
  <1>2. CASE fragOpcode # None
    <2>1. UNCHANGED <<peer, fragVars, gotVars>>
      BY <1>1, <1>2 DEF TakeData
    <2> QED
      BY <1>1, <1>2, <2>1, IgnoredInv
  <1>3. CASE fragOpcode = None
    <2>1. PICK x, y \in Points :
            /\ Fits(peer, x) /\ Fits(peer, y) /\ Moves(peer, x, f, y) /\ f \in Arrivals
            /\ Reads(x) /\ Handed(x)
            /\ MessageType' /\ Reassembled' /\ Reads(y)' /\ Handed(y)' => MessageInv'
      BY <1>1, HeadTaken
    <2>2. ~x.open
      BY <1>3, <2>1, OpcodesAssumption DEF Reads
    <2>3. x.m \in Nat /\ f.fin \in BOOLEAN /\ f.piece \in Nat \X Nat
      BY <2>1 DEF Points, Arrivals
    <2>4. inbox' \in Seq(Arrivals) /\ peer' \in Seq(Begun) /\ peer \in Seq(Begun) /\ got \in Seq(Messages)
          /\ Reassembled /\ MessageType /\ fragBuf \in Seq(Nat \X Nat)
      BY <1>1 DEF MessageInv, MessageType
    <2>5. CASE f.op = "reserved"
      <3>1. y = x /\ f.fin /\ ~f.rsv1
        BY <2>1, <2>2, <2>5 DEF Moves
      <3>2. UNCHANGED fragVars /\ Delivers("reserved", <<f.piece>>, f.rsv1)
        BY <1>3, <2>5, <3>1 DEF TakeData
      <3> DEFINE new == [op |-> "reserved", msg |-> f.piece[1], data |-> <<f.piece>>, inflated |-> f.rsv1,
                        garbled |-> FALSE]
      <3>3. lost' = lost /\ (got' = got \/ got' = Append(got, new))
        <4>1. Head(<<f.piece>>)[1] = f.piece[1] /\ ~f.rsv1
          BY <3>1
        <4> QED
          BY <3>2, <4>1 DEF Delivers, gotVars
      <3>4. new \in Messages /\ new.op = "reserved"
        BY <2>1, <2>3 DEF Messages, Arrivals
      <3> HIDE DEF new
      <3>5. /\ got' \in Seq(Messages) /\ Len(got') \in {Len(got), Len(got) + 1} /\ Len(got) \in Nat
            /\ \A i \in 1 .. Len(got) : got'[i] = got[i]
            /\ \A i \in 1 .. Len(got') : i \in 1 .. Len(got) \/ got'[i].op = "reserved"
        <4>1. got \in Seq(Messages) /\ new \in Messages /\ new.op = "reserved"
          BY <2>4, <3>4
        <4>2. CASE got' = got
          BY <4>1, <4>2
        <4>3. CASE got' = Append(got, new)
          <5>1. /\ got' \in Seq(Messages) /\ Len(got') = Len(got) + 1 /\ Len(got) \in Nat
                /\ got'[Len(got) + 1] = new /\ \A i \in 1 .. Len(got) : got'[i] = got[i]
            BY <4>1, <4>3
          <5> QED
            BY <4>1, <5>1
        <4> QED
          BY <3>3, <4>2, <4>3
      <3>6. ASSUME NEW l, NEW i \in 0 .. Len(got) PROVE Among(got', l, i) <=> Among(got, l, i)
        BY <3>5 DEF Among
      <3>7. ASSUME NEW l, Among(got, l, Len(got)) PROVE Among(got', l, Len(got'))
        <4>1. PICK j \in 1 .. Len(got) : got[j].op = "text" /\ got[j].msg = l
          BY <3>7 DEF Among
        <4>2. j \in 1 .. Len(got')
          BY <3>5
        <4> QED
          BY <3>5, <4>1, <4>2 DEF Among
      <3>8. Reassembled'
        <4>1. ASSUME NEW i \in 1 .. Len(got') PROVE Fine(peer, got', lost, i)
          <5>1. CASE i \in 1 .. Len(got)
            <6>1. Fine(peer, got, lost, i)
              BY <2>4, <5>1, AllFine
            <6>2. got'[i] = got[i] /\ (\A j \in 1 .. (i - 1) : got'[j] = got[j])
                  /\ i \in 0 .. Len(got)
              BY <3>5, <5>1
            <6>3. \A l : Among(got', l, i) <=> Among(got, l, i)
              BY <3>6, <6>2
            <6> QED
              BY <6>1, <6>2, <6>3 DEF Fine
          <5>2. CASE got'[i].op = "reserved"
            BY <5>2 DEF Fine
          <5> QED
            BY <3>5, <5>1, <5>2
        <4> QED
          BY <1>1, <3>3, <4>1, AllFine
      <3>9. Handed(y)'
        <4>1. \A i \in 1 .. Len(got') : got'[i].op = "text" => got'[i].msg <= Complete(y)
          BY <2>1, <3>1, <3>5 DEF Handed
        <4>2. \A l \in 1 .. Complete(y) : l \in lost' \/ Among(got', l, Len(got'))
          <5>1. \A l \in 1 .. Complete(y) : l \in lost \/ Among(got, l, Len(got))
            BY <2>1, <3>1 DEF Handed, Received, Among
          <5> QED
            BY <3>3, <3>7, <5>1
        <4> QED
          BY <4>1, <4>2 DEF Handed, Received, Among
      <3>10. Reads(y)'
        BY <1>1, <2>1, <3>1, <3>2 DEF Reads, fragVars
      <3>11. MessageType'
        BY <2>4, <3>2, <3>5 DEF MessageType, fragVars
      <3> QED
        BY <2>1, <3>8, <3>9, <3>10, <3>11
    <2>6. CASE f.op = "text"
      <3>1. f.piece = <<x.m + 1, 1>> /\ f.rsv1 = peer[x.m + 1].rsv1 /\ y = [m |-> x.m + 1, k |-> 1, open |-> ~f.fin]
        BY <2>1, <2>2, <2>6 DEF Moves
      <3>2. y.m = x.m + 1 /\ y.k = 1 /\ (y.open <=> ~f.fin)
        BY <3>1
      <3>3. Complete(x) = x.m /\ x.m + 1 \in 1 .. Len(peer)
        BY <2>1, <2>2, <2>3, <2>4, <3>2 DEF Complete, Fits
      <3>4. <<f.piece>> = [k \in 1 .. 1 |-> <<x.m + 1, k>>] /\ <<f.piece>> \in Seq(Nat \X Nat)
        BY <2>3, <3>1
      <3>5. CASE ~f.fin
        <4>1. /\ fragOpcode' = "text" /\ fragCompress' = f.rsv1 /\ fragBuf' = <<f.piece>>
              /\ UNCHANGED gotVars
          BY <1>3, <2>6, <3>5 DEF TakeData, StartFragments
        <4>2. Reads(y)'
          BY <1>1, <3>1, <3>2, <3>4, <3>5, <4>1 DEF Reads
        <4>3. Complete(y) = x.m
          BY <2>3, <3>2, <3>5 DEF Complete
        <4>4. Handed(y)'
          BY <2>1, <3>3, <4>1, <4>3 DEF Handed, Received, gotVars
        <4>5. Reassembled'
          <5>1. got' = got /\ lost' = lost /\ peer' = peer /\ Reassembled
            BY <1>1, <2>4, <4>1 DEF gotVars
          <5> QED
            BY <5>1 DEF Reassembled, Entire, Received
        <4>6. MessageType'
          BY <2>4, <3>4, <4>1 DEF MessageType, gotVars
        <4> QED
          BY <2>1, <4>2, <4>4, <4>5, <4>6
      <3>6. CASE f.fin
        <4>1. UNCHANGED fragVars /\ Delivers("text", <<f.piece>>, f.rsv1)
          BY <1>3, <2>6, <3>6 DEF TakeData
        <4>2. ~y.open /\ peer[x.m + 1].done /\ peer[x.m + 1].n = 1 /\ Complete(y) = x.m + 1
              /\ (x.m + 1) - 1 = x.m
          BY <2>1, <2>3, <3>2, <3>6 DEF Fits, Complete
        <4> DEFINE m == x.m + 1
                   data == <<f.piece>>
                   compressed == f.rsv1
        <4>3. /\ m \in 1 .. Len(peer) /\ Complete(x) = m - 1 /\ peer[m].done
              /\ data = [k \in 1 .. peer[m].n |-> <<m, k>>] /\ compressed = peer[m].rsv1
              /\ Delivers("text", data, compressed)
          BY <3>1, <3>3, <3>4, <4>1, <4>2
        <4> HIDE DEF m, data, compressed
        <4>4. /\ got' \in Seq(Messages) /\ Reassembled'
              /\ \A i \in 1 .. Len(got') : got'[i].op = "text" => got'[i].msg <= m
              /\ \A l \in 1 .. m : l \in lost' \/ Among(got', l, Len(got'))
          BY <1>1, <2>1, <2>4, <4>3, DeliveredWhole
        <4>5. Handed(y)'
          BY <4>2, <4>4 DEF Handed, Received, Among, m
        <4>6. Reads(y)'
          BY <1>3, <4>1, <4>2 DEF Reads, fragVars
        <4>7. MessageType'
          BY <2>4, <4>1, <4>4 DEF MessageType, fragVars
        <4> QED
          BY <2>1, <4>4, <4>5, <4>6, <4>7
      <3> QED
        BY <2>3, <3>5, <3>6
    <2> QED
      BY <1>1, <2>5, <2>6
  <1> QED
    BY <1>2, <1>3

(* In the beginning nothing is under way. *)
LEMMA MessageInit ==
  ASSUME Init
  PROVE  MessageInv
  <1> DEFINE zero == [m |-> 0, k |-> 0, open |-> FALSE]
             pos == [i \in 0 .. 0 |-> zero]
  <1>1. inbox = <<>> /\ peer = <<>> /\ got = <<>> /\ fragBuf = <<>> /\ fragOpcode = None
    BY DEF Init
  <1>2. MessageType /\ Reassembled
    BY <1>1 DEF MessageType, Reassembled
  <1>3. zero \in Points /\ zero.m = 0 /\ zero.open = FALSE
    BY DEF Points
  <1>4. AtEnd(peer) = zero
    BY <1>1 DEF AtEnd
  <1> HIDE DEF zero
  <1>5. Fits(peer, zero) /\ Reads(zero) /\ Handed(zero)
    BY <1>1, <1>3 DEF Fits, Reads, Handed, Complete
  <1>6. pos \in [0 .. Len(inbox) -> Points] /\ pos[0] = zero
    BY <1>1, <1>3
  <1> HIDE DEF pos
  <1>7. Chain(peer, inbox, pos)
    BY <1>1, <1>4, <1>5, <1>6 DEF Chain
  <1> QED
    BY <1>2, <1>5, <1>6, <1>7 DEF MessageInv

(* Every step of the peer, the reader, the writers and Close. *)
LEMMA MessageStep ==
  ASSUME MessageInv, desync = FALSE, desync' = FALSE, [Next]_vars
  PROVE  MessageInv'
  <1>1. ASSUME NEW fin \in BOOLEAN, NEW rsv1 \in Compression, PeerStarts(fin, rsv1) PROVE MessageInv'
    BY <1>1, PeerStartsInv
  <1>2. ASSUME NEW fin \in BOOLEAN, PeerContinues(fin) PROVE MessageInv'
    BY <1>2, PeerContinuesInv
  <1>3. ASSUME NEW op \in Controls \cup Strays, NEW fin \in BOOLEAN, PeerExtra(op, fin) PROVE MessageInv'
    BY <1>3, PeerExtraInv
  <1>4. CASE PeerEnds \/ AppCloses
    BY <1>4, SameMessages DEF PeerEnds, AppCloses, peerVars
  <1>5. ASSUME NEW via, StartRead(via) PROVE MessageInv'
    BY <1>5, SameMessages DEF StartRead, peerVars
  <1>6. CASE ReadFails \/ ReadTimesOut \/ LoopEnds \/ Answered
    BY <1>6, SameMessages DEF ReadFails, ReadTimesOut, LoopEnds, Answered, peerVars
  <1>7. ASSUME NEW f, TakeBad(f) \/ TakePong(f) \/ TakeAnswered(f) PROVE MessageInv'
    <2>1. /\ inbox # <<>> /\ inbox' = Tail(inbox) /\ UNCHANGED peer
          /\ Head(inbox).op \in {"ping", "pong", "close", "bad"}
      BY <1>7 DEF TakeBad, TakePong, TakeAnswered, Takes
    <2>2. UNCHANGED <<fragVars, gotVars>>
      BY <1>7 DEF TakeBad, TakePong, TakeAnswered
    <2> QED
      BY <2>1, <2>2, IgnoredInv
  <1>8. ASSUME NEW f, TakeCont(f) \/ TakeData(f) PROVE MessageInv'
    BY <1>8, TakeContInv, TakeDataInv
  <1>9. ASSUME NEW w, NEW via, StartWrite(w, via) PROVE MessageInv'
    BY <1>9, SameMessages DEF StartWrite
  <1>10. ASSUME NEW a, WriterStep(a) PROVE MessageInv'
    <2>1. WritesOnly
      BY <1>10 DEF WriterStep, LockWrite, BuildHeader, FillBuffer, Send, WriteFails, CloseAfterFailure
    <2> QED
      BY <2>1, SameMessages DEF WritesOnly, peerVars
  <1>11. CASE Terminated \/ UNCHANGED vars
    BY <1>11, SameMessages DEF Terminated, vars, fragVars, gotVars
  <1> QED
    BY <1>1, <1>2, <1>3, <1>4, <1>5, <1>6, <1>7, <1>8, <1>9, <1>10, <1>11 DEF Next, ReaderStep

ReadInv ==
  /\ Reassembled /\ desync \in BOOLEAN
  /\ peer \in Seq(Begun) /\ \E S : got \in Seq(S)
  /\ desync = FALSE => MessageInv

(* A message made of what was left of a frame is known as such. *)
LEMMA GarbledKnown ==
  ASSUME Reassembled, NEW S, got \in Seq(S), UNCHANGED peer, lost \subseteq lost',
         NEW m, m.garbled = TRUE, got' = Append(got, m)
  PROVE  Reassembled' /\ \E T : got' \in Seq(T)
  <1> DEFINE T == S \cup {m}
             G == Len(got)
  <1>1. /\ got' \in Seq(T) /\ Len(got') = G + 1 /\ G \in Nat /\ got'[G + 1] = m
        /\ \A i \in 1 .. G : got'[i] = got[i]
    <2>1. got \in Seq(T) /\ m \in T
      OBVIOUS
    <2> QED
      BY <2>1
  <1> HIDE DEF T, G
  <1>2. ASSUME NEW i \in 1 .. Len(got') PROVE Fine(peer', got', lost', i)
    <2>1. CASE i = G + 1
      BY <1>1, <2>1 DEF Fine
    <2>2. CASE i # G + 1
      <3>1. i \in 1 .. G /\ got'[i] = got[i] /\ \A j \in 1 .. i : got'[j] = got[j]
        BY <1>1, <2>2
      <3>2. Fine(peer, got, lost, i)
        BY <3>1, AllFine DEF G
      <3>3. \A j \in 1 .. (i - 1) : j \in 1 .. i
        BY <1>1, <3>1
      <3>4. \A l : Among(got, l, i) => Among(got', l, i)
        BY <3>1 DEF Among
      <3> QED
        BY <3>1, <3>2, <3>3, <3>4 DEF Fine
    <2> QED
      BY <2>1, <2>2
  <1>3. Reassembled'
    BY <1>2, AllFine
  <1> QED
    BY <1>1, <1>3

(* What a call that has lost its place hands over. *)
LEMMA DeliveredGarbled ==
  ASSUME ReadInv, desync = TRUE, UNCHANGED <<peer, desync>>,
         UNCHANGED gotVars \/ \E op, data, compressed : Delivers(op, data, compressed)
  PROVE  ReadInv'
  <1>1. Reassembled /\ peer \in Seq(Begun) /\ desync' = TRUE
    BY DEF ReadInv
  <1>2. PICK S : got \in Seq(S)
    BY DEF ReadInv
  <1>3. CASE UNCHANGED got /\ lost \subseteq lost'
    <2>1. Reassembled'
      BY <1>1, <1>3, StaysWhole
    <2> QED
      BY <1>1, <1>2, <1>3, <2>1 DEF ReadInv
  <1>4. ASSUME NEW op, NEW data, NEW compressed, Delivers(op, data, compressed), got' # got PROVE ReadInv'
    <2> DEFINE m == [op |-> op, msg |-> Head(data)[1], data |-> data, inflated |-> compressed, garbled |-> desync]
    <2>1. m.garbled = TRUE /\ got' = Append(got, m) /\ lost \subseteq lost'
      BY <1>4 DEF Delivers, gotVars
    <2> HIDE DEF m
    <2>2. Reassembled' /\ \E T : got' \in Seq(T)
      BY <1>1, <1>2, <2>1, GarbledKnown
    <2> QED
      BY <1>1, <2>2 DEF ReadInv
  <1>5. ASSUME NEW op, NEW data, NEW compressed, Delivers(op, data, compressed), got' = got PROVE lost \subseteq lost'
    BY <1>5 DEF Delivers, gotVars
  <1> QED
    BY <1>3, <1>4, <1>5 DEF gotVars

(* A step that hands nothing over, of the peer or of another. *)
LEMMA NothingHanded ==
  ASSUME ReadInv, desync' = TRUE, UNCHANGED gotVars,
         \/ UNCHANGED peer
         \/ \E fin \in BOOLEAN, rsv1 \in Compression : PeerStarts(fin, rsv1)
         \/ \E fin \in BOOLEAN : PeerContinues(fin)
  PROVE  ReadInv'
  <1>1. Reassembled /\ peer \in Seq(Begun) /\ UNCHANGED <<got, lost>>
    BY DEF ReadInv, gotVars
  <1>2. /\ peer' \in Seq(Begun) /\ Len(peer) <= Len(peer')
        /\ \A m \in 1 .. Len(peer) : peer[m].done => peer'[m] = peer[m]
    <2>1. CASE UNCHANGED peer
      BY <1>1, <2>1
    <2>2. ASSUME NEW fin \in BOOLEAN, NEW rsv1 \in Compression, PeerStarts(fin, rsv1)
          PROVE  /\ peer' \in Seq(Begun) /\ Len(peer) <= Len(peer')
                 /\ \A m \in 1 .. Len(peer) : peer[m].done => peer'[m] = peer[m]
      <3> DEFINE new == [n |-> 1, rsv1 |-> rsv1, done |-> fin]
      <3>1. peer' = Append(peer, new) /\ new \in Begun
        BY <2>2, InputsAssumption DEF PeerStarts, Begun
      <3> HIDE DEF new
      <3> QED
        BY <1>1, <3>1
    <2>3. ASSUME NEW fin \in BOOLEAN, PeerContinues(fin) PROVE /\ peer' \in Seq(Begun) /\ Len(peer) <= Len(peer')
                 /\ \A m \in 1 .. Len(peer) : peer[m].done => peer'[m] = peer[m]
      BY <1>1, <2>3, ContinuedPeer
    <2> QED
      BY <2>1, <2>2, <2>3
  <1>3. Reassembled'
    BY <1>1, <1>2, StaysWhole
  <1> QED
    BY <1>1, <1>2, <1>3 DEF ReadInv

LEMMA ReadStep ==
  ASSUME ReadInv, [Next]_vars
  PROVE  ReadInv'
  <1>1. desync' \in BOOLEAN /\ (desync = TRUE => desync' = TRUE)
    <2>1. desync \in BOOLEAN /\ (desync' = desync \/ desync' = TRUE)
      <3>1. ASSUME NEW f, TakeBad(f) \/ TakePong(f) \/ TakeAnswered(f) \/ TakeCont(f) \/ TakeData(f)
            PROVE  desync' = desync \/ desync' = TRUE
        BY <3>1 DEF TakeBad, TakePong, TakeAnswered, TakeCont, TakeData
      <3>2. ASSUME NEW a, WriterStep(a) PROVE desync' = desync
        BY <3>2 DEF WriterStep, LockWrite, BuildHeader, FillBuffer, Send, WriteFails, CloseAfterFailure, WritesOnly
      <3> QED
        BY <3>1, <3>2 DEF ReadInv, Next, PeerStarts, PeerContinues, PeerExtra, Arrives, PeerEnds, AppCloses, StartRead,
             ReaderStep, ReadFails, ReadTimesOut, Answered, LoopEnds, StartWrite, Terminated, vars
    <2> QED
      BY <2>1
  <1>2. CASE desync' = FALSE
    <2>1. desync = FALSE /\ MessageInv
      BY <1>1, <1>2 DEF ReadInv
    <2>2. MessageInv'
      BY <1>2, <2>1, MessageStep
    <2> QED
      BY <1>2, <2>2 DEF ReadInv, MessageInv, MessageType
  <1>3. CASE desync' = TRUE
    <2>1. ASSUME NEW fin \in BOOLEAN, NEW rsv1 \in Compression, PeerStarts(fin, rsv1) PROVE ReadInv'
      BY <1>3, <2>1, NothingHanded DEF PeerStarts, Arrives
    <2>2. ASSUME NEW fin \in BOOLEAN, PeerContinues(fin) PROVE ReadInv'
      BY <1>3, <2>2, NothingHanded DEF PeerContinues, Arrives
    <2>3. ASSUME NEW f, TakeCont(f) \/ TakeData(f) PROVE ReadInv'
      <3>1. /\ UNCHANGED <<peer, desync>>
            /\ UNCHANGED gotVars \/ \E op, data, compressed : Delivers(op, data, compressed)
        BY <2>3 DEF TakeCont, TakeData, Takes
      <3> QED
        BY <1>3, <3>1, DeliveredGarbled
    <2>4. ASSUME NEW f, TakeBad(f) \/ TakePong(f) \/ TakeAnswered(f) PROVE ReadInv'
      BY <1>3, <2>4, NothingHanded DEF TakeBad, TakePong, TakeAnswered, Takes
    <2>5. ASSUME NEW a, WriterStep(a) PROVE ReadInv'
      <3>1. WritesOnly
        BY <2>5 DEF WriterStep, LockWrite, BuildHeader, FillBuffer, Send, WriteFails, CloseAfterFailure
      <3> QED
        BY <1>3, <3>1, NothingHanded DEF WritesOnly, peerVars
    <2>6. ASSUME \/ \E op \in Controls \cup Strays, fin \in BOOLEAN : PeerExtra(op, fin)
                 \/ PeerEnds \/ AppCloses \/ ReadFails \/ ReadTimesOut \/ Answered \/ LoopEnds
                 \/ \E via \in {"Read", "ReadMessage"} : StartRead(via)
                 \/ \E w \in Writers, via \in {"Write", "WriteMessage"} : StartWrite(w, via)
                 \/ Terminated \/ UNCHANGED vars
          PROVE  ReadInv'
      <3>1. UNCHANGED <<peer, gotVars>>
        BY <2>6 DEF PeerExtra, Arrives, PeerEnds, AppCloses, ReadFails, ReadTimesOut, Answered, LoopEnds, StartRead,
             StartWrite, Terminated, vars, peerVars, gotVars
      <3> QED
        BY <1>3, <3>1, NothingHanded
    <2> QED
      BY <2>1, <2>2, <2>3, <2>4, <2>5, <2>6 DEF Next, ReaderStep
  <1> QED
    BY <1>1, <1>2, <1>3

(* Whatever control, stray or malformed frames the peer sends between its    *)
(* fragments, whatever deadlines pass, and however often a failed read is    *)
(* repeated, readFrame hands over the peer's messages whole, in order, each  *)
(* once, and leaves out only those that could not be inflated, until a call  *)
(* has failed in the middle of a frame; what is handed over from then on may *)
(* be anything (AlwaysReassembled).                                          *)
THEOREM MessagesArriveWhole == Spec => []Reassembled
  <1>1. Init => ReadInv
    <2> SUFFICES ASSUME Init PROVE ReadInv
      OBVIOUS
    <2>1. MessageInv /\ desync = FALSE
      BY MessageInit DEF Init
    <2> QED
      BY <2>1 DEF ReadInv, MessageInv, MessageType
  <1>2. ReadInv /\ [Next]_vars => ReadInv'
    BY ReadStep
  <1>3. ReadInv => Reassembled
    BY DEF ReadInv
  <1> QED
    BY <1>1, <1>2, <1>3, PTL DEF Spec
=============================================================================
