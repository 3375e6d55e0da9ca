-------------------------------- MODULE Wire ---------------------------------
(***************************************************************************)
(* What reaches the network of what is written: header lines put in order  *)
(* (internal/transport/h1.go), TLS records framed and read back            *)
(* (internal/transport/tlsrecord.go), and writes cut into fragments        *)
(* (fragment/fragment.go).  One goroutine writes and one reads.            *)
(***************************************************************************)
EXTENDS Naturals, Sequences, SequencesExt, FiniteSets, FiniteSetsExt

CONSTANTS
  HeaderKeys,    \* "none" stands for a line without a colon
  MaxLines,      \* bound on the header lines of a request
  HeaderLimit,   \* 64
  Orders,        \* header orders: sequences of keys
  Plaintexts,    \* sequences of bytes
  ContentTypes,  \* never 0
  MaxRecords,    \* bound on the records written
  Overhead,      \* of the AEAD
  MaxPayload,    \* of a record
  Configs        \* [chunk, least, most, limit, pattern] of a FragmentedConn

ASSUME WireAssumption ==
  /\ 0 \notin ContentTypes
  /\ \A c \in Configs : c.chunk > 0

Authority == ":authority"

VARIABLES
  lines, order, rewritten,      \* ReorderHeaders: input and output
  config, buffer, sofar,        \* a Write under way and the bytes of it written
  limited,                      \* limitExceeded, read when it began
  totalWritten,
  wire,                         \* the bytes sent and not yet read
  broken,                       \* the connection has failed
  sendSeq, recvSeq,             \* sequence numbers
  written, readBack             \* history: the records written and read

headerVars == <<lines, order, rewritten>>
wireVars == <<headerVars, config, buffer, sofar, limited, totalWritten, wire, broken,
              sendSeq, recvSeq, written, readBack>>

Unwritten == <<0>>

WireInit ==
  /\ lines \in SeqOf([key : HeaderKeys], MaxLines)
  /\ order \in Orders
  /\ rewritten = Unwritten
  /\ config \in Configs
  /\ buffer = <<>> /\ sofar = 0
  /\ limited = FALSE
  /\ totalWritten = 0
  /\ wire = <<>>
  /\ broken = FALSE
  /\ sendSeq = 0 /\ recvSeq = 0
  /\ written = <<>> /\ readBack = <<>>

Wanted(i, k) == lines[i].key = k \/ (k = Authority /\ lines[i].key = "host")

-----------------------------------------------------------------------------
(* Faulty variants of single steps, which the properties must tell apart    *)
(* from the code.                                                           *)
StripOne(bytes) == Len(bytes) - 1

-----------------------------------------------------------------------------
(* A header line is known by its position; lines without a colon are left   *)
(* out, and so are all beyond the limit.                                    *)
Parsed ==
  LET kept == SelectSeq([i \in DOMAIN lines |-> i], LAMBDA i : lines[i].key # "none")
  IN SubSeq(kept, 1, IF Len(kept) < HeaderLimit THEN Len(kept) ELSE HeaderLimit)

MayWrite(i, done, k) == ~Contains(done, i) /\ Wanted(i, k)

(* Each key of the order takes the first line of its name not yet written.  *)
WriteKey(done, k) ==
  LET hits == {i \in ToSet(Parsed) : MayWrite(i, done, k)}
  IN IF hits = {} THEN done ELSE Append(done, Min(hits))

ReorderHeaders ==
  /\ rewritten = Unwritten
  /\ LET first == FoldLeft(WriteKey, <<>>, order)
     IN rewritten' = first \o SelectSeq(Parsed, LAMBDA i : ~Contains(first, i))
  /\ UNCHANGED <<lines, order, config, buffer, sofar, limited, totalWritten, wire, broken, sendSeq,
                 recvSeq, written, readBack>>

-----------------------------------------------------------------------------
(* A byte on the wire is <<"byte", b>>, the five bytes of a header are      *)
(* <<"header", length>>, and the tag authenticates a sequence number.       *)
Sealed(plain, type, n) ==
  LET inner == plain \o <<type>>
  IN <<<<"header", Len(inner) + Overhead>>>>
     \o [i \in DOMAIN inner |-> <<"byte", inner[i]>>]
     \o [i \in 1..Overhead |-> <<"tag", n>>]

(* WriteRecordScoped, up to the Write of the connection below. *)
WriteRecord(plain, type) ==
  /\ buffer = <<>> /\ ~broken
  /\ Len(written) < MaxRecords
  /\ Len(plain) + 1 + Overhead <= MaxPayload
  /\ buffer' = Sealed(plain, type, sendSeq)
  /\ sofar' = 0
  /\ limited' = (config.limit > 0 /\ totalWritten >= config.limit)
  /\ sendSeq' = sendSeq + 1
  /\ written' = Append(written, <<plain, type>>)
  /\ UNCHANGED <<headerVars, config, totalWritten, wire, broken, recvSeq, readBack>>

(* Where the next chunk of a Write may end: anywhere for the slicer of a    *)
(* pattern, which cuts at most once.                                        *)
ChunkEnds ==
  IF limited \/ (~config.pattern /\ Len(buffer) <= config.chunk) THEN {Len(buffer)}
  ELSE IF config.pattern THEN (IF sofar = 0 THEN 1..Len(buffer) ELSE {Len(buffer)})
  ELSE LET size == IF config.least > 0 /\ config.most > config.least
                     THEN config.least..(config.most - 1) ELSE {config.chunk}
       IN {IF sofar + s < Len(buffer) THEN sofar + s ELSE Len(buffer) : s \in size}

(* FragmentedConn.Write: one chunk.  A failing write may have sent a part.  *)
WriteChunk(end, sent) ==
  /\ buffer # <<>> /\ ~broken
  /\ sent <= end
  /\ wire' = wire \o SubSeq(buffer, sofar + 1, sent)
  /\ broken' = (sent < end)
  /\ sofar' = IF sent = Len(buffer) THEN 0 ELSE sent
  /\ buffer' = IF sent = Len(buffer) THEN <<>> ELSE buffer
  /\ totalWritten' = IF sent = Len(buffer) \/ sent < end THEN totalWritten + sent ELSE totalWritten
  /\ UNCHANGED <<headerVars, config, limited, sendSeq, recvSeq, written, readBack>>

LastNonZero(bytes) == Max({0} \cup {i \in DOMAIN bytes : bytes[i] # 0})

(* ReadRecordScoped, once a whole record is there. *)
ReadRecord ==
  LET length == wire[1][2]
      inner == [i \in 1..(length - Overhead) |-> wire[i + 1][2]]
      pad == LastNonZero(inner)
  IN
  /\ wire # <<>> /\ Len(wire) >= length + 1
  /\ length >= Overhead + 1
  /\ wire[length + 1] = <<"tag", recvSeq>>
  /\ pad > 0
  /\ readBack' = Append(readBack, <<SubSeq(inner, 1, pad - 1), inner[pad]>>)
  /\ recvSeq' = recvSeq + 1
  /\ wire' = SubSeq(wire, length + 2, Len(wire))
  /\ UNCHANGED <<headerVars, config, buffer, sofar, limited, totalWritten, broken, sendSeq, written>>

RecordNext ==
  \/ \E p \in Plaintexts, t \in ContentTypes : WriteRecord(p, t)
  \/ \E end \in ChunkEnds : \E sent \in sofar..end : WriteChunk(end, sent)
  \/ ReadRecord

WireNext == ReorderHeaders \/ RecordNext

WireSpec == WireInit /\ [][WireNext]_wireVars

-----------------------------------------------------------------------------
FirstOfName(i) == \A h \in 1..(i - 1) : lines[h].key # lines[i].key

(* Reordering loses and doubles no header line (up to the limit, and of     *)
(* those that have a name), leaves lines of one name in their order, and    *)
(* puts before the first line of a name the order has only lines of names   *)
(* the order has no later; and                                              *)
(* however writes are cut and wherever the connection fails, the reader     *)
(* gets the records that were written, in order and byte for byte, also     *)
(* when they are empty or end in zeros, and each as soon as all of its      *)
(* bytes are there.                                                         *)
WireKeepsAll ==
  /\ rewritten # Unwritten =>
       /\ ToSet(rewritten) = ToSet(Parsed) /\ IsInjective(rewritten)
       /\ \A i, j \in DOMAIN rewritten : i < j =>
            /\ lines[rewritten[i]].key = lines[rewritten[j]].key => rewritten[i] < rewritten[j]
            /\ \A m \in DOMAIN order :
                 Wanted(rewritten[j], order[m]) /\ FirstOfName(rewritten[j])
                 => \E n \in 1..m : Wanted(rewritten[i], order[n])
  /\ IsPrefix(readBack, written)
  /\ buffer = <<>> /\ wire = <<>> => readBack = written
  /\ wire # <<>> /\ Len(wire) > wire[1][2] => ENABLED ReadRecord
=============================================================================
