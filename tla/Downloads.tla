------------------------------ MODULE Downloads ------------------------------
(***************************************************************************)
(* Downloads to a file: DownloadTask (realtime/stream/download.go), which  *)
(* is executed again and again until it completes and keeps a checkpoint   *)
(* between the executions, and Downloader (internal/download/download.go), *)
(* which retries within one call.  The file, the checkpoint and the        *)
(* server's resource outlive a crash of the process.  A file is a sequence *)
(* of <<version, block>> pairs.                                            *)
(***************************************************************************)
EXTENDS Naturals, Sequences

CONSTANTS
  SizeOf,        \* the blocks of each version of the resource
  Probes,        \* answers to the probe: "etag", "bare" (no ETag) or "error"
  Faults,        \* of "cancel", "read", "write", "status", "crash"
  MaxRuns,       \* bound on the executions of the task
  MaxAttempts0   \* attempts of Downloader

ASSUME DownloadAssumption ==
  MaxRuns \in Nat /\ MaxAttempts0 \in Nat /\ SizeOf \in Seq(Nat) /\ SizeOf # <<>>

NoTag == 0
NoCheckpoint == [etag |-> NoTag, bytes |-> 0, there |-> FALSE]

VARIABLES
  current,     \* the version the server holds
  file,        \* the destination
  checkpoint,  \* the checkpoint file
  dpc,         \* idle, probe, fetch or copy
  tag,         \* etag of the probe
  start,       \* startBytes
  source,      \* the version the response carries, 0 for an error page
  offset,      \* blocks of it read
  done,        \* downloaded
  result,      \* what the last execution returned
  hurt,        \* what resumption is not proof against has happened (a ghost)
  runs,        \* executions so far
  job, tried, copy, reply   \* Downloader: state, attempts, file, last response

taskVars == <<current, file, checkpoint, dpc, tag, start, source, offset, done, result, hurt, runs>>
jobVars == <<job, tried, copy, reply>>
downloadVars == <<taskVars, jobVars>>

Whole(v) == [i \in 1..SizeOf[v] |-> <<v, i>>]

DownloadInit ==
  /\ current = 1 /\ file = <<>> /\ checkpoint = NoCheckpoint
  /\ dpc = "idle" /\ tag = NoTag /\ start = 0 /\ source = 0 /\ offset = 0 /\ done = 0
  /\ result = "none" /\ hurt = FALSE /\ runs = 0
  /\ job = "request" /\ tried = 0 /\ copy = <<>> /\ reply = "none"

-----------------------------------------------------------------------------
(* Faulty variants of single steps, which the properties must tell apart    *)
(* from the code.                                                           *)
TrustAlways(etag) == checkpoint.there

-----------------------------------------------------------------------------
(* The checkpoint counts if no ETag contradicts it. *)
Trusts(etag) == checkpoint.there /\ (etag = NoTag \/ checkpoint.etag = etag)

(* Execute, up to the open file: O_APPEND to resume, else O_TRUNC. *)
BeginTask ==
  /\ dpc = "idle" /\ runs < MaxRuns
  /\ dpc' = "probe" /\ runs' = runs + 1 /\ result' = "none"
  /\ UNCHANGED <<current, file, checkpoint, tag, start, source, offset, done, hurt>>

Probe(answer) ==
  LET etag == IF answer = "etag" THEN current ELSE NoTag
      from == IF Trusts(etag) THEN checkpoint.bytes ELSE 0
  IN
  /\ dpc = "probe"
  /\ IF answer = "error"
       THEN /\ dpc' = "idle" /\ result' = "error"
            /\ UNCHANGED <<file, tag, start, hurt>>
       ELSE /\ dpc' = "fetch" /\ tag' = etag /\ start' = from
            /\ file' = IF from > 0 THEN file ELSE <<>>
            /\ hurt' = (hurt \/ (from > 0 /\ etag = NoTag))
            /\ UNCHANGED result
  /\ UNCHANGED <<current, checkpoint, source, offset, done, runs>>

(* The answers to the GET: with Range the rest, if If-Range does not        *)
(* forbid it; a server may always send the whole.                           *)
AnswerPartial ==
  /\ dpc = "fetch"
  /\ start > 0 /\ start < SizeOf[current]
  /\ tag \in {NoTag, current}
  /\ source' = current /\ offset' = start /\ done' = start /\ dpc' = "copy"
  /\ UNCHANGED <<current, file, checkpoint, tag, start, result, hurt, runs>>

AnswerWhole ==
  /\ dpc = "fetch"
  /\ source' = current /\ offset' = 0 /\ done' = 0 /\ start' = 0 /\ dpc' = "copy"
  /\ file' = IF start > 0 THEN <<>> ELSE file
  /\ UNCHANGED <<current, checkpoint, tag, result, hurt, runs>>

AnswerUnsatisfiable ==
  /\ dpc = "fetch"
  /\ start > 0 /\ start >= SizeOf[current]
  /\ tag \in {NoTag, current}
  /\ dpc' = "idle" /\ result' = "unsatisfiable"
  /\ UNCHANGED <<current, file, checkpoint, tag, start, source, offset, done, hurt, runs>>

(* Any other status is taken for the data that was asked for. *)
AnswerError ==
  /\ dpc = "fetch" /\ "status" \in Faults
  /\ source' = 0 /\ offset' = 0 /\ done' = start /\ dpc' = "copy"
  /\ hurt' = TRUE
  /\ UNCHANGED <<current, file, checkpoint, tag, start, result, runs>>

FetchFails ==
  /\ dpc = "fetch"
  /\ dpc' = "idle" /\ result' = "error"
  /\ UNCHANGED <<current, file, checkpoint, tag, start, source, offset, done, hurt, runs>>

-----------------------------------------------------------------------------
Remaining == IF source = 0 THEN 1 - offset ELSE SizeOf[source] - offset

SaveCheckpoint(bytes) == checkpoint' = [etag |-> tag, bytes |-> bytes, there |-> TRUE]

(* One pass of the loop: a block is read and written, and a checkpoint is   *)
(* saved if the last one is five seconds old.                               *)
CopyBlock(periodic) ==
  /\ dpc = "copy" /\ Remaining > 0
  /\ file' = Append(file, <<source, offset + 1>>)
  /\ offset' = offset + 1 /\ done' = done + 1
  /\ IF periodic THEN SaveCheckpoint(done + 1) ELSE UNCHANGED checkpoint
  /\ UNCHANGED <<current, dpc, tag, start, source, result, hurt, runs>>

(* A cancelled context or a failing read leaves a checkpoint, a failing     *)
(* write does not.                                                          *)
Interrupted ==
  /\ dpc = "copy" /\ {"cancel", "read"} \cap Faults # {}
  /\ SaveCheckpoint(done)
  /\ dpc' = "idle" /\ result' = "error"
  /\ UNCHANGED <<current, file, tag, start, source, offset, done, hurt, runs>>

WriteFails ==
  /\ dpc = "copy" /\ Remaining > 0 /\ "write" \in Faults
  /\ dpc' = "idle" /\ result' = "error"
  /\ hurt' = TRUE
  /\ UNCHANGED <<current, file, checkpoint, tag, start, source, offset, done, runs>>

(* io.EOF: clearCheckpoint. *)
CopyEnds ==
  /\ dpc = "copy" /\ Remaining = 0
  /\ checkpoint' = NoCheckpoint
  /\ dpc' = "idle" /\ result' = "ok"
  /\ UNCHANGED <<current, file, tag, start, source, offset, done, hurt, runs>>

(* The process ends, perhaps while WriteFile has truncated the checkpoint,  *)
(* which loadCheckpoint then does not decode.                               *)
Crash(torn) ==
  /\ dpc # "idle" /\ "crash" \in Faults
  /\ torn => dpc = "copy"
  /\ checkpoint' = IF torn THEN NoCheckpoint ELSE checkpoint
  /\ dpc' = "idle" /\ result' = "crashed"
  /\ hurt' = TRUE
  /\ UNCHANGED <<current, file, tag, start, source, offset, done, runs>>

(* The resource changes on the server. *)
Publish ==
  /\ current < Len(SizeOf)
  /\ current' = current + 1
  /\ UNCHANGED <<file, checkpoint, dpc, tag, start, source, offset, done, result, hurt, runs>>

TaskStep ==
  \/ BeginTask \/ AnswerPartial \/ AnswerWhole \/ AnswerUnsatisfiable \/ AnswerError
  \/ FetchFails \/ Interrupted \/ WriteFails \/ CopyEnds \/ Publish
  \/ \E answer \in Probes : Probe(answer)
  \/ \E b \in BOOLEAN : CopyBlock(b) \/ Crash(b)

-----------------------------------------------------------------------------
(* Downloader.Execute: a connection error or a 5xx is tried again, a 4xx is *)
(* returned with its body open, else the body goes to the file.             *)
Retried(outcome) ==
  /\ tried' = tried + 1
  /\ job' = IF tried + 1 = MaxAttempts0 THEN "failed" ELSE "sleep"
  /\ reply' = outcome

JobFails(status) ==
  /\ job = "request"
  /\ Retried(IF status = "5xx" THEN "closed" ELSE reply)
  /\ UNCHANGED copy

JobRefused ==
  /\ job = "request"
  /\ job' = "refused" /\ reply' = "open"
  /\ UNCHANGED <<tried, copy>>

(* saveResponseBodyToFile: os.Create, then the copy, which may end early.   *)
Written(v) == Whole(v)

JobSaves(v, n) ==
  /\ job = "request" /\ n <= SizeOf[v]
  /\ copy' = IF n = SizeOf[v] THEN Written(v) ELSE SubSeq(Written(v), 1, n)
  /\ IF n = SizeOf[v]
       THEN job' = "ok" /\ reply' = "closed" /\ UNCHANGED tried
       ELSE Retried(reply)

(* sleepWithContext *)
JobSleeps ==
  /\ job = "sleep" /\ job' = "request"
  /\ UNCHANGED <<tried, copy, reply>>

JobCancelled ==
  /\ job = "sleep" /\ job' = "failed" /\ reply' = "none"
  /\ UNCHANGED <<tried, copy>>

JobStep ==
  \/ \E status \in {"none", "5xx"} : JobFails(status)
  \/ JobRefused \/ JobSleeps \/ JobCancelled
  \/ \E v \in DOMAIN SizeOf : \E n \in 0..SizeOf[v] : JobSaves(v, n)

DownloadNext ==
  \/ TaskStep /\ UNCHANGED jobVars
  \/ JobStep /\ UNCHANGED taskVars

DownloadSpec == DownloadInit /\ [][DownloadNext]_downloadVars

-----------------------------------------------------------------------------
(* A download that reports success has the file hold one version of the     *)
(* resource, whole and once: through any number of executions that are      *)
(* cancelled or break off and are resumed while the resource changes, and   *)
(* through the retries of Downloader, which leaves no response open but a   *)
(* refusal's.  Not so after a crash, a failed write, an error status or a   *)
(* resumption without an ETag.                                              *)
OneVersionInFile ==
  /\ result = "ok" /\ ~hurt => \E v \in DOMAIN SizeOf : file = Whole(v)
  /\ job = "ok" => \E v \in DOMAIN SizeOf : copy = Whole(v)
  /\ reply = "open" => job = "refused"

-----------------------------------------------------------------------------
(* "WithCheckpoint configures atomic progress checkpointing to allow        *)
(* seamless resumption" (realtime/stream/download.go:88).                   *)
SeamlessResumption ==
  result = "ok" => \E v \in DOMAIN SizeOf : file = Whole(v)
=============================================================================
