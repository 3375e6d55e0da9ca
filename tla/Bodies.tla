------------------------------- MODULE Bodies -------------------------------
(***************************************************************************)
(* Request bodies: the modifiers that set them (mod/body.go,               *)
(* mod/multipart.go, internal/core/modifier.go), the GetBody each leaves    *)
(* behind (internal/std/request.go), the pool of multipart buffers, and    *)
(* the rewinding before a request is sent again (middleware/retry.go).     *)
(* What a body holds is known by the request and the position of the       *)
(* modifier that gave it.                                                  *)
(***************************************************************************)
EXTENDS Naturals, Sequences, FiniteSets

CONSTANTS
  Posts,       \* requests with a body
  Arguments,   \* body arguments of the typed calls
  Modifiers,   \* sequences of body modifiers given with them
  Ways,        \* "std" (ApplyStd, for client.Request) or "adapter" (Apply)
  Buffers,     \* multipart buffers
  MaxSends     \* bound on the sends of a request

(* "bytes": any encoded value; "reader": a plain io.Reader; "seeker": one   *)
(* that seeks, as *bytes.Reader; "file": one that seeks and closes;         *)
(* "rewinder": a BodyRewinder; "multipart": WithMultipart and               *)
(* WithMultipartFields; "piped": WithStreamingMultipart.                    *)
BodyKinds == {"bytes", "reader", "seeker", "file", "rewinder", "multipart", "piped"}

ASSUME BodiesAssumption ==
  /\ Arguments \subseteq {"none", "null", "value", "buffer", "provider"} \cup BodyKinds
  /\ Modifiers \subseteq Seq(BodyKinds)
  /\ Ways \subseteq {"std", "adapter"} /\ MaxSends \in Nat

(* ValidateAndMarshal: what encodes to nothing is no body; a provider gives *)
(* a reader, a rewinding one too.                                           *)
Marshalled(argument) ==
  CASE argument \in {"none", "null"} -> <<>>
    [] argument \in {"value", "buffer"} -> <<"bytes">>
    [] argument = "provider" -> <<"reader">>
    [] OTHER -> <<argument>>

(* prepareBodyMods uses the bytes or the reader, never the GetBody by which *)
(* ValidateAndMarshal would "preserve reproducible stream reads for         *)
(* retries/hedging" (internal/body/body.go:70).                             *)
PrepareBodyMods(argument, mods) == Marshalled(argument) \o mods

Plans == {PrepareBodyMods(a, mods) : a \in Arguments, mods \in Modifiers} \ {<<>>}

NoBuffer == "none"
NoBody == [kind |-> "none", of |-> 0, left |-> "none", tail |-> FALSE, buf |-> NoBuffer]
NoGetBody == [how |-> "none", body |-> NoBody]

VARIABLES
  plan,       \* the body modifiers of each request
  way, bodyPc,
  applied,    \* how many modifiers have been applied
  content,    \* req.Body: what gave it and how much is left to read
  getBody,    \* req.GetBody
  shut,       \* streams that were closed, as <<post, modifier>>
  bytesOf,    \* whose bytes a buffer holds, as <<post, modifier>>
  inPool,     \* how often a buffer is in multipartBufPool
  writers,    \* goroutines of streamMultipartPayload, as <<post, modifier>>
  posted,     \* how often each request was sent
  wire        \* every send (a ghost)

bodyVars == <<plan, way, bodyPc, applied, content, getBody, shut, bytesOf, inPool, writers,
              posted, wire>>
unsent == <<plan, way, posted, wire>>

BodiesInit ==
  /\ plan \in [Posts -> Plans]
  /\ way \in [Posts -> Ways]
  /\ bodyPc = [p \in Posts |-> "apply"]
  /\ applied = [p \in Posts |-> 0]
  /\ content = [p \in Posts |-> NoBody]
  /\ getBody = [p \in Posts |-> NoGetBody]
  /\ shut = {}
  /\ bytesOf = [b \in Buffers |-> <<>>]
  /\ inPool = [b \in Buffers |-> 0]
  /\ writers = {}
  /\ posted = [p \in Posts |-> 0]
  /\ wire = {}

Ent(f, p, v) == [f EXCEPT ![p] = v]

Unread(kind, i) == [kind |-> kind, of |-> i, left |-> "whole", tail |-> FALSE, buf |-> NoBuffer]

-----------------------------------------------------------------------------
(* Faulty variants of single steps, which the properties must tell apart    *)
(* from the code.                                                           *)
KeepGetBody(p) == getBody[p]

-----------------------------------------------------------------------------
(* The next modifier of a request and, after the last, its state. *)
Upcoming(p) == plan[p][applied[p] + 1]

Advance(p) ==
  /\ bodyPc[p] = "apply"
  /\ applied' = Ent(applied, p, applied[p] + 1)
  /\ bodyPc' = IF applied[p] + 1 = Len(plan[p]) THEN Ent(bodyPc, p, "ready") ELSE bodyPc

(* SetBodyBytes, and ModBodyBytes of ApplyStd. *)
SetBodyBytes(p) ==
  LET bytes == Unread("bytes", applied[p] + 1) IN
  /\ Advance(p)
  /\ Upcoming(p) = "bytes"
  /\ content' = Ent(content, p, bytes)
  /\ getBody' = Ent(getBody, p, [how |-> "fresh", body |-> bytes])
  /\ UNCHANGED <<unsent, shut, bytesOf, inPool, writers>>

(* std.Request.SetBodyStream of what neither seeks nor rewinds. *)
Cleared(p) == NoGetBody

(* The GetBody that std.Request.SetBodyStream leaves. *)
StreamGetBody(p, stream) ==
  CASE stream.kind \in {"seeker", "file", "multipart"} -> [how |-> "seek", body |-> stream]
    [] stream.kind = "rewinder" -> [how |-> "fresh", body |-> stream]
    [] OTHER -> Cleared(p)

(* The GetBody that stdReqAdapter.SetBodyStream leaves. *)
AdapterGetBody(p, stream) ==
  IF stream.kind \in {"seeker", "file", "multipart"} THEN [how |-> "seek", body |-> stream]
  ELSE getBody[p]

(* WithBody: Apply sets the stream, ApplyStd only Body and its length. *)
SetBodyStream(p) ==
  LET stream == Unread(Upcoming(p), applied[p] + 1) IN
  /\ Advance(p)
  /\ stream.kind \in {"reader", "seeker", "file", "rewinder"}
  /\ content' = Ent(content, p, stream)
  /\ getBody' = IF way[p] = "std" THEN getBody ELSE Ent(getBody, p, StreamGetBody(p, stream))
  /\ UNCHANGED <<unsent, shut, bytesOf, inPool, writers>>

(* multipartBufPool.Get.  A form that outgrew its buffer would move to new  *)
(* memory; the forms here all fit.                                          *)
Takes(b) == inPool[b] > 0 \/ bytesOf[b] = <<>>

(* WithMultipart and WithMultipartFields: SetBodyBytes and then             *)
(* SetBodyStream of the reader that puts the buffer back when closed.       *)
WithMultipart(p, b) ==
  LET stream == [Unread("multipart", applied[p] + 1) EXCEPT !.buf = b] IN
  /\ Advance(p)
  /\ Upcoming(p) = "multipart"
  /\ Takes(b)
  /\ inPool' = Ent(inPool, b, IF inPool[b] > 0 THEN inPool[b] - 1 ELSE 0)
  /\ bytesOf' = Ent(bytesOf, b, <<p, stream.of>>)
  /\ content' = Ent(content, p, stream)
  /\ getBody' = Ent(getBody, p, StreamGetBody(p, stream))
  /\ UNCHANGED <<unsent, shut, writers>>

(* A part cannot be read: BodyError ends the request, and the buffer is not *)
(* put back.                                                                *)
MultipartFails(p, b) ==
  /\ bodyPc[p] = "apply"
  /\ Upcoming(p) = "multipart"
  /\ Takes(b)
  /\ inPool' = Ent(inPool, b, IF inPool[b] > 0 THEN inPool[b] - 1 ELSE 0)
  /\ bytesOf' = Ent(bytesOf, b, <<p, 0>>)
  /\ bodyPc' = Ent(bodyPc, p, "failed")
  /\ UNCHANGED <<unsent, applied, content, getBody, shut, writers>>

(* WithStreamingMultipart: streamMultipartPayload waits for a reader. *)
WithStreamingMultipart(p) ==
  LET stream == Unread("piped", applied[p] + 1) IN
  /\ Advance(p)
  /\ Upcoming(p) = "piped"
  /\ writers' = writers \cup {<<p, stream.of>>}
  /\ content' = Ent(content, p, stream)
  /\ getBody' = Ent(getBody, p, IF way[p] = "std" THEN AdapterGetBody(p, stream)
                                ELSE StreamGetBody(p, stream))
  /\ UNCHANGED <<unsent, shut, bytesOf, inPool>>

-----------------------------------------------------------------------------
(* The engine reads the body, all of it or until the connection breaks, and *)
(* closes it: a buffer goes back to the pool, a file or pipe is gone, and   *)
(* the wrapper of a plain reader does nothing.  The end of a pipe, read or  *)
(* closed, ends its goroutine.                                              *)
BeginSend(p) ==
  /\ bodyPc[p] = "ready"
  /\ bodyPc' = Ent(bodyPc, p, "sending")
  /\ UNCHANGED <<unsent, applied, content, getBody, shut, bytesOf, inPool, writers>>

ClosesStream(kind) == kind \in {"file", "rewinder", "piped"}

PutBack(p) ==
  IF content[p].kind # "multipart" THEN inPool
  ELSE [inPool EXCEPT ![content[p].buf] = @ + 1]

EndSend(p, left, outcome) ==
  LET b == content[p]
      id == <<p, b.of>>
  IN
  /\ bodyPc[p] = "sending"
  /\ left = "part" => outcome = "broken"
  /\ posted' = Ent(posted, p, posted[p] + 1)
  /\ wire' = wire \cup
       {[post |-> p, of |-> b.of, again |-> posted[p] > 0,
         own |-> b.kind = "multipart" => bytesOf[b.buf] = id,
         cut |-> b.left # "whole" \/ b.tail]}
  /\ content' = [content EXCEPT ![p].left = left]
  /\ inPool' = PutBack(p)
  /\ shut' = IF ClosesStream(b.kind) THEN shut \cup {id} ELSE shut
  /\ writers' = writers \ {id}
  /\ bodyPc' = Ent(bodyPc, p, CASE outcome = "answered" -> "done"
                                [] outcome # "answered" /\ posted[p] + 1 < MaxSends -> "rewind"
                                [] OTHER -> "failed")
  /\ UNCHANGED <<plan, way, applied, getBody, bytesOf>>

(* rewindRequestBody: GetBody, or what BodyBytes still reads of a body that *)
(* was not closed, which is kept for the sends after this one.              *)
CanSeek(p) == <<p, getBody[p].body.of>> \notin shut \/ getBody[p].body.kind # "file"

RestOf(p) ==
  [Unread("bytes", content[p].of) EXCEPT !.tail = content[p].tail \/ content[p].left # "whole"]

Rewind(p) ==
  /\ bodyPc[p] = "rewind"
  /\ CASE getBody[p].how = "fresh" ->
            /\ content' = Ent(content, p, getBody[p].body)
            /\ bodyPc' = Ent(bodyPc, p, "ready")
            /\ UNCHANGED getBody
       [] getBody[p].how = "seek" /\ CanSeek(p) ->
            /\ content' = Ent(content, p, getBody[p].body)
            /\ bodyPc' = Ent(bodyPc, p, "ready")
            /\ UNCHANGED getBody
       [] getBody[p].how = "none" /\ content[p].left # "none" /\ <<p, content[p].of>> \notin shut ->
            /\ content' = Ent(content, p, RestOf(p))
            /\ getBody' = Ent(getBody, p, [how |-> "fresh", body |-> RestOf(p)])
            /\ bodyPc' = Ent(bodyPc, p, "ready")
       [] OTHER ->   \* the error of Seek, or ErrCannotRewind
            /\ bodyPc' = Ent(bodyPc, p, "failed")
            /\ UNCHANGED <<content, getBody>>
  /\ UNCHANGED <<unsent, applied, shut, bytesOf, inPool, writers>>

BodiesNext ==
  \E p \in Posts :
    \/ SetBodyBytes(p) \/ SetBodyStream(p) \/ WithStreamingMultipart(p)
    \/ \E b \in Buffers : WithMultipart(p, b) \/ MultipartFails(p, b)
    \/ BeginSend(p)
    \/ \E left \in {"part", "none"}, outcome \in {"answered", "broken"} : EndSend(p, left, outcome)
    \/ Rewind(p)

BodiesSpec == BodiesInit /\ [][BodiesNext]_bodyVars

-----------------------------------------------------------------------------
Several(p) == Len(plan[p]) > 1

(* A multipart body was closed twice, so that its buffer can be taken by    *)
(* two requests.                                                            *)
Replayed == \E s \in wire : s.again /\ plan[s.post][s.of] = "multipart"

(* What goes out is what the last modifier gave, whole and in the request's *)
(* own bytes, however often requests are sent again and buffers change      *)
(* hands, but for three cases the code does not keep apart: ApplyStd leaves *)
(* the GetBody of an earlier modifier, the rest of a plain reader is taken  *)
(* for its whole, and a replayed multipart reads a buffer it has put back.  *)
BodiesAreOwn ==
  \A s \in wire :
    /\ s.of = Len(plan[s.post]) \/ (s.again /\ way[s.post] = "std" /\ Several(s.post))
    /\ s.cut => s.again /\ plan[s.post][s.of] \in {"reader", "seeker"}
    /\ s.own \/ Replayed

(* "rewinds a request body stream before replaying it in an automated       *)
(* retry" (middleware/retry.go:387): the three cases excepted above.        *)
ReplayIsOwn == \A s \in wire : s.of = Len(plan[s.post]) /\ ~s.cut /\ s.own

(* "streaming multipart/form-data via an asynchronous pipe"                 *)
(* (mod/multipart.go:185): a pipe that is replaced or whose request ends    *)
(* before it is sent keeps its goroutine.                                   *)
WritersEnd == \A p \in Posts : bodyPc[p] \in {"done", "failed"} => \A w \in writers : w[1] # p
=============================================================================
