--------------------------- MODULE Client_proofs ---------------------------
(***************************************************************************)
(* Proofs about the client side: the pooled request builders with the      *)
(* forms of call around them, the fast client's redirects and pooled       *)
(* adapters, and clients derived from each other, whose slices share no    *)
(* array of middlewares.                                                   *)
(***************************************************************************)
EXTENDS MCClient, SequenceTheorems, FiniteSetTheorems, TLAPS

(* A set of at most one member has at most one. *)
LEMMA AtMostOne ==
  ASSUME NEW S, \A x, y \in S : x = y
  PROVE  /\ Cardinality(S) \in Nat /\ Cardinality(S) <= 1
         /\ S = {} => Cardinality(S) = 0
  <1>1. CASE S = {}
    BY <1>1, FS_EmptySet
  <1>2. CASE S # {}
    <2>1. PICK x : S = {x}
      BY <1>2
    <2>2. Cardinality({x}) = 1
      BY FS_Singleton
    <2> QED
      BY <1>2, <2>1, <2>2
  <1> QED
    BY <1>1, <1>2

-----------------------------------------------------------------------------
(* The request builders. *)

BuilderType ==
  /\ form \in [Users -> WithBuilder \cup Decoding]
  /\ DOMAIN wish = Users
  /\ bpc \in [Users -> {"start", "set", "execute", "sent", "returned"}]
  /\ held \in [Users -> Builders \cup {NoBuilder}]
  /\ DOMAIN fields = Builders /\ DOMAIN consumed = Builders /\ free \in [Builders -> {0, 1}]
  /\ DOMAIN carried = Users /\ DOMAIN body = Users /\ DOMAIN gave = Users
  /\ collected \subseteq Batch

(* A builder is in the pool, with one user, or nowhere yet. *)
Pooled ==
  /\ \A u, v \in Users : held[u] = held[v] /\ held[u] # NoBuilder => u = v
  /\ \A u \in Users, b \in Builders : held[u] = b => free[b] = 0
  /\ \A b \in Builders : (\A u \in Users : held[u] # b) => fields[b] = {}

(* Only a raw call and a drain take validators, and calls without a builder  *)
(* only modifiers.                                                           *)
Wished(u) ==
  /\ form[u] \notin {"raw", "drain"} =>
       "validator" \notin wish[u] /\ "expect" \notin wish[u] /\ "sink" \notin wish[u]
  /\ u \in Batch => form[u] = "to"

(* What a builder holds is what its user has set. *)
OwnBuilder(u) ==
  /\ bpc[u] \in {"start", "set", "execute"} => carried[u] = {}
  /\ bpc[u] \in {"start", "returned"} => held[u] = NoBuilder
  /\ bpc[u] = "set" => held[u] \in Builders /\ fields[held[u]] = {} /\ ~consumed[held[u]]
  /\ bpc[u] = "execute" =>
       held[u] \in Builders /\ fields[held[u]] = Settings(u) /\ ~consumed[held[u]]
  /\ bpc[u] = "sent" =>
       /\ carried[u] = Settings(u)
       /\ held[u] # NoBuilder => fields[held[u]] = Settings(u)
  /\ bpc[u] = "returned" => carried[u] \in {{}, Settings(u)}

(* A response is closed or handed out. *)
BodySettled(u) ==
  /\ bpc[u] # "returned" => body[u] = "none"
  /\ bpc[u] = "returned" /\ form[u] # "result" => (body[u] = "open" <=> gave[u] = "response")
  /\ bpc[u] = "returned" /\ form[u] = "to" => body[u] # "open"
  /\ u \in collected => bpc[u] = "returned"

UserInv(u) == Wished(u) /\ OwnBuilder(u) /\ BodySettled(u)

BuilderInv == BuilderType /\ Pooled /\ \A u \in Users : UserInv(u)

LEMMA BuilderStarts == BuilderInit => BuilderInv
  <1> SUFFICES ASSUME BuilderInit PROVE BuilderInv
    OBVIOUS
  <1>1. BuilderType
    BY FormsAssumption DEF BuilderInit, BuilderType
  <1>2. Pooled
    BY DEF BuilderInit, Pooled, NoBuilder
  <1>3. ASSUME NEW u \in Users PROVE UserInv(u)
    <2>1. Wished(u)
      BY DEF BuilderInit, Wished
    <2> QED
      BY <2>1 DEF BuilderInit, UserInv, OwnBuilder, BodySettled
  <1> QED
    BY <1>1, <1>2, <1>3 DEF BuilderInv

(* A step of one user leaves what is said of the others. *)
Untouched(u) ==
  /\ form' = form /\ wish' = wish
  /\ \A v \in Users \ {u} :
       /\ bpc'[v] = bpc[v] /\ held'[v] = held[v] /\ carried'[v] = carried[v] /\ body'[v] = body[v]
       /\ gave'[v] = gave[v] /\ (v \in collected' <=> v \in collected)
       /\ held[v] # NoBuilder =>
            fields'[held[v]] = fields[held[v]] /\ consumed'[held[v]] = consumed[held[v]]

LEMMA OtherUsersInv ==
  ASSUME BuilderInv, NEW u \in Users, Untouched(u)
  PROVE  \A v \in Users \ {u} : UserInv(v)'
  <1> SUFFICES ASSUME NEW v \in Users \ {u} PROVE UserInv(v)'
    OBVIOUS
  <1>1. /\ form' = form /\ wish' = wish
        /\ bpc'[v] = bpc[v] /\ held'[v] = held[v] /\ carried'[v] = carried[v] /\ body'[v] = body[v]
        /\ gave'[v] = gave[v] /\ (v \in collected' <=> v \in collected)
        /\ held[v] # NoBuilder =>
             fields'[held[v]] = fields[held[v]] /\ consumed'[held[v]] = consumed[held[v]]
    BY DEF Untouched
  <1>2. UserInv(v) /\ Settings(v)' = Settings(v) /\ (held[v] \in Builders => held[v] # NoBuilder)
    BY <1>1, FormsAssumption DEF BuilderInv, Settings
  <1>3. Wished(v)'
    BY <1>1, <1>2 DEF UserInv, Wished
  <1>4. OwnBuilder(v)'
    BY <1>1, <1>2 DEF UserInv, OwnBuilder
  <1>5. BodySettled(v)'
    BY <1>1, <1>2 DEF UserInv, BodySettled
  <1> QED
    BY <1>3, <1>4, <1>5 DEF UserInv

UserKeeps(u) == BuilderType' /\ Pooled' /\ Untouched(u) /\ UserInv(u)'

(* Release: the builder is empty in the pool, or there was none. *)
LEMMA Recycling ==
  ASSUME BuilderInv, NEW u \in Users, Recycled(u)
  PROVE  /\ held' \in [Users -> Builders \cup {NoBuilder}] /\ held'[u] = NoBuilder
         /\ DOMAIN fields' = Builders /\ DOMAIN consumed' = Builders /\ free' \in [Builders -> {0, 1}]
         /\ \A v \in Users \ {u} :
              /\ held'[v] = held[v]
              /\ held[v] # NoBuilder =>
                   fields'[held[v]] = fields[held[v]] /\ consumed'[held[v]] = consumed[held[v]]
         /\ Pooled'
  <1>0. BuilderType /\ Pooled
    BY DEF BuilderInv
  <1>1. CASE held[u] = NoBuilder
    <2>1. UNCHANGED <<fields, free, held, consumed>>
      BY <1>1 DEF Recycled
    <2> QED
      BY <1>0, <1>1, <2>1 DEF BuilderType, Pooled
  <1>2. CASE held[u] # NoBuilder
    <2> DEFINE b == held[u]
    <2>1. b \in Builders /\ free[b] = 0 /\ \A v \in Users \ {u} : held[v] # b
      BY <1>0, <1>2 DEF BuilderType, Pooled
    <2> HIDE DEF b
    <2>2. /\ fields' = [fields EXCEPT ![b] = {}] /\ consumed' = [consumed EXCEPT ![b] = TRUE]
          /\ free' = [free EXCEPT ![b] = @ + 1] /\ held' = [held EXCEPT ![u] = NoBuilder]
      BY <1>2 DEF Recycled, Reset, b
    <2>3. /\ held' \in [Users -> Builders \cup {NoBuilder}] /\ held'[u] = NoBuilder
          /\ \A v \in Users \ {u} : held'[v] = held[v]
      BY <1>0, <2>2 DEF BuilderType
    <2>4. /\ DOMAIN fields' = Builders /\ DOMAIN consumed' = Builders /\ fields'[b] = {}
          /\ \A d \in Builders \ {b} : fields'[d] = fields[d] /\ consumed'[d] = consumed[d]
      BY <1>0, <2>1, <2>2 DEF BuilderType
    <2>5. free' \in [Builders -> {0, 1}] /\ \A d \in Builders \ {b} : free'[d] = free[d]
      BY <1>0, <2>1, <2>2 DEF BuilderType
    <2>6. \A v \in Users \ {u} : held[v] # NoBuilder => held[v] \in Builders \ {b}
      BY <1>0, <2>1 DEF BuilderType
    <2>7. Pooled'
      <3>1. \A v, w \in Users : held'[v] = held'[w] /\ held'[v] # NoBuilder => v = w
        BY <1>0, <2>3 DEF Pooled
      <3>2. \A v \in Users, d \in Builders : held'[v] = d => free'[d] = 0
        BY <1>0, <2>1, <2>3, <2>5, FormsAssumption DEF Pooled
      <3>3. \A d \in Builders : (\A v \in Users : held'[v] # d) => fields'[d] = {}
        <4> SUFFICES ASSUME NEW d \in Builders, \A v \in Users : held'[v] # d, d # b PROVE fields'[d] = {}
          BY <2>4
        <4>1. \A v \in Users : held[v] # d
          BY <2>3 DEF b
        <4> QED
          BY <1>0, <2>4, <4>1 DEF Pooled
      <3> QED
        BY <3>1, <3>2, <3>3 DEF Pooled
    <2> QED
      BY <2>3, <2>4, <2>5, <2>6, <2>7
  <1> QED
    BY <1>1, <1>2

(* What ends a call with a response: the form decides who closes it.         *)
LEMMA Responding ==
  ASSUME BuilderInv, NEW u \in Users, NEW a \in Answers, NEW refuses \in BOOLEAN, Respond(u, a, refuses)
  PROVE  /\ bpc[u] = "sent"
         /\ form[u] # "result" => (body'[u] = "open" <=> gave'[u] = "response")
         /\ form[u] = "to" => body'[u] # "open"
  <1> DEFINE rejected == Rejected(u, a, refuses)
  <1> DEFINE handled == form[u] \in Decoding /\ ~rejected /\ ~Has(u, "sink")
  <1> DEFINE failed == handled /\ HandleFails(a)
  <1> DEFINE closed == \/ handled /\ HandleCloses(u)
                       \/ ClosesAfter(u) /\ ~(form[u] = "scoped" /\ (rejected \/ failed))
                       \/ ClosesOnError(u) /\ failed
  <1> DEFINE given == IF rejected THEN IF form[u] = "raw" THEN "response" ELSE "error"
                    ELSE IF failed THEN IF form[u] = "either" /\ a.status = "4xx" THEN "value" ELSE "error"
                    ELSE IF form[u] \in {"raw", "ex"} THEN "response" ELSE "value"
  <1>1. /\ bpc[u] = "sent" /\ BuilderType /\ Wished(u) /\ OwnBuilder(u)
        /\ body' = [body EXCEPT ![u] = IF closed THEN "closed" ELSE "open"]
        /\ gave' = [gave EXCEPT ![u] = given]
    BY DEF Respond, BuilderInv, UserInv
  <1>2. body'[u] = (IF closed THEN "closed" ELSE "open") /\ gave'[u] = given
    BY <1>1 DEF BuilderType
  <1>3. ASSUME NEW f, form[u] \notin {"raw", "drain"}, f \in {"validator", "expect", "sink"} PROVE ~Has(u, f)
    <2> SUFFICES ASSUME held[u] # NoBuilder, NEW v \in Users, <<f, v>> \in fields[held[u]] PROVE FALSE
      BY DEF Has
    <2>1. <<f, v>> \in Settings(u)
      BY <1>1 DEF OwnBuilder
    <2>2. f \in wish[u]
      BY <2>1 DEF Settings
    <2> QED
      BY <1>1, <1>3, <2>2 DEF Wished
  <1>4. form[u] \notin {"raw", "drain"} => ~rejected /\ (form[u] \in Decoding => handled)
    BY <1>3 DEF Rejected
  <1>5. form[u] \in WithBuilder \cup Decoding
    BY <1>1 DEF BuilderType
  <1> HIDE DEF rejected
  <1>6. CASE form[u] = "raw"
    <2>1. ~handled /\ ~failed /\ ~closed
      BY <1>6 DEF Decoding, ClosesAfter, ClosesOnError, Captures
    <2>2. given = "response"
      BY <1>6, <2>1
    <2> QED
      BY <1>1, <1>2, <1>6, <2>1, <2>2
  <1>7. CASE form[u] \in {"to", "drain"}
    <2>1. closed
      BY <1>7 DEF ClosesAfter
    <2>2. given # "response"
      BY <1>7
    <2> QED
      BY <1>1, <1>2, <2>1, <2>2
  <1>8. CASE form[u] \in {"scoped", "either", "into"}
    <2>1. closed
      BY <1>4, <1>8 DEF Decoding, HandleCloses, Captures
    <2>2. given # "response"
      BY <1>8
    <2> QED
      BY <1>1, <1>2, <2>1, <2>2
  <1>9. CASE form[u] = "ex"
    <2>1. handled /\ ~rejected
      BY <1>4, <1>9 DEF Decoding
    <2>2. closed <=> failed
      BY <1>9, <2>1 DEF ClosesAfter, ClosesOnError, HandleCloses, Captures
    <2> HIDE DEF failed, handled
    <2>3. given = "response" <=> ~failed
      <3>1. CASE failed
        BY <1>9, <2>1, <3>1
      <3>2. CASE ~failed
        BY <1>9, <2>1, <3>2
      <3> QED
        BY <3>1, <3>2
    <2>4. CASE failed
      BY <1>1, <1>2, <1>9, <2>2, <2>3, <2>4
    <2>5. CASE ~failed
      BY <1>1, <1>2, <1>9, <2>2, <2>3, <2>5
    <2> QED
      BY <2>4, <2>5
  <1>10. CASE form[u] = "result"
    BY <1>1, <1>10
  <1> QED
    BY <1>5, <1>6, <1>7, <1>8, <1>9, <1>10 DEF WithBuilder, Decoding

LEMMA AcquireKeeps ==
  ASSUME BuilderInv, NEW u \in Users, NEW b \in Builders, Acquire(u, b)
  PROVE  UserKeeps(u)
  <1>0. /\ BuilderType /\ Pooled /\ UserInv(u) /\ b # NoBuilder
        /\ bpc[u] = "start" /\ held[u] = NoBuilder /\ carried[u] = {}
    BY FormsAssumption DEF BuilderInv, Acquire, UserInv, OwnBuilder
  <1>1. \A v \in Users : held[v] # b
    BY <1>0 DEF Acquire, Made, Pooled
  <1>2. free' \in [Builders -> {0, 1}] /\ free'[b] = 0 /\ \A d \in Builders \ {b} : free'[d] = free[d]
    BY <1>0 DEF Acquire, BuilderType
  <1>3. /\ held' \in [Users -> Builders \cup {NoBuilder}] /\ held'[u] = b
        /\ \A v \in Users \ {u} : held'[v] = held[v]
    BY <1>0 DEF Acquire, BuilderType
  <1>4. /\ DOMAIN consumed' = Builders /\ ~consumed'[b] /\ \A d \in Builders \ {b} : consumed'[d] = consumed[d]
        /\ bpc' \in [Users -> {"start", "set", "execute", "sent", "returned"}]
        /\ bpc'[u] = "set" /\ \A v \in Users \ {u} : bpc'[v] = bpc[v]
        /\ UNCHANGED <<form, wish, fields, carried, body, gave, collected>>
    BY <1>0 DEF Acquire, BuilderType
  <1>5. BuilderType'
    BY <1>0, <1>2, <1>3, <1>4 DEF BuilderType
  <1>6. Pooled'
    <2>1. \A v, w \in Users : held'[v] = held'[w] /\ held'[v] # NoBuilder => v = w
      BY <1>0, <1>1, <1>3 DEF Pooled
    <2>2. \A v \in Users, d \in Builders : held'[v] = d => free'[d] = 0
      BY <1>0, <1>1, <1>2, <1>3 DEF Pooled
    <2>3. \A d \in Builders : (\A v \in Users : held'[v] # d) => fields'[d] = {}
      <3> SUFFICES ASSUME NEW d \in Builders, \A v \in Users : held'[v] # d PROVE fields'[d] = {}
        OBVIOUS
      <3>1. \A v \in Users : held[v] # d
        BY <1>0, <1>3, FormsAssumption
      <3> QED
        BY <1>0, <1>4, <3>1 DEF Pooled
    <2> QED
      BY <2>1, <2>2, <2>3 DEF Pooled
  <1>7. Untouched(u)
    <2>1. \A v \in Users \ {u} : held[v] # NoBuilder => held[v] \in Builders \ {b}
      BY <1>0, <1>1 DEF BuilderType
    <2> QED
      BY <1>3, <1>4, <2>1 DEF Untouched
  <1>8. UserInv(u)'
    <2>1. fields[b] = {}
      BY <1>0, <1>1 DEF Pooled
    <2>2. OwnBuilder(u)'
      BY <1>0, <1>3, <1>4, <2>1 DEF OwnBuilder
    <2> QED
      BY <1>0, <1>4, <2>2 DEF UserInv, Wished, BodySettled
  <1> QED
    BY <1>5, <1>6, <1>7, <1>8 DEF UserKeeps

LEMMA ConfigureKeeps ==
  ASSUME BuilderInv, NEW u \in Users, Configure(u)
  PROVE  UserKeeps(u)
  <1>0. /\ BuilderType /\ Pooled /\ UserInv(u) /\ bpc[u] = "set"
        /\ held[u] \in Builders /\ held[u] # NoBuilder /\ fields[held[u]] = {} /\ ~consumed[held[u]]
        /\ carried[u] = {}
    BY FormsAssumption DEF BuilderInv, Configure, UserInv, OwnBuilder
  <1>1. /\ fields' = [fields EXCEPT ![held[u]] = @ \cup Settings(u)]
        /\ bpc' = [bpc EXCEPT ![u] = "execute"]
        /\ UNCHANGED <<form, wish, held, consumed, free, carried, body, gave, collected>>
    BY DEF Configure
  <1>2. /\ DOMAIN fields' = Builders /\ fields'[held[u]] = Settings(u)
        /\ \A d \in Builders \ {held[u]} : fields'[d] = fields[d]
    BY <1>0, <1>1 DEF BuilderType
  <1>3. /\ bpc' \in [Users -> {"start", "set", "execute", "sent", "returned"}]
        /\ bpc'[u] = "execute" /\ \A v \in Users \ {u} : bpc'[v] = bpc[v]
    BY <1>0, <1>1 DEF BuilderType
  <1>4. BuilderType'
    BY <1>0, <1>1, <1>2, <1>3 DEF BuilderType
  <1>5. Pooled'
    BY <1>0, <1>1, <1>2 DEF Pooled
  <1>6. Untouched(u)
    <2>1. \A v \in Users \ {u} : held[v] # NoBuilder => held[v] \in Builders \ {held[u]}
      BY <1>0 DEF BuilderType, Pooled
    <2> QED
      BY <1>1, <1>2, <1>3, <2>1 DEF Untouched
  <1>7. UserInv(u)'
    <2>1. Settings(u)' = Settings(u)
      BY <1>1 DEF Settings
    <2>2. OwnBuilder(u)'
      BY <1>0, <1>1, <1>2, <1>3, <2>1 DEF OwnBuilder
    <2> QED
      BY <1>0, <1>1, <1>3, <2>2 DEF UserInv, Wished, BodySettled
  <1> QED
    BY <1>4, <1>5, <1>6, <1>7 DEF UserKeeps

(* The request goes out, with a builder or without one. *)
LEMMA ExecuteKeeps ==
  ASSUME BuilderInv, NEW u \in Users, Execute(u) \/ FetchDirect(u)
  PROVE  UserKeeps(u)
  <1>0. BuilderType /\ Pooled /\ UserInv(u) /\ bpc[u] \in {"start", "execute"}
    BY DEF BuilderInv, Execute, FetchDirect
  <1>1. /\ carried' = [carried EXCEPT ![u] = Settings(u)]
        /\ held[u] # NoBuilder => fields[held[u]] = Settings(u)
        /\ bpc' = [bpc EXCEPT ![u] = "sent"]
        /\ UNCHANGED <<form, wish, held, fields, free, body, gave, collected>>
    <2>1. CASE Execute(u)
      BY <1>0, <2>1 DEF Execute, UserInv, OwnBuilder
    <2>2. CASE FetchDirect(u)
      BY <1>0, <2>2 DEF FetchDirect, UserInv, OwnBuilder
    <2> QED
      BY <2>1, <2>2
  <1>2. DOMAIN consumed' = Builders /\ \A d \in Builders \ {held[u]} : consumed'[d] = consumed[d]
    BY <1>0 DEF Execute, FetchDirect, BuilderType
  <1>3. /\ bpc' \in [Users -> {"start", "set", "execute", "sent", "returned"}]
        /\ bpc'[u] = "sent" /\ \A v \in Users \ {u} : bpc'[v] = bpc[v]
        /\ DOMAIN carried' = Users /\ carried'[u] = Settings(u)
        /\ \A v \in Users \ {u} : carried'[v] = carried[v]
    BY <1>0, <1>1 DEF BuilderType
  <1>4. BuilderType'
    BY <1>0, <1>1, <1>2, <1>3 DEF BuilderType
  <1>5. Pooled'
    BY <1>0, <1>1 DEF Pooled
  <1>6. Untouched(u)
    <2>1. \A v \in Users \ {u} : held[v] # NoBuilder => held[v] \in Builders \ {held[u]}
      BY <1>0 DEF BuilderType, Pooled
    <2> QED
      BY <1>1, <1>2, <1>3, <2>1 DEF Untouched
  <1>7. UserInv(u)'
    <2>1. Settings(u)' = Settings(u)
      BY <1>1 DEF Settings
    <2>2. OwnBuilder(u)'
      BY <1>1, <1>3, <2>1 DEF OwnBuilder
    <2> QED
      BY <1>0, <1>1, <1>3, <2>2 DEF UserInv, Wished, BodySettled
  <1> QED
    BY <1>4, <1>5, <1>6, <1>7 DEF UserKeeps

(* A call returns: its builder goes back, and its response is settled. *)
LEMMA ReturnKeeps ==
  ASSUME BuilderInv, NEW u \in Users, Recycled(u), bpc[u] \in {"execute", "sent"},
         bpc' = [bpc EXCEPT ![u] = "returned"],
         carried' = carried, carried[u] \in {{}, Settings(u)},
         DOMAIN body' = Users, \A v \in Users \ {u} : body'[v] = body[v],
         DOMAIN gave' = Users, \A v \in Users \ {u} : gave'[v] = gave[v],
         form[u] # "result" => (body'[u] = "open" <=> gave'[u] = "response"),
         form[u] = "to" => body'[u] # "open",
         UNCHANGED <<form, wish, collected>>
  PROVE  UserKeeps(u)
  <1>0. BuilderType /\ Pooled /\ UserInv(u)
    BY DEF BuilderInv
  <1>1. /\ held' \in [Users -> Builders \cup {NoBuilder}] /\ held'[u] = NoBuilder
        /\ DOMAIN fields' = Builders /\ DOMAIN consumed' = Builders /\ free' \in [Builders -> {0, 1}]
        /\ \A v \in Users \ {u} :
             /\ held'[v] = held[v]
             /\ held[v] # NoBuilder =>
                  fields'[held[v]] = fields[held[v]] /\ consumed'[held[v]] = consumed[held[v]]
        /\ Pooled'
    BY Recycling
  <1>2. /\ bpc' \in [Users -> {"start", "set", "execute", "sent", "returned"}]
        /\ bpc'[u] = "returned" /\ \A v \in Users \ {u} : bpc'[v] = bpc[v]
    BY <1>0 DEF BuilderType
  <1>3. BuilderType'
    BY <1>0, <1>1, <1>2 DEF BuilderType
  <1>4. Untouched(u)
    BY <1>1, <1>2 DEF Untouched
  <1>5. UserInv(u)'
    <2>1. Settings(u)' = Settings(u)
      BY DEF Settings
    <2>2. OwnBuilder(u)'
      BY <1>1, <1>2, <2>1 DEF OwnBuilder
    <2>3. Wished(u)'
      BY <1>0 DEF UserInv, Wished
    <2>4. BodySettled(u)'
      BY <1>2 DEF BodySettled
    <2> QED
      BY <2>2, <2>3, <2>4 DEF UserInv
  <1> QED
    BY <1>1, <1>3, <1>4, <1>5 DEF UserKeeps

LEMMA EndingsKeep ==
  ASSUME BuilderInv, NEW u \in Users,
         \/ ExecuteFails(u)
         \/ RequestFails(u)
         \/ \E a \in Answers, refuses \in BOOLEAN : Respond(u, a, refuses)
  PROVE  UserKeeps(u)
  <1>0. BuilderType /\ UserInv(u)
    BY DEF BuilderInv
  <1>1. CASE ExecuteFails(u)
    <2>1. Recycled(u) /\ bpc[u] = "execute"
      BY <1>0, <1>1 DEF ExecuteFails, UserInv, OwnBuilder
    <2>2. carried[u] \in {{}, Settings(u)}
      BY <1>0, <2>1 DEF UserInv, OwnBuilder
    <2>3. /\ bpc' = [bpc EXCEPT ![u] = "returned"] /\ UNCHANGED <<form, wish, carried, body, collected>>
          /\ gave' = [gave EXCEPT ![u] = "error"]
      BY <1>1 DEF ExecuteFails
    <2>4. /\ DOMAIN gave' = Users /\ gave'[u] = "error" /\ (\A v \in Users \ {u} : gave'[v] = gave[v])
          /\ DOMAIN body' = Users /\ body'[u] = "none" /\ (\A v \in Users \ {u} : body'[v] = body[v])
      BY <1>0, <2>1, <2>3 DEF BuilderType, UserInv, BodySettled
    <2> QED
      BY <2>1, <2>2, <2>3, <2>4, ReturnKeeps
  <1>2. CASE RequestFails(u)
    <2>1. Recycled(u) /\ bpc[u] = "sent" /\ carried[u] \in {{}, Settings(u)}
      BY <1>0, <1>2 DEF RequestFails, UserInv, OwnBuilder
    <2>3. /\ bpc' = [bpc EXCEPT ![u] = "returned"] /\ UNCHANGED <<form, wish, carried, body, collected>>
          /\ gave' = [gave EXCEPT ![u] = "error"]
      BY <1>2 DEF RequestFails
    <2>4. /\ DOMAIN gave' = Users /\ gave'[u] = "error" /\ (\A v \in Users \ {u} : gave'[v] = gave[v])
          /\ DOMAIN body' = Users /\ body'[u] = "none" /\ (\A v \in Users \ {u} : body'[v] = body[v])
      BY <1>0, <2>1, <2>3 DEF BuilderType, UserInv, BodySettled
    <2> QED
      BY <2>1, <2>3, <2>4, ReturnKeeps
  <1>3. ASSUME NEW a \in Answers, NEW refuses \in BOOLEAN, Respond(u, a, refuses) PROVE UserKeeps(u)
    <2>1. /\ bpc[u] = "sent"
          /\ form[u] # "result" => (body'[u] = "open" <=> gave'[u] = "response")
          /\ form[u] = "to" => body'[u] # "open"
      BY <1>3, Responding
    <2>2. /\ Recycled(u) /\ bpc' = [bpc EXCEPT ![u] = "returned"] /\ UNCHANGED <<form, wish, carried, collected>>
          /\ DOMAIN body' = DOMAIN body /\ (\A v \in Users \ {u} : body'[v] = body[v])
          /\ DOMAIN gave' = DOMAIN gave /\ (\A v \in Users \ {u} : gave'[v] = gave[v])
      BY <1>0, <1>3 DEF Respond, BuilderType
    <2>3. carried[u] \in {{}, Settings(u)} /\ DOMAIN body = Users /\ DOMAIN gave = Users
      BY <1>0, <2>1 DEF UserInv, OwnBuilder, BuilderType
    <2> QED
      BY <2>1, <2>2, <2>3, ReturnKeeps
  <1> QED
    BY <1>1, <1>2, <1>3

LEMMA CollectKeeps ==
  ASSUME BuilderInv, NEW u \in Users, Collect(u)
  PROVE  UserKeeps(u)
  <1>0. BuilderType /\ Pooled /\ UserInv(u)
    BY DEF BuilderInv
  <1>1. /\ u \in Batch /\ bpc[u] = "returned" /\ collected' = collected \cup {u}
        /\ UNCHANGED <<form, wish, bpc, held, fields, consumed, free, carried, body, gave>>
    BY DEF Collect
  <1>2. BuilderType' /\ Pooled' /\ Untouched(u)
    BY <1>0, <1>1 DEF BuilderType, Pooled, Untouched
  <1>3. Settings(u)' = Settings(u)
    BY <1>1 DEF Settings
  <1>4. UserInv(u)'
    BY <1>0, <1>1, <1>3 DEF UserInv, Wished, OwnBuilder, BodySettled
  <1> QED
    BY <1>2, <1>4 DEF UserKeeps

LEMMA BuilderNextInv == BuilderInv /\ [BuilderNext]_builderVars => BuilderInv'
  <1>1. ASSUME BuilderInv, BuilderNext PROVE BuilderInv'
    <2>1. PICK u \in Users :
            \/ \E b \in Builders : Acquire(u, b)
            \/ Configure(u)
            \/ ExecuteFails(u)
            \/ Execute(u)
            \/ FetchDirect(u)
            \/ RequestFails(u)
            \/ \E a \in Answers, refuses \in BOOLEAN : Respond(u, a, refuses)
            \/ Collect(u)
      BY <1>1 DEF BuilderNext
    <2>2. UserKeeps(u)
      BY <1>1, <2>1, AcquireKeeps, ConfigureKeeps, ExecuteKeeps, EndingsKeep, CollectKeeps
    <2>3. \A v \in Users \ {u} : UserInv(v)'
      BY <1>1, <2>2, OtherUsersInv DEF UserKeeps
    <2> QED
      BY <2>2, <2>3 DEF UserKeeps, BuilderInv
  <1>2. ASSUME BuilderInv, UNCHANGED builderVars PROVE BuilderInv'
    BY <1>2 DEF builderVars, BuilderInv, BuilderType, Pooled, UserInv, Wished, OwnBuilder, BodySettled, Settings
  <1> QED
    BY <1>1, <1>2

LEMMA BuildersSettled == BuilderInv => BuildersSettle
  <1> SUFFICES ASSUME BuilderInv PROVE BuildersSettle
    OBVIOUS
  <1>0. BuilderType /\ Pooled /\ \A u \in Users : UserInv(u)
    BY DEF BuilderInv
  <1>1. OwnSettingsOnly
    <2>1. \A u, v \in Users : u # v /\ held[u] # NoBuilder => held[u] # held[v]
      BY <1>0 DEF Pooled
    <2>2. ASSUME NEW b \in Builders PROVE free[b] + Cardinality({u \in Users : held[u] = b}) <= 1
      <3> DEFINE S == {u \in Users : held[u] = b}
      <3>1. \A x, y \in S : x = y
        BY <1>0, FormsAssumption DEF Pooled
      <3>2. free[b] \in {0, 1} /\ (S # {} => free[b] = 0)
        BY <1>0 DEF BuilderType, Pooled
      <3> HIDE DEF S
      <3>3. /\ Cardinality(S) \in Nat /\ Cardinality(S) <= 1
            /\ S = {} => Cardinality(S) = 0
        BY <3>1, AtMostOne
      <3>4. free[b] + Cardinality(S) <= 1
        BY <3>2, <3>3
      <3> QED
        BY <3>4 DEF S
    <2>3. ASSUME NEW u \in Users, bpc[u] \in {"sent", "returned"}, carried[u] # {}
          PROVE  carried[u] = {<<f, u>> : f \in wish[u] \cap Fields}
      BY <1>0, <2>3 DEF UserInv, OwnBuilder, Settings
    <2> QED
      BY <2>1, <2>2, <2>3 DEF OwnSettingsOnly
  <1>2. ResponsesReturnedOrClosed
    BY <1>0 DEF ResponsesReturnedOrClosed, UserInv, BodySettled
  <1>3. BatchLeavesNothing
    BY <1>0, BatchAssumption DEF BatchLeavesNothing, BatchReturns, UserInv, Wished, OwnBuilder, BodySettled
  <1> QED
    BY <1>1, <1>2, <1>3 DEF BuildersSettle

-----------------------------------------------------------------------------
(* The fast client. *)

FastType ==
  /\ style \in [Fasts -> {"request", "adapted", "own"}]
  /\ fastPc \in [Fasts -> {"start", "prepare", "await", "done", "failed"}]
  /\ target \in [Fasts -> Hosts]
  /\ DOMAIN auth = Fasts /\ DOMAIN header = Fasts
  /\ hops \in [Fasts -> Nat]
  /\ adapter \in [Fasts -> Adapters \cup {NoAdapter}]
  /\ pooled \in [Adapters -> {0, 1}]
  /\ jar \in [Hosts -> Nat]

(* An adapter is in the pool, with one call, or nowhere yet. *)
AdaptersPooled ==
  /\ \A c, d \in Fasts : adapter[c] = adapter[d] /\ adapter[c] # NoAdapter => c = d
  /\ \A c \in Fasts, a \in Adapters : adapter[c] = a => pooled[a] = 0

(* The cookies that a host may be sent: those of its site. *)
Home(h) == {x \in Hosts \X Nat : DomainOf[x[1]] = DomainOf[h]}

CallInv(c) ==
  /\ fastPc[c] = "start" => adapter[c] = NoAdapter
  /\ fastPc[c] \in {"prepare", "await"} => adapter[c] \in Adapters
  /\ fastPc[c] \in {"done", "failed"} /\ adapter[c] # NoAdapter => style[c] = "own"
  /\ auth[c] \in {NoOne, target[c]}
  /\ header[c] \in Seq(Home(target[c]))
  /\ hops[c] = 0 \/ hops[c] <= Limit

FastInv == FastType /\ AdaptersPooled /\ \A c \in Fasts : CallInv(c)

LEMMA FastStarts == FastInit => FastInv
  <1> SUFFICES ASSUME FastInit PROVE FastInv
    OBVIOUS
  <1>1. FastType
    BY AdaptersAssumption DEF FastInit, FastType
  <1>2. AdaptersPooled
    BY DEF FastInit, AdaptersPooled
  <1>3. ASSUME NEW c \in Fasts PROVE CallInv(c)
    <2>1. header[c] = <<>>
      BY DEF FastInit
    <2> HIDE DEF Home
    <2>2. header[c] \in Seq(Home(target[c]))
      BY <2>1
    <2> QED
      BY <2>2 DEF FastInit, CallInv
  <1> QED
    BY <1>1, <1>2, <1>3 DEF FastInv

(* A step of one call leaves what is said of the others. *)
Apart(c) ==
  /\ style' = style
  /\ \A d \in Fasts \ {c} :
       /\ fastPc'[d] = fastPc[d] /\ target'[d] = target[d] /\ auth'[d] = auth[d]
       /\ header'[d] = header[d] /\ hops'[d] = hops[d] /\ adapter'[d] = adapter[d]

LEMMA OtherCallsInv ==
  ASSUME FastInv, NEW c \in Fasts, Apart(c)
  PROVE  \A d \in Fasts \ {c} : CallInv(d)'
  <1> SUFFICES ASSUME NEW d \in Fasts \ {c} PROVE CallInv(d)'
    OBVIOUS
  <1>1. CallInv(d) /\ Home(target'[d]) = Home(target[d]) /\ Limit' = Limit
    BY DEF FastInv, Apart, Limit
  <1> QED
    BY <1>1 DEF CallInv, Apart

CallKeeps(c) == FastType' /\ AdaptersPooled' /\ Apart(c) /\ CallInv(c)'

LEMMA BeginKeeps ==
  ASSUME FastInv, NEW c \in Fasts, NEW a \in Adapters, Begin(c, a)
  PROVE  CallKeeps(c)
  <1>0. FastType /\ AdaptersPooled /\ CallInv(c) /\ a # NoAdapter /\ adapter[c] = NoAdapter
    BY AdaptersAssumption DEF FastInv, Begin, CallInv
  <1>1. \A d \in Fasts : adapter[d] # a
    BY <1>0 DEF Begin, InUse, AdaptersPooled
  <1>2. pooled' \in [Adapters -> {0, 1}] /\ pooled'[a] = 0 /\ \A x \in Adapters \ {a} : pooled'[x] = pooled[x]
    BY <1>0 DEF Begin, FastType
  <1>3. /\ adapter' \in [Fasts -> Adapters \cup {NoAdapter}] /\ adapter'[c] = a
        /\ \A d \in Fasts \ {c} : adapter'[d] = adapter[d]
        /\ fastPc' \in [Fasts -> {"start", "prepare", "await", "done", "failed"}]
        /\ fastPc'[c] = "prepare" /\ \A d \in Fasts \ {c} : fastPc'[d] = fastPc[d]
        /\ UNCHANGED <<style, target, auth, header, hops, jar>>
    BY <1>0 DEF Begin, FastType, Put
  <1>4. FastType'
    BY <1>0, <1>2, <1>3 DEF FastType
  <1>5. AdaptersPooled'
    BY <1>0, <1>1, <1>2, <1>3 DEF AdaptersPooled
  <1>6. Apart(c)
    BY <1>3 DEF Apart
  <1>7. CallInv(c)'
    BY <1>0, <1>3 DEF CallInv, Home, Limit
  <1> QED
    BY <1>4, <1>5, <1>6, <1>7 DEF CallKeeps

(* applyCookies adds cookies of the target's site only. *)
LEMMA DispatchKeeps ==
  ASSUME FastInv, NEW c \in Fasts, Dispatch(c)
  PROVE  CallKeeps(c)
  <1>0. FastType /\ AdaptersPooled /\ CallInv(c) /\ fastPc[c] = "prepare"
    BY DEF FastInv, Dispatch
  <1>1. /\ header' = [header EXCEPT ![c] = header[c] \o CookiesFor(target[c])]
        /\ fastPc' \in [Fasts -> {"start", "prepare", "await", "done", "failed"}]
        /\ fastPc'[c] = "await" /\ \A d \in Fasts \ {c} : fastPc'[d] = fastPc[d]
        /\ UNCHANGED <<style, target, auth, hops, adapter, pooled, jar>>
    BY <1>0 DEF Dispatch, FastType, Put
  <1>2. CookiesFor(target[c]) \in Seq(Home(target[c]))
    <2>1. target[c] \in Hosts /\ jar[target[c]] \in Nat
      BY <1>0 DEF FastType
    <2> DEFINE S == Home(target[c])
    <2> DEFINE x == <<target[c], jar[target[c]]>>
    <2>2. x \in S
      BY <2>1 DEF Home
    <2>3. CookiesFor(target[c]) = <<>> \/ CookiesFor(target[c]) = <<x>>
      BY DEF CookiesFor
    <2> HIDE DEF S, x
    <2>4. <<>> \in Seq(S) /\ <<x>> \in Seq(S)
      BY <2>2
    <2>5. CookiesFor(target[c]) \in Seq(S)
      BY <2>3, <2>4
    <2> QED
      BY <2>5 DEF S
  <1>3. header[c] \o CookiesFor(target[c]) \in Seq(Home(target[c]))
    <2> DEFINE S == Home(target[c])
    <2> HIDE DEF S
    <2>1. header[c] \in Seq(S) /\ CookiesFor(target[c]) \in Seq(S)
      BY <1>0, <1>2 DEF CallInv, S
    <2>2. header[c] \o CookiesFor(target[c]) \in Seq(S)
      BY <2>1
    <2> QED
      BY <2>2 DEF S
  <1>4. /\ DOMAIN header' = Fasts /\ header'[c] = header[c] \o CookiesFor(target[c])
        /\ \A d \in Fasts \ {c} : header'[d] = header[d]
    BY <1>0, <1>1 DEF FastType
  <1>5. FastType' /\ AdaptersPooled' /\ Apart(c)
    BY <1>0, <1>1, <1>4 DEF FastType, AdaptersPooled, Apart
  <1>6. CallInv(c)'
    <2>1. header'[c] \in Seq(Home(target[c])) /\ Home(target'[c]) = Home(target[c]) /\ Limit' = Limit
      BY <1>1, <1>3, <1>4 DEF Limit
    <2> QED
      BY <1>0, <1>1, <2>1 DEF CallInv
  <1> QED
    BY <1>5, <1>6 DEF CallKeeps

(* Releasing: the adapter a call has acquired goes back to the pool. *)
LEMMA Releasing ==
  ASSUME FastInv, NEW c \in Fasts, fastPc[c] = "await", Released(c)
  PROVE  /\ pooled' \in [Adapters -> {0, 1}] /\ adapter' \in [Fasts -> Adapters \cup {NoAdapter}]
         /\ \A d \in Fasts \ {c} : adapter'[d] = adapter[d]
         /\ adapter'[c] # NoAdapter => style[c] = "own"
         /\ AdaptersPooled'
  <1>0. /\ FastType /\ AdaptersPooled /\ adapter[c] \in Adapters /\ pooled[adapter[c]] = 0
        /\ adapter[c] # NoAdapter
    BY AdaptersAssumption DEF FastInv, CallInv, AdaptersPooled
  <1>1. CASE style[c] \in {"request", "adapted"}
    <2>1. pooled' = [pooled EXCEPT ![adapter[c]] = @ + 1] /\ adapter' = [adapter EXCEPT ![c] = NoAdapter]
      BY <1>1 DEF Released, OwnsAdapter, Put
    <2>2. pooled' \in [Adapters -> {0, 1}] /\ \A a \in Adapters \ {adapter[c]} : pooled'[a] = pooled[a]
      BY <1>0, <2>1 DEF FastType
    <2>3. /\ adapter' \in [Fasts -> Adapters \cup {NoAdapter}] /\ adapter'[c] = NoAdapter
          /\ \A d \in Fasts \ {c} : adapter'[d] = adapter[d]
      BY <1>0, <2>1 DEF FastType
    <2>4. \A d \in Fasts \ {c} : adapter[d] # adapter[c]
      BY <1>0 DEF AdaptersPooled
    <2>5. AdaptersPooled'
      BY <1>0, <2>2, <2>3, <2>4, AdaptersAssumption DEF AdaptersPooled
    <2> QED
      BY <2>2, <2>3, <2>5
  <1>2. CASE style[c] \notin {"request", "adapted"}
    <2>1. pooled' = pooled /\ adapter' = adapter /\ style[c] = "own"
      BY <1>0, <1>2 DEF Released, OwnsAdapter, FastType
    <2> QED
      BY <1>0, <2>1 DEF FastType, AdaptersPooled
  <1> QED
    BY <1>1, <1>2

(* A call ends, and only its adapter, the jar and its place change. *)
LEMMA EndKeeps ==
  ASSUME FastInv, NEW c \in Fasts, fastPc[c] = "await", Released(c),
         NEW end \in {"done", "failed"}, fastPc' = Put(fastPc, c, end),
         jar' \in [Hosts -> Nat], UNCHANGED <<style, target, auth, header, hops>>
  PROVE  CallKeeps(c)
  <1>0. FastType /\ CallInv(c)
    BY DEF FastInv
  <1>1. /\ pooled' \in [Adapters -> {0, 1}] /\ adapter' \in [Fasts -> Adapters \cup {NoAdapter}]
        /\ \A d \in Fasts \ {c} : adapter'[d] = adapter[d]
        /\ adapter'[c] # NoAdapter => style[c] = "own"
        /\ AdaptersPooled'
    BY Releasing
  <1>2. /\ fastPc' \in [Fasts -> {"start", "prepare", "await", "done", "failed"}]
        /\ fastPc'[c] = end /\ \A d \in Fasts \ {c} : fastPc'[d] = fastPc[d]
    BY <1>0 DEF FastType, Put
  <1>3. FastType' /\ Apart(c)
    BY <1>0, <1>1, <1>2 DEF FastType, Apart
  <1>4. CallInv(c)'
    <2>1. Home(target'[c]) = Home(target[c]) /\ Limit' = Limit
      BY DEF Limit
    <2> QED
      BY <1>0, <1>1, <1>2, <2>1 DEF CallInv
  <1> QED
    BY <1>1, <1>3, <1>4 DEF CallKeeps

LEMMA CapturedJar ==
  ASSUME FastType, NEW h \in Hosts, NEW sets \in BOOLEAN
  PROVE  Captured(h, sets) \in [Hosts -> Nat]
  BY DEF FastType, Captured

LEMMA AnswerKeeps ==
  ASSUME FastInv, NEW c \in Fasts, ExchangeFails(c) \/ \E sets \in BOOLEAN : Answer(c, sets)
  PROVE  CallKeeps(c)
  <1>0. FastType /\ target[c] \in Hosts
    BY DEF FastInv, FastType
  <1>1. CASE ExchangeFails(c)
    <2>1. jar' \in [Hosts -> Nat]
      BY <1>0, <1>1 DEF ExchangeFails, FastType
    <2> QED
      BY <1>1, <2>1, EndKeeps DEF ExchangeFails, Fails
  <1>2. ASSUME NEW sets \in BOOLEAN, Answer(c, sets) PROVE CallKeeps(c)
    <2>1. jar' \in [Hosts -> Nat]
      BY <1>0, <1>2, CapturedJar DEF Answer
    <2> QED
      BY <1>2, <2>1, EndKeeps DEF Answer
  <1> QED
    BY <1>1, <1>2

(* A redirect to a host of another site takes neither credentials nor        *)
(* cookies along, one within the site no credentials.                        *)
LEMMA RedirectKeeps ==
  ASSUME FastInv, NEW c \in Fasts, NEW status \in {"302", "307"}, NEW to \in Hosts, NEW sets \in BOOLEAN,
         Redirect(c, status, to, sets)
  PROVE  CallKeeps(c)
  <1> DEFINE kept == IF to = target[c] THEN [auth |-> auth[c], header |-> header[c]] ELSE Scrubbed(c, to)
  <1>0. /\ FastType /\ AdaptersPooled /\ CallInv(c) /\ target[c] \in Hosts /\ fastPc[c] = "await"
        /\ hops[c] \in Nat /\ style' = style
    BY DEF FastInv, FastType, Redirect
  <1>1. jar' \in [Hosts -> Nat]
    BY <1>0, CapturedJar DEF Redirect
  <1>2. CASE hops[c] + 1 > Limit
    <2>1. Fails(c) /\ UNCHANGED <<target, auth, header, hops>>
      BY <1>2 DEF Redirect
    <2> QED
      BY <1>0, <1>1, <2>1, EndKeeps DEF Fails
  <1>3. CASE ~(hops[c] + 1 > Limit)
    <2>1. /\ hops' = Put(hops, c, hops[c] + 1) /\ auth' = Put(auth, c, kept.auth)
          /\ header' = Put(header, c, kept.header) /\ target' = Put(target, c, to)
          /\ fastPc' = Put(fastPc, c, "prepare") /\ UNCHANGED <<adapter, pooled>>
      BY <1>3 DEF Redirect
    <2>2. kept.auth \in {NoOne, to} /\ kept.header \in Seq(Home(to))
      <3>1. CASE to = target[c]
        BY <1>0, <3>1 DEF CallInv
      <3>2. CASE to # target[c]
        <4>1. kept.auth = NoOne /\ kept.header = IF <<target[c], to>> \in Related THEN header[c] ELSE <<>>
          BY <3>2 DEF Scrubbed
        <4>2. <<target[c], to>> \in Related => Home(to) = Home(target[c])
          BY <1>0, FastAssumption DEF Home
        <4>3. header[c] \in Seq(Home(target[c])) /\ <<>> \in Seq(Home(to))
          BY <1>0 DEF CallInv
        <4> QED
          BY <4>1, <4>2, <4>3
      <3> QED
        BY <3>1, <3>2
    <2> HIDE DEF kept
    <2>3. /\ hops' \in [Fasts -> Nat] /\ hops'[c] = hops[c] + 1 /\ \A d \in Fasts \ {c} : hops'[d] = hops[d]
          /\ target' \in [Fasts -> Hosts] /\ target'[c] = to /\ \A d \in Fasts \ {c} : target'[d] = target[d]
          /\ fastPc' \in [Fasts -> {"start", "prepare", "await", "done", "failed"}]
          /\ fastPc'[c] = "prepare" /\ \A d \in Fasts \ {c} : fastPc'[d] = fastPc[d]
      BY <1>0, <2>1 DEF FastType, Put
    <2>4. /\ DOMAIN auth' = Fasts /\ auth'[c] = kept.auth /\ \A d \in Fasts \ {c} : auth'[d] = auth[d]
          /\ DOMAIN header' = Fasts /\ header'[c] = kept.header /\ \A d \in Fasts \ {c} : header'[d] = header[d]
      BY <1>0, <2>1 DEF FastType, Put
    <2>5. FastType' /\ AdaptersPooled' /\ Apart(c)
      BY <1>0, <1>1, <2>1, <2>3, <2>4 DEF FastType, AdaptersPooled, Apart
    <2>6. CallInv(c)'
      <3>1. hops'[c] <= Limit
        <4>1. Limit \in Int
          BY AdaptersAssumption DEF Limit
        <4> QED
          BY <1>0, <1>3, <2>3, <4>1
      <3>2. /\ adapter'[c] \in Adapters /\ auth'[c] \in {NoOne, target'[c]}
            /\ header'[c] \in Seq(Home(target'[c])) /\ Limit' = Limit
        BY <1>0, <2>1, <2>2, <2>3, <2>4 DEF CallInv, Limit
      <3> QED
        BY <2>3, <3>1, <3>2 DEF CallInv
    <2> QED
      BY <2>5, <2>6 DEF CallKeeps
  <1> QED
    BY <1>2, <1>3

LEMMA CallerReleasesKeeps ==
  ASSUME FastInv, NEW c \in Fasts, CallerReleases(c)
  PROVE  CallKeeps(c)
  <1>0. /\ FastType /\ AdaptersPooled /\ CallInv(c) /\ adapter[c] \in Adapters
        /\ pooled[adapter[c]] = 0 /\ fastPc[c] \in {"done", "failed"}
    BY DEF FastInv, FastType, AdaptersPooled, CallerReleases
  <1>1. /\ pooled' = [pooled EXCEPT ![adapter[c]] = @ + 1] /\ adapter' = [adapter EXCEPT ![c] = NoAdapter]
        /\ UNCHANGED <<style, fastPc, target, auth, header, hops, jar>>
    BY DEF CallerReleases, Put
  <1>2. pooled' \in [Adapters -> {0, 1}] /\ \A a \in Adapters \ {adapter[c]} : pooled'[a] = pooled[a]
    BY <1>0, <1>1 DEF FastType
  <1>3. /\ adapter' \in [Fasts -> Adapters \cup {NoAdapter}] /\ adapter'[c] = NoAdapter
        /\ \A d \in Fasts \ {c} : adapter'[d] = adapter[d]
    BY <1>0, <1>1 DEF FastType
  <1>4. \A d \in Fasts \ {c} : adapter[d] # adapter[c]
    BY <1>0, AdaptersAssumption DEF AdaptersPooled
  <1>5. AdaptersPooled'
    BY <1>0, <1>2, <1>3, <1>4, AdaptersAssumption DEF AdaptersPooled
  <1>6. FastType' /\ Apart(c)
    BY <1>0, <1>1, <1>2, <1>3 DEF FastType, Apart
  <1>7. CallInv(c)'
    <2>1. Home(target'[c]) = Home(target[c]) /\ Limit' = Limit
      BY <1>1 DEF Limit
    <2> QED
      BY <1>0, <1>1, <1>3, <2>1 DEF CallInv
  <1> QED
    BY <1>5, <1>6, <1>7 DEF CallKeeps

LEMMA FastNextInv == FastInv /\ [FastNext]_fastVars => FastInv'
  <1>1. ASSUME FastInv, FastNext PROVE FastInv'
    <2>1. PICK c \in Fasts :
            \/ \E a \in Adapters : Begin(c, a)
            \/ Dispatch(c)
            \/ ExchangeFails(c)
            \/ \E sets \in BOOLEAN : Answer(c, sets)
            \/ \E status \in {"302", "307"}, to \in Hosts, sets \in BOOLEAN : Redirect(c, status, to, sets)
            \/ CallerReleases(c)
      BY <1>1 DEF FastNext
    <2>2. CallKeeps(c)
      BY <1>1, <2>1, BeginKeeps, DispatchKeeps, AnswerKeeps, RedirectKeeps, CallerReleasesKeeps
    <2>3. \A d \in Fasts \ {c} : CallInv(d)'
      BY <1>1, <2>2, OtherCallsInv DEF CallKeeps
    <2> QED
      BY <2>2, <2>3 DEF CallKeeps, FastInv
  <1>2. ASSUME FastInv, UNCHANGED fastVars PROVE FastInv'
    BY <1>2 DEF fastVars, FastInv, FastType, AdaptersPooled, CallInv, Home, Limit
  <1> QED
    BY <1>1, <1>2

LEMMA FastIsolated == FastInv => FastCallsIsolated
  <1> SUFFICES ASSUME FastInv PROVE FastCallsIsolated
    OBVIOUS
  <1>0. FastType /\ AdaptersPooled /\ \A c \in Fasts : CallInv(c)
    BY DEF FastInv
  <1>1. HeadersStayHome
    <2> SUFFICES ASSUME NEW c \in Fasts
                 PROVE  /\ auth[c] \in {NoOne, target[c]}
                        /\ \A i \in DOMAIN header[c] : DomainOf[header[c][i][1]] = DomainOf[target[c]]
                        /\ hops[c] <= Limit
      BY DEF HeadersStayHome
    <2>1. auth[c] \in {NoOne, target[c]} /\ header[c] \in Seq(Home(target[c]))
      BY <1>0 DEF CallInv
    <2>2. \A i \in DOMAIN header[c] : header[c][i] \in Home(target[c])
      BY <2>1
    <2>3. hops[c] <= Limit
      <3>1. Limit \in Int /\ Limit >= 0
        BY AdaptersAssumption DEF Limit
      <3> QED
        BY <1>0, <3>1 DEF CallInv
    <2> QED
      BY <2>1, <2>2, <2>3 DEF Home
  <1>2. AdaptersExclusive
    <2>1. ASSUME NEW a \in Adapters PROVE pooled[a] + Cardinality({c \in Fasts : adapter[c] = a}) <= 1
      <3> DEFINE S == {c \in Fasts : adapter[c] = a}
      <3>1. \A x, y \in S : x = y
        BY <1>0, AdaptersAssumption DEF AdaptersPooled
      <3>2. pooled[a] \in {0, 1} /\ (S # {} => pooled[a] = 0)
        BY <1>0 DEF FastType, AdaptersPooled
      <3> HIDE DEF S
      <3>3. /\ Cardinality(S) \in Nat /\ Cardinality(S) <= 1
            /\ S = {} => Cardinality(S) = 0
        BY <3>1, AtMostOne
      <3>4. pooled[a] + Cardinality(S) <= 1
        BY <3>2, <3>3
      <3> QED
        BY <3>4 DEF S
    <2> QED
      BY <1>0, <2>1 DEF AdaptersExclusive, CallInv
  <1> QED
    BY <1>1, <1>2 DEF FastCallsIsolated

-----------------------------------------------------------------------------
(* Slices of the heap. *)

(* What a slice holds; the prover must be told of single strings.            *)
Values == STRING \cup {Fill, "late"}
Heaps == Seq(Seq(Values))
Slices == [arr : Nat, len : Nat]

(* A slice lies in an array of the heap, unless it is empty. *)
Within(h, s) ==
  /\ s \in Slices
  /\ s.arr = 0 => s.len = 0
  /\ s.arr # 0 => s.arr <= Len(h) /\ s.len <= Len(h[s.arr])

(* The arrays of h but for array a are there in g as they were. *)
Extends(g, h, a) ==
  /\ g \in Heaps /\ Len(h) <= Len(g)
  /\ \A i \in 1 .. Len(h) : i # a => g[i] = h[i]

(* The slice s of g is t of h, extended in place or moved to a new array. *)
Moved(g, s, h, t) ==
  /\ Within(g, s)
  /\ s.arr = t.arr \/ s.arr = 0 \/ s.arr > Len(h)

LEMMA ListsAreSeqs ==
  ASSUME NEW S, NEW n \in Nat, NEW f \in [1 .. n -> S]
  PROVE  f \in Seq(S) /\ Len(f) = n
  OBVIOUS

LEMMA ViewsFit ==
  ASSUME NEW h \in Heaps, NEW s, Within(h, s)
  PROVE  View(h, s) \in Seq(Values) /\ Len(View(h, s)) = s.len
  <1>1. CASE s.arr = 0
    BY <1>1 DEF Within, View
  <1>2. CASE s.arr # 0
    <2>1. /\ h[s.arr] \in Seq(Values) /\ s.len \in 0 .. Len(h[s.arr])
          /\ View(h, s) = SubSeq(h[s.arr], 1, s.len)
      BY <1>2 DEF Within, Slices, View, Heaps
    <2> QED
      BY <2>1
  <1> QED
    BY <1>1, <1>2

LEMMA ViewsStay ==
  ASSUME NEW h \in Heaps, NEW g, NEW a \in Nat, Extends(g, h, a), NEW s, Within(h, s),
         s.arr # a \/ s.arr = 0
  PROVE  Within(g, s) /\ View(g, s) = View(h, s)
  BY DEF Within, Slices, View, Heaps, Extends

LEMMA Allocates ==
  ASSUME NEW h \in Heaps, NEW vs \in Seq(Values), NEW room \in Nat
  PROVE  LET new == Allocate(h, vs, room)
         IN /\ Extends(new.heap, h, 0) /\ Len(new.heap) = Len(h) + 1
            /\ Within(new.heap, new.slice) /\ new.slice.arr = Len(h) + 1
            /\ View(new.heap, new.slice) = vs
  <1> DEFINE new == Allocate(h, vs, room)
             block == vs \o [i \in 1..room |-> Fill]
  <1>1. [i \in 1..room |-> Fill] \in Seq(Values) /\ Len([i \in 1..room |-> Fill]) = room
    <2>1. Fill \in Values
      BY DEF Values
    <2> QED
      BY <2>1
  <1>2. /\ block \in Seq(Values) /\ Len(block) = Len(vs) + room
        /\ \A i \in 1 .. Len(vs) : block[i] = vs[i]
    BY <1>1
  <1>3. SubSeq(block, 1, Len(vs)) = vs
    BY <1>2
  <1> HIDE DEF block
  <1>4. /\ Append(h, block) \in Heaps /\ Len(Append(h, block)) = Len(h) + 1
        /\ \A i \in 1 .. Len(h) : Append(h, block)[i] = h[i]
        /\ Append(h, block)[Len(h) + 1] = block
    BY <1>2 DEF Heaps
  <1>5. new.heap = Append(h, block) /\ new.slice = [arr |-> Len(h) + 1, len |-> Len(vs)]
    BY DEF Allocate, block
  <1>6. Len(h) \in Nat /\ Len(vs) \in Nat
    BY DEF Heaps
  <1> QED
    BY <1>2, <1>3, <1>4, <1>5, <1>6 DEF Extends, Within, Slices, View

(* What is written behind a slice is in nobody else's view. *)
LEMMA Writes ==
  ASSUME NEW h \in Heaps, NEW s, Within(h, s), NEW vs \in Seq(Values)
  PROVE  LET g == Written(h, s, vs)
         IN /\ Extends(g, h, s.arr) /\ Len(g) = Len(h)
            /\ s.arr # 0 => Len(g[s.arr]) = Len(h[s.arr])
            /\ s.len + Len(vs) <= Capacity(h, s) =>
                 View(g, [arr |-> s.arr, len |-> s.len + Len(vs)]) = View(h, s) \o vs
  <1> DEFINE g == Written(h, s, vs)
             Block(a) == [i \in DOMAIN h[a] |-> IF i - s.len \in DOMAIN vs THEN vs[i - s.len] ELSE h[a][i]]
  <1>1. s \in Slices /\ DOMAIN h = 1 .. Len(h) /\ Len(h) \in Nat /\ Len(vs) \in Nat /\ DOMAIN vs = 1 .. Len(vs)
    BY DEF Within, Heaps
  <1>2. ASSUME NEW a \in 1 .. Len(h)
        PROVE  /\ Block(a) \in Seq(Values) /\ Len(Block(a)) = Len(h[a])
               /\ \A i \in 1 .. Len(h[a]) :
                    Block(a)[i] = IF i - s.len \in 1 .. Len(vs) THEN vs[i - s.len] ELSE h[a][i]
    <2>1. h[a] \in Seq(Values)
      BY <1>1 DEF Heaps
    <2>2. DOMAIN h[a] = 1 .. Len(h[a]) /\ Len(h[a]) \in Nat
      BY <2>1
    <2>3. Block(a) \in [1 .. Len(h[a]) -> Values]
      BY <2>1, <2>2, <1>1
    <2> QED
      BY <2>2, <2>3, <1>1
  <1> HIDE DEF Block
  <1>3. g = [a \in 1 .. Len(h) |-> IF a # s.arr THEN h[a] ELSE Block(a)]
    BY <1>1 DEF Written, Block
  <1>4. g \in [1 .. Len(h) -> Seq(Values)]
    BY <1>1, <1>2, <1>3 DEF Heaps
  <1>5. g \in Heaps /\ Len(g) = Len(h)
    <2> HIDE DEF g
    <2> QED
      BY <1>1, <1>4, ListsAreSeqs DEF Heaps
  <1>6. \A i \in 1 .. Len(h) : i # s.arr => g[i] = h[i]
    BY <1>3
  <1>7. s.arr # 0 => g[s.arr] = Block(s.arr) /\ s.arr \in 1 .. Len(h)
    BY <1>1, <1>3 DEF Within, Slices
  <1>8. ASSUME s.len + Len(vs) <= Capacity(h, s)
        PROVE  View(g, [arr |-> s.arr, len |-> s.len + Len(vs)]) = View(h, s) \o vs
    <2>1. CASE s.arr = 0
      <3>1. s.len = 0 /\ Len(vs) = 0
        BY <1>1, <1>8, <2>1 DEF Capacity, Within
      <3>2. vs = <<>>
        BY <3>1
      <3> QED
        BY <2>1, <3>2 DEF View
    <2>2. CASE s.arr # 0
      <3> DEFINE a == s.arr
                 n == s.len + Len(vs)
      <3>1. /\ a \in 1 .. Len(h) /\ h[a] \in Seq(Values) /\ s.len \in Nat /\ n \in Nat
            /\ n <= Len(h[a]) /\ s.len <= Len(h[a])
        BY <1>1, <1>7, <1>8, <2>2 DEF Capacity, Within, Slices, Heaps
      <3>2. /\ SubSeq(Block(a), 1, n) \in Seq(Values) /\ Len(SubSeq(Block(a), 1, n)) = n
            /\ \A i \in 1 .. n : SubSeq(Block(a), 1, n)[i] = Block(a)[i]
        BY <3>1, <1>2
      <3>3. /\ SubSeq(h[a], 1, s.len) \in Seq(Values) /\ Len(SubSeq(h[a], 1, s.len)) = s.len
            /\ \A i \in 1 .. s.len : SubSeq(h[a], 1, s.len)[i] = h[a][i]
        BY <3>1
      <3> DEFINE L == SubSeq(Block(a), 1, n)
                 P == SubSeq(h[a], 1, s.len)
      <3>4. ASSUME NEW i \in 1 .. n
            PROVE  L[i] = IF i - s.len \in 1 .. Len(vs) THEN vs[i - s.len] ELSE h[a][i]
        <4>1. L[i] = Block(a)[i] /\ i \in 1 .. Len(h[a])
          BY <3>1, <3>2
        <4> QED
          BY <4>1, <3>1, <1>2
      <3> HIDE DEF L, P, a, n
      <3>5. P \o vs \in Seq(Values) /\ Len(P \o vs) = n
        BY <3>1, <3>3 DEF P, n
      <3>6. \A i \in 1 .. n : (P \o vs)[i] = IF i <= s.len THEN P[i] ELSE vs[i - s.len]
        BY <3>1, <3>3 DEF P, n
      <3>7. \A i \in 1 .. n : L[i] = (P \o vs)[i]
        BY <3>1, <3>3, <3>4, <3>6, <1>1 DEF P, n
      <3>8. L = P \o vs
        BY <3>2, <3>5, <3>7, SeqEqual DEF L
      <3> QED
        BY <3>8, <1>7, <2>2, <1>1 DEF L, P, a, n, View, Slices
    <2> QED
      BY <2>1, <2>2
  <1>9. s.arr # 0 => Len(g[s.arr]) = Len(h[s.arr])
    BY <1>2, <1>7
  <1> QED
    BY <1>5, <1>6, <1>8, <1>9, <1>1 DEF Extends

(* append keeps what others hold, and its result is the slice with vs behind. *)
LEMMA Appends ==
  ASSUME NEW h \in Heaps, NEW s, Within(h, s), NEW vs \in Seq(Values), NEW room \in Nat
  PROVE  LET a == AppendAll(h, s, vs, room)
         IN /\ Extends(a.heap, h, s.arr)
            /\ Moved(a.heap, a.slice, h, s)
            /\ View(a.heap, a.slice) = View(h, s) \o vs
  <1> DEFINE g == Written(h, s, vs)
             a == AppendAll(h, s, vs, room)
  <1>1. /\ Extends(g, h, s.arr) /\ Len(g) = Len(h)
        /\ s.arr # 0 => Len(g[s.arr]) = Len(h[s.arr])
    BY Writes
  <1>2. s \in Slices /\ Len(vs) \in Nat /\ s.arr \in Nat /\ s.len \in Nat /\ Len(h) \in Nat
    BY DEF Within, Slices, Heaps
  <1>3. CASE s.len + Len(vs) <= Capacity(h, s)
    <2>1. a.heap = g /\ a.slice = [arr |-> s.arr, len |-> s.len + Len(vs)]
      BY <1>2, <1>3 DEF AppendAll, Slices
    <2>2. View(g, [arr |-> s.arr, len |-> s.len + Len(vs)]) = View(h, s) \o vs
      BY <1>3, Writes
    <2>3. Within(g, [arr |-> s.arr, len |-> s.len + Len(vs)])
      BY <1>1, <1>2, <1>3 DEF Within, Slices, Capacity
    <2> QED
      BY <1>1, <2>1, <2>2, <2>3 DEF Moved
  <1>4. CASE ~(s.len + Len(vs) <= Capacity(h, s))
    <2> DEFINE ws == View(h, s) \o vs
    <2>1. ws \in Seq(Values)
      BY ViewsFit
    <2>2. g \in Heaps /\ a = Allocate(g, ws, room)
      BY <1>1, <1>4 DEF AppendAll, Extends
    <2> HIDE DEF ws, g, a
    <2>3. /\ Extends(a.heap, g, 0) /\ Within(a.heap, a.slice) /\ a.slice.arr = Len(g) + 1
          /\ View(a.heap, a.slice) = ws
      BY <2>1, <2>2, Allocates
    <2>4. Extends(a.heap, h, s.arr)
      BY <1>1, <1>2, <2>3 DEF Extends
    <2> QED
      BY <1>1, <1>2, <2>3, <2>4 DEF Moved, ws, a
  <1> QED
    BY <1>3, <1>4

LEMMA Clones ==
  ASSUME NEW h \in Heaps, NEW s, Within(h, s), NEW room \in Nat
  PROVE  LET a == SliceClone(h, s, room)
         IN /\ Extends(a.heap, h, 0)
            /\ Within(a.heap, a.slice)
            /\ a.slice.arr = 0 \/ a.slice.arr > Len(h)
            /\ View(a.heap, a.slice) = View(h, s)
  <1> DEFINE a == SliceClone(h, s, room)
  <1>1. View(h, s) \in Seq(Values) /\ Len(View(h, s)) = s.len /\ Len(h) \in Nat
    BY ViewsFit DEF Heaps
  <1>2. CASE s.len = 0
    <2>1. a.heap = h /\ a.slice = EmptySlice /\ View(h, s) = <<>>
      BY <1>1, <1>2 DEF SliceClone
    <2>2. Within(h, EmptySlice) /\ EmptySlice.arr = 0 /\ View(h, EmptySlice) = <<>>
      BY DEF Within, EmptySlice, Slices, View
    <2> QED
      BY <1>1, <2>1, <2>2 DEF Extends
  <1>3. CASE s.len # 0
    <2>1. a = Allocate(h, View(h, s), room)
      BY <1>3 DEF SliceClone
    <2> HIDE DEF a
    <2> QED
      BY <1>1, <2>1, Allocates DEF a
  <1> QED
    BY <1>2, <1>3

(* One step of the heap after another. *)
LEMMA Extended ==
  ASSUME NEW f, NEW g, NEW h \in Heaps, NEW a \in Nat, NEW b \in Nat,
         Extends(g, h, a), Extends(f, g, b), b = a \/ b = 0 \/ b > Len(h)
  PROVE  Extends(f, h, a)
  <1>1. Len(h) \in Nat /\ Len(g) \in Nat /\ Len(f) \in Nat
    BY DEF Extends, Heaps
  <1>2. ASSUME NEW i \in 1 .. Len(h), i # a
        PROVE  f[i] = h[i]
    <2>1. i \in 1 .. Len(g) /\ i # b /\ g[i] = h[i]
      BY <1>1, <1>2 DEF Extends
    <2> QED
      BY <2>1 DEF Extends
  <1> QED
    BY <1>1, <1>2 DEF Extends

(* No array of h changes its length. *)
Lasting(g, h) == Len(h) <= Len(g) /\ \A i \in 1 .. Len(h) : Len(g[i]) = Len(h[i])

LEMMA ExtendedLasts ==
  ASSUME NEW h \in Heaps, NEW g, Extends(g, h, 0)
  PROVE  Lasting(g, h)
  <1>1. \A i \in 1 .. Len(h) : i # 0
    OBVIOUS
  <1> QED
    BY <1>1 DEF Extends, Lasting

LEMMA LastsOn ==
  ASSUME NEW f, NEW g \in Heaps, NEW h \in Heaps, Lasting(f, g), Lasting(g, h), Len(f) \in Nat
  PROVE  Lasting(f, h)
  <1>1. Len(h) \in Nat /\ Len(g) \in Nat
    BY DEF Heaps
  <1> QED
    BY <1>1 DEF Lasting

LEMMA WithinLasts ==
  ASSUME NEW h \in Heaps, NEW g, Lasting(g, h), Len(g) \in Nat, NEW s, Within(h, s)
  PROVE  Within(g, s)
  <1>1. Len(h) \in Nat
    BY DEF Heaps
  <1> QED
    BY <1>1 DEF Lasting, Within, Slices

LEMMA AppendsLast ==
  ASSUME NEW h \in Heaps, NEW s, Within(h, s), NEW vs \in Seq(Values), NEW room \in Nat
  PROVE  Lasting(AppendAll(h, s, vs, room).heap, h)
  <1> DEFINE g == Written(h, s, vs)
             a == AppendAll(h, s, vs, room)
  <1>1. /\ Extends(g, h, s.arr) /\ Len(g) = Len(h)
        /\ s.arr # 0 => Len(g[s.arr]) = Len(h[s.arr])
    BY Writes
  <1>2. Len(h) \in Nat
    BY DEF Heaps
  <1>3. Lasting(g, h)
    <2>1. ASSUME NEW i \in 1 .. Len(h)
          PROVE  Len(g[i]) = Len(h[i])
      <3>1. CASE i = s.arr
        BY <1>1, <1>2, <3>1
      <3>2. CASE i # s.arr
        BY <1>1, <3>2 DEF Extends
      <3> QED
        BY <3>1, <3>2
    <2> QED
      BY <1>1, <1>2, <2>1 DEF Lasting
  <1>4. CASE s.len + Len(vs) <= Capacity(h, s)
    BY <1>3, <1>4 DEF AppendAll
  <1>5. CASE ~(s.len + Len(vs) <= Capacity(h, s))
    <2> DEFINE ws == View(h, s) \o vs
    <2>1. ws \in Seq(Values)
      BY ViewsFit
    <2>2. g \in Heaps /\ a = Allocate(g, ws, room)
      BY <1>1, <1>5 DEF AppendAll, Extends
    <2> HIDE DEF ws, g, a
    <2>3. Extends(a.heap, g, 0) /\ Len(a.heap) = Len(g) + 1
      BY <2>1, <2>2, Allocates
    <2>4. Lasting(a.heap, g)
      BY <2>2, <2>3, ExtendedLasts
    <2>5. Lasting(a.heap, h)
      BY <1>1, <1>2, <1>3, <2>2, <2>3, <2>4, LastsOn
    <2> QED
      BY <2>5 DEF a
  <1> QED
    BY <1>4, <1>5

(* What a client holds. *)
AllOptions == RootOptions \cup ChildOptions
HookSets == {X \in SUBSET UNION {o.hooks : o \in AllOptions} : IsFiniteSet(X)}
Owners == ClientIds \cup {Nobody}

Cfgs ==
  [middlewares : Slices, validators : Slices, timeout : Nat, redirect : {"none"}, proxy : Owners,
   pipelineActive : BOOLEAN, hooks : HookSets, userAgent : BOOLEAN, engine : Nat]

Records ==
  [made : {TRUE}, cfg : Cfgs, engine : Nat, middlewares : Slices,
   chain : [engine : Nat, middlewares : Seq(Values)], baremetal : BOOLEAN, prepared : BOOLEAN,
   closeHooks : HookSets, given : [middlewares : Seq(Values), validators : Seq(Values)]]

(* The middlewares of a configuration and its validators share no array. *)
Distinct(cfg) == cfg.middlewares.arr = 0 \/ cfg.middlewares.arr # cfg.validators.arr

LEMMA OptionsFit ==
  ASSUME NEW o \in AllOptions
  PROVE  /\ o.middlewares \in Seq(Values) /\ o.validators \in Seq(Values)
         /\ o.timeout \in Nat /\ o.proxy \in BOOLEAN /\ o.pipeline \in BOOLEAN
         /\ \A X \in HookSets : X \cup o.hooks \in HookSets
  <1>1. Seq(STRING) \subseteq Seq(Values)
    BY DEF Values
  <1>2. /\ o.middlewares \in Seq(Values) /\ o.validators \in Seq(Values)
        /\ o.timeout \in Nat /\ o.proxy \in BOOLEAN /\ o.pipeline \in BOOLEAN
        /\ IsFiniteSet(o.hooks)
    BY <1>1, OptionsAssumption DEF AllOptions
  <1>3. ASSUME NEW X \in HookSets
        PROVE  X \cup o.hooks \in HookSets
    <2>1. IsFiniteSet(X \cup o.hooks)
      BY <1>2, <1>3, FS_Union DEF HookSets
    <2> QED
      BY <2>1, <1>3 DEF HookSets
  <1> QED
    BY <1>2, <1>3

(* The heap and the configuration after options were applied to cfg in h. *)
Applied(st, h, cfg) ==
  /\ st.heap \in Heaps /\ Lasting(st.heap, h)
  /\ \A i \in 1 .. Len(h) :
       i \notin {cfg.middlewares.arr, cfg.validators.arr} => st.heap[i] = h[i]
  /\ st.cfg \in Cfgs /\ st.cfg.engine = cfg.engine
  /\ Moved(st.heap, st.cfg.middlewares, h, cfg.middlewares)
  /\ Moved(st.heap, st.cfg.validators, h, cfg.validators)
  /\ Distinct(st.cfg)

(* Options append to the slices of a configuration and set its fields. *)
LEMMA OptionsApply ==
  ASSUME NEW h \in Heaps, NEW cfg \in Cfgs, NEW o \in AllOptions,
         NEW c \in ClientIds, NEW room \in Rooms,
         Within(h, cfg.middlewares), Within(h, cfg.validators), Distinct(cfg)
  PROVE  LET st == Optioned(cfg, h, o, c, room)
         IN /\ Applied(st, h, cfg)
            /\ View(st.heap, st.cfg.middlewares) = View(h, cfg.middlewares) \o o.middlewares
  <1> DEFINE s == cfg.middlewares
             t == cfg.validators
             m == AppendAll(h, s, o.middlewares, room["middlewares"])
             v == AppendAll(m.heap, t, o.validators, room["validators"])
             st == Optioned(cfg, h, o, c, room)
  <1>1. /\ s \in Slices /\ t \in Slices /\ cfg.hooks \in HookSets
        /\ room["middlewares"] \in Nat /\ room["validators"] \in Nat
    BY RoomsAssumption DEF Cfgs, Slots
  <1>2. /\ st.heap = v.heap
        /\ st.cfg = [cfg EXCEPT !.middlewares = m.slice, !.validators = v.slice,
                                !.timeout = IF o.timeout > 0 THEN o.timeout ELSE @,
                                !.proxy = IF o.proxy THEN c ELSE @,
                                !.pipelineActive = o.pipeline,
                                !.hooks = @ \cup o.hooks]
    BY DEF Optioned
  <1>3. /\ Extends(m.heap, h, s.arr) /\ Moved(m.heap, m.slice, h, s)
        /\ View(m.heap, m.slice) = View(h, s) \o o.middlewares
    BY <1>1, OptionsFit, Appends
  <1>4. Within(m.heap, t) /\ m.heap \in Heaps
    BY <1>1, <1>3, ViewsStay DEF Distinct, Extends, Slices, Within
  <1>5. Extends(v.heap, m.heap, t.arr) /\ Moved(v.heap, v.slice, m.heap, t)
    BY <1>1, <1>4, OptionsFit, Appends
  <1>6. Lasting(m.heap, h) /\ Lasting(v.heap, m.heap)
    BY <1>1, <1>4, OptionsFit, AppendsLast
  <1> HIDE DEF m, v, st
  <1>7. Len(h) \in Nat /\ Len(m.heap) \in Nat /\ Len(v.heap) \in Nat
    BY <1>4, <1>5 DEF Heaps, Extends
  <1>8. /\ m.slice \in Slices /\ v.slice \in Slices
        /\ m.slice.arr = 0 \/ m.slice.arr # t.arr
    BY <1>1, <1>3, <1>5, <1>7 DEF Moved, Within, Distinct, Slices
  <1>9. Within(v.heap, m.slice) /\ View(v.heap, m.slice) = View(m.heap, m.slice)
    <2>1. Within(m.heap, m.slice) /\ t.arr \in Nat
      BY <1>1, <1>3 DEF Moved, Slices
    <2> QED
      BY <1>4, <1>5, <1>8, <2>1, ViewsStay
  <1>10. st.cfg \in Cfgs /\ st.cfg.middlewares = m.slice /\ st.cfg.validators = v.slice /\ st.cfg.engine = cfg.engine
    <2>1. o.timeout \in Nat /\ o.proxy \in BOOLEAN /\ o.pipeline \in BOOLEAN /\ cfg.hooks \cup o.hooks \in HookSets
      BY <1>1, OptionsFit
    <2>2. c \in Owners
      BY DEF Owners
    <2> DEFINE after == IF o.timeout > 0 THEN o.timeout ELSE cfg.timeout
               via == IF o.proxy THEN c ELSE cfg.proxy
    <2>3. after \in Nat /\ via \in Owners
      BY <2>1, <2>2 DEF Cfgs
    <2> DEFINE all == cfg.hooks \cup o.hooks
               flag == o.pipeline
               new == [cfg EXCEPT !.middlewares = m.slice, !.validators = v.slice, !.timeout = after,
                                  !.proxy = via, !.pipelineActive = flag, !.hooks = all]
    <2>4. st.cfg = new
      BY <1>2
    <2>5. all \in HookSets /\ flag \in BOOLEAN
      BY <2>1
    <2> HIDE DEF after, via, all, flag
    <2>6. /\ new \in Cfgs /\ new.middlewares = m.slice /\ new.validators = v.slice
          /\ new.engine = cfg.engine
      BY <1>8, <2>3, <2>5 DEF Cfgs
    <2> QED
      BY <2>4, <2>6
  <1>11. Distinct(st.cfg)
    BY <1>3, <1>5, <1>7, <1>8, <1>10 DEF Distinct, Moved, Within, Slices
  <1>12. \A i \in 1 .. Len(h) : i \notin {s.arr, t.arr} => v.heap[i] = h[i]
    BY <1>3, <1>5, <1>7 DEF Extends
  <1>13. Lasting(v.heap, h) /\ v.heap \in Heaps
    BY <1>4, <1>5, <1>7, <1>6, LastsOn DEF Extends
  <1>14. Moved(v.heap, m.slice, h, s) /\ Moved(v.heap, v.slice, h, t)
    BY <1>1, <1>3, <1>5, <1>7, <1>8, <1>9 DEF Moved, Extends, Slices
  <1> QED
    BY <1>2, <1>3, <1>9, <1>10, <1>11, <1>12, <1>13, <1>14 DEF st, Applied

ClientType ==
  /\ client \in [ClientIds -> Records \cup {NoClient}]
  /\ arrays \in Heaps

LEMMA LiveAreMade ==
  ASSUME NEW here, here \in [ClientIds -> Records \cup {NoClient}]
  PROVE  \A c \in ClientIds : here[c].made <=> here[c] \in Records
  <1>1. \A r \in Records : r.made
    BY DEF Records
  <1>2. ~NoClient.made
    BY DEF NoClient
  <1> QED
    BY <1>1, <1>2

(* The client's own slice and the one in its configuration. *)
Own == {"own", "config"}
Mine(c, k) == IF k = "own" THEN client[c].middlewares ELSE client[c].cfg.middlewares

(* What it was given is in both, and in the chain. *)
SlicesOf(c) ==
  /\ Within(arrays, client[c].cfg.validators)
  /\ \A k \in Own :
       /\ Within(arrays, Mine(c, k))
       /\ View(arrays, Mine(c, k)) = client[c].given.middlewares
  /\ client[c].chain.middlewares = client[c].given.middlewares

(* No array of middlewares has two slices, of middlewares or validators. *)
ArraysApart ==
  /\ \A c, d \in Live, k, l \in Own :
       Mine(c, k).arr # 0 /\ Mine(c, k).arr = Mine(d, l).arr => c = d /\ k = l
  /\ \A c, d \in Live, k \in Own :
       Mine(c, k).arr # 0 => Mine(c, k).arr # client[d].cfg.validators.arr

SlicesInv == ClientType /\ (\A c \in Live : SlicesOf(c)) /\ ArraysApart

(* What applyConfig makes of a configuration. *)
LEMMA ConfigApplies ==
  ASSUME NEW c \in ClientIds, NEW cfg \in Cfgs, NEW h \in Heaps, NEW engine \in Nat, NEW hp,
         NEW room \in Rooms, client \in [ClientIds -> Records \cup {NoClient}],
         Within(h, cfg.middlewares), Within(h, cfg.validators),
         cfg.engine # 0 => Cloned(hp, cfg.engine).engine \in Nat,
         ApplyConfig(c, cfg, h, engine, hp, room)
  PROVE  /\ client' \in [ClientIds -> Records \cup {NoClient}]
         /\ \A d \in ClientIds : d # c => client'[d] = client[d]
         /\ client'[c] \in Records /\ client'[c].cfg = cfg
         /\ client'[c].engine = IF cfg.engine = 0 THEN engine ELSE Cloned(hp, cfg.engine).engine
         /\ client'[c].closeHooks = cfg.hooks
         /\ Extends(arrays', h, 0)
         /\ Within(arrays', client'[c].middlewares)
         /\ client'[c].middlewares.arr = 0 \/ client'[c].middlewares.arr > Len(h)
         /\ View(arrays', client'[c].middlewares) = View(h, cfg.middlewares)
         /\ client'[c].given.middlewares = View(h, cfg.middlewares)
         /\ client'[c].chain.middlewares = View(h, cfg.middlewares)
  <1> DEFINE own == SliceClone(h, cfg.middlewares, room["own"])
             id == IF cfg.engine = 0 THEN engine ELSE Cloned(hp, cfg.engine).engine
             bare == IsBaremetalEligible(cfg)
             mws == View(h, cfg.middlewares)
             vals == View(h, cfg.validators)
             made == [made |-> TRUE, cfg |-> cfg, engine |-> id, middlewares |-> own.slice,
                      chain |-> [engine |-> engine, middlewares |-> mws],
                      baremetal |-> bare, prepared |-> cfg.userAgent, closeHooks |-> cfg.hooks,
                      given |-> [middlewares |-> mws, validators |-> vals]]
  <1>1. room["own"] \in Nat
    BY RoomsAssumption DEF Slots
  <1>2. /\ Extends(own.heap, h, 0) /\ Within(own.heap, own.slice)
        /\ own.slice.arr = 0 \/ own.slice.arr > Len(h)
        /\ View(own.heap, own.slice) = View(h, cfg.middlewares)
    BY <1>1, Clones
  <1>3. arrays' = own.heap /\ client' = [client EXCEPT ![c] = made]
    BY <1>2 DEF ApplyConfig, RebuildChain
  <1>4. mws \in Seq(Values) /\ vals \in Seq(Values) /\ own.slice \in Slices /\ id \in Nat
    BY <1>2, ViewsFit DEF Within
  <1>5. bare \in BOOLEAN /\ cfg.userAgent \in BOOLEAN /\ cfg.hooks \in HookSets
    BY DEF IsBaremetalEligible, Cfgs
  <1> HIDE DEF own, id, bare, mws, vals
  <1>6. /\ made \in Records /\ made.cfg = cfg /\ made.engine = id /\ made.closeHooks = cfg.hooks
        /\ made.middlewares = own.slice /\ made.given.middlewares = mws
        /\ made.chain.middlewares = mws
    BY <1>4, <1>5 DEF Records
  <1> HIDE DEF made
  <1>7. /\ client' \in [ClientIds -> Records \cup {NoClient}]
        /\ \A d \in ClientIds : d # c => client'[d] = client[d]
        /\ client'[c] = made
    BY <1>3, <1>6
  <1> QED
    BY <1>2, <1>3, <1>6, <1>7 DEF mws, id

(* Engines. *)
Kinds == {"http", "tied", "wrapper", "custom"}
Engines == [kind : Kinds, timeout : Nat, redirect : {"ten", "standard", "stop"}, dialer : Owners]

(* The engines of hp are in g, and those of their own unchanged. *)
Preserved(g, hp) ==
  \A i \in 1 .. Len(hp) : g[i].kind = hp[i].kind /\ (hp[i].kind = "http" => g[i] = hp[i])

EngineOf(c) ==
  /\ client[c].engine \in 1 .. Len(engines)
  /\ client[c].cfg.engine \in 0 .. Len(engines)
  /\ engines[client[c].engine].kind = "http" =>
       /\ engines[client[c].engine].dialer = c
       /\ client[c].cfg.timeout > 0 => engines[client[c].engine].timeout = client[c].cfg.timeout

EnginesInv == engines \in Seq(Engines) /\ \A c \in Live : EngineOf(c)

(* A clone is a new engine, but for those that cannot be cloned. *)
LEMMA EngineClones ==
  ASSUME NEW hp \in Seq(Engines), NEW e \in 1 .. Len(hp)
  PROVE  LET cl == Cloned(hp, e)
         IN /\ cl.heap \in Seq(Engines) /\ Len(hp) <= Len(cl.heap)
            /\ \A i \in 1 .. Len(hp) : cl.heap[i] = hp[i]
            /\ cl.engine \in 1 .. Len(cl.heap)
            /\ cl.engine > Len(hp) \/ (cl.engine = e /\ hp[e].kind # "http")
  <1>1. hp[e] \in Engines
    OBVIOUS
  <1>2. CASE hp[e].kind \in {"http", "tied"}
    <2>1. Cloned(hp, e) = [heap |-> Append(hp, hp[e]), engine |-> Len(hp) + 1]
      BY <1>2 DEF Cloned
    <2>2. /\ Append(hp, hp[e]) \in Seq(Engines) /\ Len(Append(hp, hp[e])) = Len(hp) + 1
          /\ \A i \in 1 .. Len(hp) : Append(hp, hp[e])[i] = hp[i]
      BY <1>1
    <2> QED
      BY <2>1, <2>2
  <1>3. CASE hp[e].kind \notin {"http", "tied"}
    BY <1>3 DEF Cloned
  <1> QED
    BY <1>2, <1>3

(* The configuration reaches the engine it is for, and of the others only   *)
(* those that share a transport with it.                                    *)
LEMMA EngineTuned ==
  ASSUME NEW hp \in Seq(Engines), NEW e \in 1 .. Len(hp), NEW cfg \in Cfgs, NEW c \in ClientIds
  PROVE  LET g == Tuned(hp, e, cfg, c)
         IN /\ g \in Seq(Engines) /\ Len(g) = Len(hp)
            /\ \A i \in 1 .. Len(hp) :
                 /\ g[i].kind = hp[i].kind
                 /\ i # e /\ hp[i].kind = "http" => g[i] = hp[i]
            /\ g[e].kind = "http" => g[e].dialer = c /\ (cfg.timeout > 0 => g[e].timeout = cfg.timeout)
  <1> DEFINE g == Tuned(hp, e, cfg, c)
             x == hp[e]
             y == Configured(x, cfg, c)
  <1>1. x \in Engines /\ c \in Owners
    BY DEF Owners
  <1> HIDE DEF x
  <1>2. ASSUME x.kind # "custom"
        PROVE  /\ y \in Engines /\ y.kind = x.kind /\ y.dialer = c
               /\ cfg.timeout > 0 => y.timeout = cfg.timeout
    <2> DEFINE n == IF cfg.timeout > 0 THEN cfg.timeout ELSE x.timeout
    <2>1. y = [x EXCEPT !.timeout = n, !.redirect = "stop", !.dialer = c]
      BY <1>2 DEF Configured, RedirectPolicy, Cfgs
    <2>2. n \in Nat
      BY <1>1 DEF Engines, Cfgs
    <2>3. cfg.timeout > 0 => n = cfg.timeout
      OBVIOUS
    <2> HIDE DEF n, y
    <2>4. y \in Engines /\ y.kind = x.kind /\ y.dialer = c /\ y.timeout = n
      BY <1>1, <2>1, <2>2 DEF Engines
    <2> QED
      BY <2>3, <2>4
  <1>3. ASSUME x.kind = "custom"
        PROVE  y = x
    BY <1>3 DEF Configured
  <1>4. /\ y \in Engines /\ y.kind = x.kind
        /\ y.kind = "http" => y.dialer = c /\ (cfg.timeout > 0 => y.timeout = cfg.timeout)
    BY <1>1, <1>2, <1>3
  <1> HIDE DEF y
  <1>5. DOMAIN g = 1 .. Len(hp) /\ g[e] = y
    BY DEF Tuned, x, y
  <1>6. ASSUME NEW i \in 1 .. Len(hp), i # e
        PROVE  /\ g[i] \in Engines /\ g[i].kind = hp[i].kind
               /\ hp[i].kind = "http" => g[i] = hp[i]
    <2>1. hp[i] \in Engines
      OBVIOUS
    <2>2. g[i] = IF hp[i].kind = "tied" /\ hp[e].kind = "tied" THEN [hp[i] EXCEPT !.dialer = c] ELSE hp[i]
      BY <1>6 DEF Tuned
    <2>3. [hp[i] EXCEPT !.dialer = c] \in Engines /\ [hp[i] EXCEPT !.dialer = c].kind = hp[i].kind
      BY <1>1, <2>1 DEF Engines
    <2> QED
      BY <2>1, <2>2, <2>3
  <1>7. g \in [1 .. Len(hp) -> Engines]
    <2>1. g = [i \in 1 .. Len(hp) |-> g[i]]
      BY DEF Tuned
    <2>2. \A i \in 1 .. Len(hp) : g[i] \in Engines
      BY <1>4, <1>5, <1>6
    <2> HIDE DEF g
    <2> QED
      BY <2>1, <2>2
  <1> HIDE DEF g
  <1>8. g \in Seq(Engines) /\ Len(g) = Len(hp)
    BY <1>5, <1>7
  <1>9. \A i \in 1 .. Len(hp) : g[i].kind = hp[i].kind /\ (i # e /\ hp[i].kind = "http" => g[i] = hp[i])
    BY <1>4, <1>5, <1>6 DEF x
  <1>10. Tuned(hp, e, cfg, c) = g
    BY DEF g
  <1> QED
    BY <1>4, <1>5, <1>8, <1>9, <1>10

LEMMA LiveRecords ==
  ASSUME ClientType, NEW c \in Live
  PROVE  /\ c \in ClientIds /\ client[c] \in Records /\ client[c].cfg \in Cfgs
         /\ client[c].middlewares \in Slices /\ client[c].cfg.middlewares \in Slices
         /\ client[c].cfg.validators \in Slices
  <1>1. c \in ClientIds /\ client[c] \in Records
    BY LiveAreMade DEF ClientType, Live
  <1> QED
    BY <1>1 DEF Records, Cfgs

(* What With makes: a client whose middlewares are in new arrays, whose     *)
(* validators are behind those of its parent or in a new array, and whose   *)
(* engine is new or no *http.Client that can be cloned.  Nothing else       *)
(* changes, but for the engines that were none before.                      *)
DerivedFrom(p, c) ==
  LET t == client[p].cfg.validators
      new == client'[c]
  IN /\ p \in Live /\ c \notin Live
     /\ client' \in [ClientIds -> Records \cup {NoClient}] /\ new \in Records
     /\ \A d \in ClientIds : d # c => client'[d] = client[d]
     /\ new.closeHooks = new.cfg.hooks
     /\ Extends(arrays', arrays, t.arr) /\ Lasting(arrays', arrays)
     /\ Moved(arrays', new.cfg.validators, arrays, t)
     /\ Within(arrays', new.middlewares) /\ Within(arrays', new.cfg.middlewares)
     /\ new.middlewares.arr = 0 \/ new.middlewares.arr > Len(arrays)
     /\ new.cfg.middlewares.arr = 0 \/ new.cfg.middlewares.arr > Len(arrays)
     /\ new.middlewares.arr = 0 \/ new.middlewares.arr # new.cfg.middlewares.arr
     /\ new.middlewares.arr = 0 \/ new.middlewares.arr # new.cfg.validators.arr
     /\ Distinct(new.cfg)
     /\ View(arrays', new.middlewares) = new.given.middlewares
     /\ View(arrays', new.cfg.middlewares) = new.given.middlewares
     /\ new.chain.middlewares = new.given.middlewares
     /\ engines' \in Seq(Engines) /\ Len(engines) <= Len(engines')
     /\ Preserved(engines', engines)
     /\ new.engine \in 1 .. Len(engines') /\ new.cfg.engine \in 0 .. Len(engines')
     /\ engines'[new.engine].kind = "http" =>
          /\ engines'[new.engine].dialer = c
          /\ new.cfg.timeout > 0 => engines'[new.engine].timeout = new.cfg.timeout

LEMMA Derives ==
  ASSUME SlicesInv, EnginesInv, NEW p \in ClientIds, NEW c \in ClientIds, NEW o \in ChildOptions,
         NEW room \in Rooms, With(p, c, o, room)
  PROVE  DerivedFrom(p, c)
  <1> DEFINE old == client[p].cfg
             copy == CloneMiddlewares(arrays, old.middlewares, room["copy"])
             cfg == [old EXCEPT !.middlewares = copy.slice]
             st == Optioned(cfg, copy.heap, o, c, room)
             eng == CloneEngine(client[p].engine)
             custom == IF st.cfg.engine = 0 THEN [heap |-> eng.heap, engine |-> eng.engine]
                       ELSE Cloned(eng.heap, st.cfg.engine)
             new == client'[c]
             h == arrays
  <1>1. p \in Live /\ c \notin Live /\ ApplyConfig(c, st.cfg, st.heap, eng.engine, eng.heap, room)
    BY DEF With
  <1>2. /\ client[p] \in Records /\ old \in Cfgs /\ old.middlewares \in Slices /\ old.validators \in Slices
        /\ h \in Heaps /\ Len(h) \in Nat
    BY <1>1, LiveRecords DEF SlicesInv, ClientType, Heaps
  <1>3. Within(h, old.middlewares) /\ Within(h, old.validators)
    <2>1. old.middlewares = Mine(p, "config") /\ "config" \in Own
      BY DEF Mine, Own
    <2> QED
      BY <1>1, <2>1 DEF SlicesInv, SlicesOf
  <1>4. room["copy"] \in Nat
    BY RoomsAssumption DEF Slots
  <1>5. /\ Extends(copy.heap, h, 0) /\ Within(copy.heap, copy.slice)
        /\ copy.slice.arr = 0 \/ copy.slice.arr > Len(h)
    BY <1>2, <1>3, <1>4, Clones DEF CloneMiddlewares
  <1>6. /\ copy.heap \in Heaps /\ copy.slice \in Slices /\ Len(copy.heap) \in Nat
    BY <1>5 DEF Extends, Within, Heaps
  <1>7. Within(copy.heap, old.validators)
    BY <1>2, <1>3, <1>5, ViewsStay DEF Slices
  <1> HIDE DEF copy
  <1>8. cfg \in Cfgs /\ cfg.middlewares = copy.slice /\ cfg.validators = old.validators /\ cfg.engine = old.engine
    <2> HIDE DEF old
    <2> QED
      BY <1>2, <1>6 DEF Cfgs
  <1> HIDE DEF cfg
  <1>9. Distinct(cfg)
    BY <1>2, <1>3, <1>5, <1>6, <1>8 DEF Distinct, Within, Slices
  <1>10. /\ st.heap \in Heaps /\ Len(copy.heap) <= Len(st.heap) /\ Lasting(st.heap, copy.heap)
         /\ \A i \in 1 .. Len(copy.heap) :
              i \notin {copy.slice.arr, old.validators.arr} => st.heap[i] = copy.heap[i]
         /\ st.cfg \in Cfgs /\ st.cfg.engine = old.engine
         /\ Moved(st.heap, st.cfg.middlewares, copy.heap, copy.slice)
         /\ Moved(st.heap, st.cfg.validators, copy.heap, old.validators)
         /\ Distinct(st.cfg)
    <2>1. o \in AllOptions
      BY DEF AllOptions
    <2>2. Within(copy.heap, cfg.middlewares) /\ Within(copy.heap, cfg.validators)
      BY <1>5, <1>7, <1>8
    <2>3. Applied(st, copy.heap, cfg)
      BY <1>6, <1>8, <1>9, <2>1, <2>2, OptionsApply
    <2> HIDE DEF st
    <2> QED
      BY <1>8, <2>3 DEF Applied, Lasting
  <1> HIDE DEF st
  <1>11. Extends(st.heap, h, old.validators.arr)
    <2>1. Len(h) <= Len(copy.heap) /\ Len(st.heap) \in Nat
      BY <1>5, <1>10 DEF Extends, Heaps
    <2>2. ASSUME NEW i \in 1 .. Len(h), i # old.validators.arr
          PROVE  st.heap[i] = h[i]
      <3>1. i \in 1 .. Len(copy.heap) /\ i # copy.slice.arr /\ i # 0
        BY <1>2, <1>5, <1>6, <2>1
      <3>2. copy.heap[i] = h[i]
        BY <1>5, <3>1 DEF Extends
      <3> QED
        BY <1>10, <2>2, <3>1, <3>2
    <2> QED
      BY <1>2, <1>6, <1>10, <2>1, <2>2 DEF Extends
  <1>12. /\ Within(st.heap, st.cfg.middlewares) /\ Within(st.heap, st.cfg.validators)
         /\ st.cfg.middlewares.arr = 0 \/ st.cfg.middlewares.arr > Len(h)
         /\ Moved(st.heap, st.cfg.validators, h, old.validators)
    BY <1>2, <1>5, <1>6, <1>10 DEF Extends, Moved, Slices, Within
  <1>13. /\ engines \in Seq(Engines) /\ client[p].engine \in 1 .. Len(engines)
         /\ old.engine \in 0 .. Len(engines)
    BY <1>1 DEF EnginesInv, EngineOf
  <1>14. /\ eng.heap \in Seq(Engines) /\ Len(engines) <= Len(eng.heap)
         /\ \A i \in 1 .. Len(engines) : eng.heap[i] = engines[i]
         /\ eng.engine \in 1 .. Len(eng.heap)
         /\ eng.engine > Len(engines) \/ engines[eng.engine].kind # "http"
    BY <1>13, EngineClones DEF CloneEngine
  <1> HIDE DEF eng
  <1>15. Len(engines) \in Nat /\ Len(eng.heap) \in Nat
    BY <1>13, <1>14
  <1>16. /\ custom.heap \in Seq(Engines) /\ Len(engines) <= Len(custom.heap)
         /\ \A i \in 1 .. Len(engines) : custom.heap[i] = engines[i]
         /\ custom.engine \in 1 .. Len(custom.heap)
         /\ custom.engine > Len(engines) \/ custom.heap[custom.engine].kind # "http"
         /\ custom.engine = IF st.cfg.engine = 0 THEN eng.engine ELSE Cloned(eng.heap, st.cfg.engine).engine
    <2>1. CASE st.cfg.engine = 0
      BY <1>14, <1>15, <2>1
    <2>2. CASE st.cfg.engine # 0
      <3> DEFINE cl == Cloned(eng.heap, st.cfg.engine)
      <3>1. st.cfg.engine \in 1 .. Len(eng.heap)
        BY <1>10, <1>13, <1>14, <1>15, <2>2
      <3>2. /\ cl.heap \in Seq(Engines) /\ Len(eng.heap) <= Len(cl.heap)
            /\ \A i \in 1 .. Len(eng.heap) : cl.heap[i] = eng.heap[i]
            /\ cl.engine \in 1 .. Len(cl.heap)
            /\ cl.engine > Len(eng.heap) \/ (cl.engine = st.cfg.engine /\ eng.heap[st.cfg.engine].kind # "http")
        BY <1>14, <3>1, EngineClones
      <3>3. custom = cl
        BY <2>2
      <3> HIDE DEF cl, custom
      <3>4. /\ custom.heap \in Seq(Engines) /\ Len(engines) <= Len(custom.heap)
            /\ \A i \in 1 .. Len(engines) : custom.heap[i] = engines[i]
            /\ custom.engine \in 1 .. Len(custom.heap)
            /\ custom.engine > Len(engines) \/ custom.heap[custom.engine].kind # "http"
        BY <1>14, <1>15, <3>1, <3>2, <3>3
      <3> QED
        BY <2>2, <3>3, <3>4 DEF cl
    <2> QED
      BY <2>1, <2>2
  <1>17. engines' = Tuned(custom.heap, custom.engine, st.cfg, c)
    BY <1>1 DEF ApplyConfig
  <1> HIDE DEF custom
  <1>18. /\ client' \in [ClientIds -> Records \cup {NoClient}]
         /\ \A d \in ClientIds : d # c => client'[d] = client[d]
         /\ new \in Records /\ new.cfg = st.cfg /\ new.engine = custom.engine
         /\ new.closeHooks = st.cfg.hooks
         /\ Extends(arrays', st.heap, 0)
         /\ Within(arrays', new.middlewares)
         /\ new.middlewares.arr = 0 \/ new.middlewares.arr > Len(st.heap)
         /\ View(arrays', new.middlewares) = View(st.heap, st.cfg.middlewares)
         /\ new.given.middlewares = View(st.heap, st.cfg.middlewares)
         /\ new.chain.middlewares = View(st.heap, st.cfg.middlewares)
    <2>1. eng.engine \in Nat /\ client \in [ClientIds -> Records \cup {NoClient}]
      BY <1>14, <1>15 DEF SlicesInv, ClientType
    <2>2. st.cfg.engine # 0 => Cloned(eng.heap, st.cfg.engine).engine \in Nat
      BY <1>16
    <2>3. st.cfg \in Cfgs /\ st.heap \in Heaps /\ Within(st.heap, st.cfg.middlewares)
          /\ Within(st.heap, st.cfg.validators) /\ room \in Rooms
      BY <1>10, <1>12
    <2>4. custom.engine = IF st.cfg.engine = 0 THEN eng.engine ELSE Cloned(eng.heap, st.cfg.engine).engine
      BY <1>16
    <2>5. /\ client' \in [ClientIds -> Records \cup {NoClient}]
          /\ \A d \in ClientIds : d # c => client'[d] = client[d]
          /\ new \in Records /\ new.cfg = st.cfg
          /\ new.engine = IF st.cfg.engine = 0 THEN eng.engine ELSE Cloned(eng.heap, st.cfg.engine).engine
          /\ new.closeHooks = st.cfg.hooks
          /\ Extends(arrays', st.heap, 0)
          /\ Within(arrays', new.middlewares)
          /\ new.middlewares.arr = 0 \/ new.middlewares.arr > Len(st.heap)
          /\ View(arrays', new.middlewares) = View(st.heap, st.cfg.middlewares)
          /\ new.given.middlewares = View(st.heap, st.cfg.middlewares)
          /\ new.chain.middlewares = View(st.heap, st.cfg.middlewares)
      BY <1>1, <2>1, <2>2, <2>3, ConfigApplies
    <2> QED
      BY <2>4, <2>5, Zenon
  <1>19. /\ engines' \in Seq(Engines) /\ Len(engines') = Len(custom.heap)
         /\ \A i \in 1 .. Len(custom.heap) :
              /\ engines'[i].kind = custom.heap[i].kind
              /\ i # custom.engine /\ custom.heap[i].kind = "http" => engines'[i] = custom.heap[i]
         /\ engines'[custom.engine].kind = "http" =>
              /\ engines'[custom.engine].dialer = c
              /\ st.cfg.timeout > 0 => engines'[custom.engine].timeout = st.cfg.timeout
    <2> DEFINE hp == custom.heap
               e == custom.engine
               k == st.cfg
    <2>1. hp \in Seq(Engines) /\ e \in 1 .. Len(hp) /\ k \in Cfgs
      BY <1>10, <1>16
    <2> HIDE DEF hp, e, k
    <2>2. LET y == Tuned(hp, e, k, c)
          IN /\ y \in Seq(Engines) /\ Len(y) = Len(hp)
             /\ \A i \in 1 .. Len(hp) :
                  /\ y[i].kind = hp[i].kind
                  /\ i # e /\ hp[i].kind = "http" => y[i] = hp[i]
             /\ y[e].kind = "http" => y[e].dialer = c /\ (k.timeout > 0 => y[e].timeout = k.timeout)
      BY <2>1, EngineTuned
    <2> QED
      BY <1>17, <2>2 DEF hp, e, k
  <1> HIDE DEF new
  <1>20. /\ Len(engines) <= Len(engines')
         /\ Preserved(engines', engines)
         /\ new.engine \in 1 .. Len(engines') /\ new.cfg.engine \in 0 .. Len(engines')
    <2>1. Len(custom.heap) \in Nat
      BY <1>16
    <2>2. ASSUME NEW e \in 1 .. Len(engines)
          PROVE  engines'[e].kind = engines[e].kind /\ (engines[e].kind = "http" => engines'[e] = engines[e])
      <3>1. e \in 1 .. Len(custom.heap) /\ custom.heap[e] = engines[e]
        BY <1>15, <1>16, <2>1
      <3>2. e # custom.engine \/ custom.heap[custom.engine].kind # "http"
        BY <1>15, <1>16
      <3> QED
        BY <1>19, <3>1, <3>2
    <2>3. new.engine \in 1 .. Len(engines') /\ Len(engines) <= Len(engines')
      BY <1>16, <1>18, <1>19
    <2>4. new.cfg.engine \in 0 .. Len(engines')
      BY <1>10, <1>13, <1>15, <1>18, <2>1, <2>3, <1>19
    <2> QED
      BY <2>2, <2>3, <2>4 DEF Preserved
  <1>21. /\ Within(arrays', st.cfg.middlewares) /\ View(arrays', st.cfg.middlewares) = View(st.heap, st.cfg.middlewares)
         /\ Within(arrays', st.cfg.validators)
    <2>1. 0 \in Nat /\ st.heap \in Heaps /\ Extends(arrays', st.heap, 0)
      BY <1>10, <1>18
    <2>2. \A s : Within(st.heap, s) => Within(arrays', s) /\ View(arrays', s) = View(st.heap, s)
      BY <2>1, ViewsStay
    <2> QED
      BY <1>12, <2>2
  <1>22. /\ Extends(arrays', h, old.validators.arr)
         /\ Moved(arrays', st.cfg.validators, h, old.validators)
         /\ new.middlewares.arr = 0 \/ new.middlewares.arr > Len(h)
    <2>1. Len(st.heap) \in Nat /\ old.validators.arr \in Nat
      BY <1>2, <1>10 DEF Heaps, Slices
    <2>2. Extends(arrays', h, old.validators.arr)
      BY <1>2, <1>11, <1>18, <2>1, Extended
    <2> QED
      BY <1>2, <1>11, <1>12, <1>18, <1>21, <2>1, <2>2 DEF Extends, Moved, Within, Slices
  <1>23. /\ new.middlewares.arr = 0 \/ new.middlewares.arr # st.cfg.middlewares.arr
         /\ new.middlewares.arr = 0 \/ new.middlewares.arr # st.cfg.validators.arr
    BY <1>10, <1>12, <1>18 DEF Within, Slices, Heaps
  <1>24. Lasting(arrays', h)
    <2>1. Lasting(copy.heap, h) /\ Lasting(arrays', st.heap)
      BY <1>2, <1>5, <1>10, <1>18, ExtendedLasts
    <2>2. Lasting(st.heap, h)
      BY <1>2, <1>6, <1>10, <2>1, LastsOn DEF Heaps
    <2>3. Len(arrays') \in Nat
      BY <1>22 DEF Extends, Heaps
    <2> QED
      BY <1>2, <1>10, <2>1, <2>2, <2>3, LastsOn
  <1> QED
    BY <1>1, <1>10, <1>12, <1>18, <1>19, <1>20, <1>21, <1>22, <1>23, <1>24 DEF new, old, DerivedFrom

(* The slice and the heap a, made by appending to s in h: it holds ws. *)
Appended(a, h, s, ws) ==
  /\ Extends(a.heap, h, s.arr) /\ Moved(a.heap, a.slice, h, s) /\ View(a.heap, a.slice) = ws
  /\ Lasting(a.heap, h)

LEMMA AppendsLate ==
  ASSUME NEW h \in Heaps, NEW s, Within(h, s), NEW room \in Nat, NEW ws, View(h, s) = ws
  PROVE  Appended(AppendAll(h, s, <<"late">>, room), h, s, Append(ws, "late"))
  <1>1. <<"late">> \in Seq(Values) /\ "late" \in Values
    BY DEF Values
  <1>2. Appended(AppendAll(h, s, <<"late">>, room), h, s, View(h, s) \o <<"late">>)
    BY <1>1, Appends, AppendsLast DEF Appended
  <1>3. View(h, s) \in Seq(Values)
    BY ViewsFit
  <1>4. View(h, s) \o <<"late">> = Append(View(h, s), "late")
    BY <1>1, <1>3, AppendIsConcat
  <1> QED
    BY <1>2, <1>4

(* Both slices hold ws then, and still share no array. *)
BothAppended(h, s, t, a, b, ws) ==
  /\ b.heap \in Heaps /\ Lasting(b.heap, h)
  /\ \A i \in 1 .. Len(h) : i \notin {s.arr, t.arr} => b.heap[i] = h[i]
  /\ Moved(b.heap, a.slice, h, s) /\ Moved(b.heap, b.slice, h, t)
  /\ a.slice.arr = 0 \/ a.slice.arr # b.slice.arr
  /\ View(b.heap, a.slice) = ws /\ View(b.heap, b.slice) = ws

(* Appending to t after s leaves what was appended to s. *)
LEMMA AppendsTwice ==
  ASSUME NEW h \in Heaps, NEW s, NEW t, NEW a, NEW b, NEW ws, Within(h, s), Within(h, t),
         s.arr = 0 \/ s.arr # t.arr,
         Appended(a, h, s, ws), Appended(b, a.heap, t, ws)
  PROVE  BothAppended(h, s, t, a, b, ws)
  <1>1. /\ Extends(a.heap, h, s.arr) /\ Moved(a.heap, a.slice, h, s) /\ View(a.heap, a.slice) = ws
        /\ Extends(b.heap, a.heap, t.arr) /\ Moved(b.heap, b.slice, a.heap, t) /\ View(b.heap, b.slice) = ws
    BY DEF Appended
  <1>2. /\ a.heap \in Heaps /\ b.heap \in Heaps /\ Len(h) <= Len(a.heap) /\ Len(a.heap) <= Len(b.heap)
        /\ Len(h) \in Nat /\ Len(a.heap) \in Nat /\ Len(b.heap) \in Nat
    BY <1>1 DEF Extends, Heaps
  <1>3. /\ s.arr \in Nat /\ t.arr \in Nat /\ s.arr <= Len(h) /\ t.arr <= Len(h)
        /\ a.slice.arr \in Nat /\ b.slice.arr \in Nat
    BY <1>1, <1>2 DEF Moved, Within, Slices
  <1>4. a.slice.arr = 0 \/ a.slice.arr # t.arr
    BY <1>1, <1>2, <1>3 DEF Moved
  <1>5. Within(a.heap, a.slice)
    BY <1>1 DEF Moved
  <1>6. Within(b.heap, a.slice) /\ View(b.heap, a.slice) = ws
    <2>1. \A r : Within(a.heap, r) /\ (r.arr # t.arr \/ r.arr = 0) =>
                   Within(b.heap, r) /\ View(b.heap, r) = View(a.heap, r)
      BY <1>1, <1>2, <1>3, ViewsStay
    <2> QED
      BY <1>1, <1>4, <1>5, <2>1
  <1>7. ASSUME NEW i \in 1 .. Len(h), i \notin {s.arr, t.arr}
        PROVE  b.heap[i] = h[i]
    <2>1. i \in 1 .. Len(a.heap) /\ a.heap[i] = h[i]
      BY <1>1, <1>2, <1>7 DEF Extends
    <2> QED
      BY <1>1, <1>7, <2>1 DEF Extends
  <1>8. Moved(b.heap, a.slice, h, s)
    BY <1>1, <1>6 DEF Moved
  <1>9. Within(b.heap, b.slice) /\ (b.slice.arr = t.arr \/ b.slice.arr = 0 \/ b.slice.arr > Len(a.heap))
    BY <1>1 DEF Moved
  <1>10. Moved(b.heap, b.slice, h, t)
    BY <1>2, <1>3, <1>9 DEF Moved
  <1>11. a.slice.arr <= Len(a.heap)
    BY <1>2, <1>3, <1>5 DEF Within
  <1>12. Lasting(b.heap, h)
    BY <1>2, LastsOn DEF Appended
  <1>13. a.slice.arr = 0 \/ a.slice.arr # b.slice.arr
    BY <1>2, <1>3, <1>4, <1>9, <1>11
  <1> QED
    BY <1>1, <1>2, <1>6, <1>7, <1>8, <1>10, <1>13, <1>12 DEF BothAppended

(* What Use adds to: two slices that share no array. *)
GrownBy(c) ==
  LET old == client[c]
      new == client'[c]
  IN /\ c \in Live
     /\ client' \in [ClientIds -> Records \cup {NoClient}] /\ new \in Records
     /\ \A d \in ClientIds : d # c => client'[d] = client[d]
     /\ new.engine = old.engine /\ new.closeHooks = old.closeHooks
     /\ new.cfg.validators = old.cfg.validators /\ new.cfg.engine = old.cfg.engine
     /\ new.cfg.timeout = old.cfg.timeout /\ new.cfg.proxy = old.cfg.proxy
     /\ new.cfg.hooks = old.cfg.hooks
     /\ arrays' \in Heaps /\ Lasting(arrays', arrays)
     /\ \A i \in 1 .. Len(arrays) :
          i \notin {old.middlewares.arr, old.cfg.middlewares.arr} => arrays'[i] = arrays[i]
     /\ Moved(arrays', new.middlewares, arrays, old.middlewares)
     /\ Moved(arrays', new.cfg.middlewares, arrays, old.cfg.middlewares)
     /\ new.middlewares.arr = 0 \/ new.middlewares.arr # new.cfg.middlewares.arr
     /\ new.given.middlewares = Append(old.given.middlewares, "late")
     /\ View(arrays', new.middlewares) = new.given.middlewares
     /\ View(arrays', new.cfg.middlewares) = new.given.middlewares
     /\ new.chain.middlewares = new.given.middlewares

LEMMA Grows ==
  ASSUME SlicesInv, NEW c \in ClientIds, NEW room \in Rooms, Use(c, "late", room)
  PROVE  GrownBy(c)
  <1> DEFINE old == client[c]
             new == client'[c]
             h == arrays
             s == old.middlewares
             t == old.cfg.middlewares
             given == old.given.middlewares
             more == Append(given, "late")
             a == AppendAll(h, s, <<"late">>, room["own"])
             b == AppendAll(a.heap, t, <<"late">>, room["middlewares"])
             chain == [engine |-> old.engine, middlewares |-> View(b.heap, a.slice)]
  <1>1. c \in Live /\ arrays' = b.heap
        /\ client' = [client EXCEPT
             ![c].middlewares = a.slice,
             ![c].cfg.middlewares = b.slice,
             ![c].baremetal = FALSE,
             ![c].chain = chain,
             ![c].given.middlewares = more]
    BY DEF Use, RebuiltChain, RebuildChain
  <1>2. old \in Records /\ s \in Slices /\ t \in Slices /\ h \in Heaps
    <2>1. ClientType
      BY DEF SlicesInv
    <2> QED
      BY <1>1, <2>1, LiveRecords DEF ClientType
  <1>3. given \in Seq(Values) /\ old.engine \in Nat /\ old.cfg \in Cfgs
    BY <1>2 DEF Records
  <1>4. more \in Seq(Values)
    <2>1. "late" \in Values
      BY DEF Values
    <2> HIDE DEF given
    <2> QED
      BY <1>3, <2>1
  <1>5. /\ Within(h, s) /\ Within(h, t) /\ View(h, s) = given /\ View(h, t) = given
        /\ s.arr = 0 \/ s.arr # t.arr
    <2>1. s = Mine(c, "own") /\ t = Mine(c, "config") /\ {"own", "config"} \subseteq Own
      BY DEF Mine, Own
    <2> QED
      BY <1>1, <2>1 DEF SlicesInv, SlicesOf, ArraysApart
  <1>6. room["own"] \in Nat /\ room["middlewares"] \in Nat
    BY RoomsAssumption DEF Slots
  <1> HIDE DEF s, t, given
  <1>7. Appended(a, h, s, more)
    BY <1>2, <1>5, <1>6, AppendsLate
  <1>8. a.heap \in Heaps /\ Within(a.heap, t) /\ View(a.heap, t) = given
    <2>1. Extends(a.heap, h, s.arr) /\ s.arr \in Nat /\ (t.arr = 0 \/ t.arr # s.arr)
      BY <1>2, <1>5, <1>7 DEF Appended, Slices
    <2>2. \A r : Within(h, r) /\ (r.arr # s.arr \/ r.arr = 0) =>
                   Within(a.heap, r) /\ View(a.heap, r) = View(h, r)
      BY <1>2, <2>1, ViewsStay
    <2>3. Within(a.heap, t) /\ View(a.heap, t) = View(h, t)
      BY <1>5, <2>1, <2>2
    <2>4. a.heap \in Heaps
      BY <2>1 DEF Extends
    <2> QED
      BY <1>5, <2>3, <2>4 DEF Appended
  <1> HIDE DEF a
  <1>9. Appended(b, a.heap, t, more)
    BY <1>6, <1>8, AppendsLate
  <1> HIDE DEF a, b
  <1>10. /\ b.heap \in Heaps /\ Lasting(b.heap, h)
         /\ \A i \in 1 .. Len(h) : i \notin {s.arr, t.arr} => b.heap[i] = h[i]
         /\ Moved(b.heap, a.slice, h, s) /\ Moved(b.heap, b.slice, h, t)
         /\ a.slice.arr = 0 \/ a.slice.arr # b.slice.arr
         /\ View(b.heap, a.slice) = more /\ View(b.heap, b.slice) = more
    <2> HIDE DEF more, h
    <2>1. BothAppended(h, s, t, a, b, more)
      BY <1>2, <1>5, <1>7, <1>9, AppendsTwice
    <2> QED
      BY <2>1 DEF BothAppended
  <1>11. a.slice \in Slices /\ b.slice \in Slices
    BY <1>10 DEF Moved, Within
  <1>12. chain \in [engine : Nat, middlewares : Seq(Values)] /\ chain.middlewares = more
    BY <1>3, <1>4, <1>10
  <1> HIDE DEF more, chain
  <1>13. new = [old EXCEPT !.middlewares = a.slice, !.cfg.middlewares = b.slice,
                           !.baremetal = FALSE, !.chain = chain, !.given.middlewares = more]
         /\ \A d \in ClientIds : d # c => client'[d] = client[d]
    BY <1>1 DEF SlicesInv, ClientType
  <1>14. /\ new \in Records /\ new.engine = old.engine /\ new.closeHooks = old.closeHooks
         /\ new.middlewares = a.slice /\ new.chain = chain /\ new.given.middlewares = more
         /\ new.cfg = [old.cfg EXCEPT !.middlewares = b.slice]
    <2> DEFINE x == a.slice
               y == b.slice
    <2>1. x \in Slices /\ y \in Slices
      BY <1>11
    <2>2. new = [old EXCEPT !.middlewares = x, !.cfg.middlewares = y,
                           !.baremetal = FALSE, !.chain = chain, !.given.middlewares = more]
      BY <1>13
    <2> HIDE DEF new, old, x, y
    <2>3. new.cfg = [old.cfg EXCEPT !.middlewares = y]
      BY <1>2, <2>2 DEF Records
    <2>4. new.cfg \in Cfgs
      BY <1>3, <2>1, <2>3 DEF Cfgs
    <2>5. new.given = [old.given EXCEPT !.middlewares = more] /\ new.baremetal = FALSE
          /\ new.engine = old.engine /\ new.closeHooks = old.closeHooks
          /\ new.middlewares = x /\ new.chain = chain /\ new.prepared = old.prepared /\ new.made = old.made
      BY <1>2, <2>2 DEF Records
    <2>6. new.given \in [middlewares : Seq(Values), validators : Seq(Values)] /\ new.given.middlewares = more
      BY <1>2, <1>4, <2>5 DEF Records
    <2>7. new \in Records
      BY <1>2, <1>12, <2>1, <2>2, <2>4, <2>5, <2>6 DEF Records
    <2> QED
      BY <2>3, <2>5, <2>6, <2>7 DEF x, y
  <1>15. /\ new.cfg.middlewares = b.slice /\ new.cfg.validators = old.cfg.validators
         /\ new.cfg.engine = old.cfg.engine /\ new.cfg.timeout = old.cfg.timeout
         /\ new.cfg.proxy = old.cfg.proxy /\ new.cfg.hooks = old.cfg.hooks
    <2> HIDE DEF new, old
    <2> QED
      BY <1>3, <1>14 DEF Cfgs
  <1>16. client' \in [ClientIds -> Records \cup {NoClient}]
    <2>1. client \in [ClientIds -> Records \cup {NoClient}]
      BY DEF SlicesInv, ClientType
    <2>2. client' \in [ClientIds -> {client'[d] : d \in ClientIds}]
      BY <1>1, <2>1
    <2>3. \A d \in ClientIds : client'[d] \in Records \cup {NoClient}
      BY <1>13, <1>14, <2>1
    <2> QED
      BY <2>2, <2>3
  <1>17. /\ arrays' = b.heap /\ new.middlewares = a.slice /\ new.cfg.middlewares = b.slice
         /\ new.given.middlewares = more /\ new.chain.middlewares = more
    BY <1>1, <1>12, <1>14, <1>15
  <1>18. \A d \in ClientIds : d # c => client'[d] = client[d]
    BY <1>13
  <1> HIDE DEF new, old, h
  <1>19. /\ arrays' \in Heaps /\ Lasting(arrays', h)
         /\ \A i \in 1 .. Len(h) : i \notin {s.arr, t.arr} => arrays'[i] = h[i]
         /\ Moved(arrays', new.middlewares, h, s) /\ Moved(arrays', new.cfg.middlewares, h, t)
         /\ new.middlewares.arr = 0 \/ new.middlewares.arr # new.cfg.middlewares.arr
         /\ View(arrays', new.middlewares) = more /\ View(arrays', new.cfg.middlewares) = more
    BY <1>10, <1>17
  <1> QED
    BY <1>1, <1>14, <1>15, <1>16, <1>17, <1>18, <1>19 DEF new, old, more, s, t, given, h, GrownBy

LEMMA DerivedSlices ==
  ASSUME SlicesInv, NEW p \in ClientIds, NEW c \in ClientIds, DerivedFrom(p, c)
  PROVE  SlicesInv' /\ Live' = Live \cup {c}
  <1> DEFINE t == client[p].cfg.validators
             new == client'[c]
             h == arrays
             g == arrays'
  <1>1. /\ p \in Live /\ c \notin Live
        /\ client' \in [ClientIds -> Records \cup {NoClient}] /\ new \in Records
        /\ \A d \in ClientIds : d # c => client'[d] = client[d]
        /\ Extends(g, h, t.arr) /\ Lasting(g, h) /\ Moved(g, new.cfg.validators, h, t)
        /\ Within(g, new.middlewares) /\ Within(g, new.cfg.middlewares)
        /\ View(g, new.middlewares) = new.given.middlewares
        /\ View(g, new.cfg.middlewares) = new.given.middlewares
        /\ new.chain.middlewares = new.given.middlewares
    BY DEF DerivedFrom
  <1>2. /\ new.middlewares.arr = 0 \/ new.middlewares.arr > Len(h)
        /\ new.cfg.middlewares.arr = 0 \/ new.cfg.middlewares.arr > Len(h)
        /\ new.middlewares.arr = 0 \/ new.middlewares.arr # new.cfg.middlewares.arr
        /\ new.middlewares.arr = 0 \/ new.middlewares.arr # new.cfg.validators.arr
        /\ Distinct(new.cfg)
    BY DEF DerivedFrom
  <1>3. ClientType /\ h \in Heaps /\ g \in Heaps /\ Len(h) \in Nat /\ Len(g) \in Nat
    BY <1>1 DEF SlicesInv, ClientType, Extends, Heaps
  <1>4. ClientType' /\ Live' = Live \cup {c} /\ \A d \in Live : d # c /\ client'[d] = client[d]
    <2>1. \A d \in ClientIds : client[d].made <=> client[d] \in Records
      BY <1>3, LiveAreMade DEF ClientType
    <2>2. \A d \in ClientIds : client'[d].made <=> client'[d] \in Records
      BY <1>1, LiveAreMade
    <2> QED
      BY <1>1, <1>3, <2>1, <2>2 DEF ClientType, Live
  <1>5. t \in Slices
    BY <1>1, <1>3, LiveRecords
  <1>6. ASSUME NEW d \in Live
        PROVE  /\ SlicesOf(d)' /\ \A k \in Own : Mine(d, k)' = Mine(d, k)
               /\ \A k \in Own : Within(h, Mine(d, k))
               /\ client'[d].cfg.validators = client[d].cfg.validators /\ Within(h, client[d].cfg.validators)
    <2>1. client'[d] = client[d] /\ SlicesOf(d)
      BY <1>4 DEF SlicesInv
    <2>2. \A k \in Own : Mine(d, k)' = Mine(d, k)
      BY <2>1 DEF Mine
    <2>3. ASSUME NEW k \in Own
          PROVE  Within(g, Mine(d, k)) /\ View(g, Mine(d, k)) = client[d].given.middlewares
      <3>1. Within(h, Mine(d, k)) /\ View(h, Mine(d, k)) = client[d].given.middlewares
        BY <2>1 DEF SlicesOf
      <3>2. Mine(d, k).arr # t.arr \/ Mine(d, k).arr = 0
        BY <1>1 DEF SlicesInv, ArraysApart
      <3>3. Extends(g, h, t.arr) /\ t.arr \in Nat
        BY <1>1, <1>5 DEF Slices
      <3> HIDE DEF g, h, t
      <3> QED
        BY <1>3, <3>1, <3>2, <3>3, ViewsStay
    <2>4. Within(g, client[d].cfg.validators)
      BY <1>1, <1>3, <2>1, WithinLasts DEF SlicesOf
    <2> QED
      BY <2>1, <2>2, <2>3, <2>4 DEF SlicesOf
  <1>7. SlicesOf(c)' /\ Mine(c, "own")' = new.middlewares /\ Mine(c, "config")' = new.cfg.middlewares
    <2>1. Mine(c, "own")' = new.middlewares /\ Mine(c, "config")' = new.cfg.middlewares
      BY DEF Mine
    <2> QED
      BY <1>1, <2>1 DEF SlicesOf, Own, Moved
  <1> DEFINE Arr(d, k) == Mine(d, k).arr
             Vals(d) == client[d].cfg.validators.arr
  <1>8. \A d \in Live : /\ \A k \in Own : Arr(d, k)' = Arr(d, k) /\ Arr(d, k) \in 0 .. Len(h)
                        /\ Vals(d)' = Vals(d) /\ Vals(d) \in 0 .. Len(h)
    BY <1>3, <1>6 DEF Within, Slices
  <1>9. /\ \A k \in Own : Arr(c, k)' = 0 \/ Arr(c, k)' > Len(h)
        /\ \A k \in Own : Arr(c, k)' = 0 \/ Arr(c, k)' # Vals(c)'
        /\ \A k, l \in Own : Arr(c, k)' # 0 /\ Arr(c, k)' = Arr(c, l)' => k = l
        /\ Vals(c)' \in {0, t.arr} \/ Vals(c)' > Len(h)
    BY <1>1, <1>2, <1>7 DEF Own, Distinct, Moved
  <1>10. /\ \A d, e \in Live, k, l \in Own : Arr(d, k) # 0 /\ Arr(d, k) = Arr(e, l) => d = e /\ k = l
         /\ \A d, e \in Live, k \in Own : Arr(d, k) # 0 => Arr(d, k) # Vals(e)
    BY DEF SlicesInv, ArraysApart
  <1> HIDE DEF Arr, Vals, new, g, h
  <1>11. ASSUME NEW d \in Live', NEW e \in Live', NEW k \in Own, NEW l \in Own,
                Arr(d, k)' # 0, Arr(d, k)' = Arr(e, l)'
         PROVE  d = e /\ k = l
    <2>1. CASE d = c /\ e = c
      BY <1>9, <1>11, <2>1
    <2>2. CASE d = c /\ e # c
      BY <1>3, <1>4, <1>8, <1>9, <1>11, <2>2
    <2>3. CASE d # c /\ e = c
      BY <1>3, <1>4, <1>8, <1>9, <1>11, <2>3
    <2>4. CASE d # c /\ e # c
      BY <1>4, <1>8, <1>10, <1>11, <2>4
    <2> QED
      BY <2>1, <2>2, <2>3, <2>4
  <1>12. ASSUME NEW d \in Live', NEW e \in Live', NEW k \in Own, Arr(d, k)' # 0
         PROVE  Arr(d, k)' # Vals(e)'
    <2>1. CASE d = c /\ e = c
      BY <1>9, <1>12, <2>1
    <2>2. CASE d = c /\ e # c
      BY <1>3, <1>4, <1>8, <1>9, <1>12, <2>2
    <2>3. CASE d # c /\ e = c
      <3>1. d \in Live /\ Arr(d, k)' = Arr(d, k) /\ Arr(d, k) \in 0 .. Len(h) /\ Arr(d, k) # 0
        BY <1>4, <1>8, <1>12, <2>3
      <3>2. Arr(d, k) # t.arr
        BY <1>1, <1>10, <3>1 DEF Vals
      <3> QED
        BY <1>3, <1>9, <2>3, <3>1, <3>2
    <2>4. CASE d # c /\ e # c
      BY <1>4, <1>8, <1>10, <1>12, <2>4
    <2> QED
      BY <2>1, <2>2, <2>3, <2>4
  <1>13. ArraysApart'
    BY <1>11, <1>12 DEF ArraysApart, Arr, Vals
  <1>14. \A d \in Live' : SlicesOf(d)'
    BY <1>4, <1>6, <1>7
  <1> QED
    BY <1>4, <1>13, <1>14 DEF SlicesInv

LEMMA DerivedEngines ==
  ASSUME SlicesInv, EnginesInv, NEW p \in ClientIds, NEW c \in ClientIds, DerivedFrom(p, c)
  PROVE  EnginesInv'
  <1> DEFINE new == client'[c]
  <1>1. /\ Live' = Live \cup {c} /\ c \notin Live
        /\ \A d \in ClientIds : d # c => client'[d] = client[d]
        /\ engines' \in Seq(Engines) /\ Len(engines) <= Len(engines')
        /\ Preserved(engines', engines)
        /\ new.engine \in 1 .. Len(engines') /\ new.cfg.engine \in 0 .. Len(engines')
        /\ engines'[new.engine].kind = "http" =>
             /\ engines'[new.engine].dialer = c
             /\ new.cfg.timeout > 0 => engines'[new.engine].timeout = new.cfg.timeout
    BY DerivedSlices DEF DerivedFrom
  <1>2. EngineOf(c)'
    BY <1>1 DEF EngineOf
  <1>3. ASSUME NEW d \in Live
        PROVE  EngineOf(d)'
    <2>1. EngineOf(d) /\ client'[d] = client[d] /\ Len(engines) \in Nat /\ Len(engines') \in Nat
      BY <1>1 DEF EnginesInv, Live
    <2>2. client[d].engine \in 1 .. Len(engines)
      BY <2>1 DEF EngineOf
    <2>3. /\ engines'[client[d].engine].kind = engines[client[d].engine].kind
          /\ engines[client[d].engine].kind = "http" => engines'[client[d].engine] = engines[client[d].engine]
      BY <1>1, <2>2 DEF Preserved
    <2> QED
      BY <1>1, <2>1, <2>3 DEF EngineOf
  <1> QED
    BY <1>1, <1>2, <1>3 DEF EnginesInv

LEMMA GrownSlices ==
  ASSUME SlicesInv, NEW c \in ClientIds, GrownBy(c)
  PROVE  SlicesInv' /\ Live' = Live
  <1> DEFINE old == client[c]
             new == client'[c]
             h == arrays
             g == arrays'
             s == old.middlewares
             t == old.cfg.middlewares
  <1>1. /\ c \in Live
        /\ client' \in [ClientIds -> Records \cup {NoClient}] /\ new \in Records
        /\ \A d \in ClientIds : d # c => client'[d] = client[d]
        /\ new.cfg.validators = old.cfg.validators
        /\ g \in Heaps /\ Lasting(g, h)
        /\ \A i \in 1 .. Len(h) : i \notin {s.arr, t.arr} => g[i] = h[i]
        /\ Moved(g, new.middlewares, h, s) /\ Moved(g, new.cfg.middlewares, h, t)
        /\ new.middlewares.arr = 0 \/ new.middlewares.arr # new.cfg.middlewares.arr
        /\ View(g, new.middlewares) = new.given.middlewares
        /\ View(g, new.cfg.middlewares) = new.given.middlewares
        /\ new.chain.middlewares = new.given.middlewares
    BY DEF GrownBy
  <1>2. ClientType /\ h \in Heaps /\ Len(h) \in Nat /\ Len(g) \in Nat
    BY <1>1 DEF SlicesInv, ClientType, Heaps
  <1>3. ClientType' /\ Live' = Live /\ \A d \in Live : d # c => client'[d] = client[d]
    <2>1. \A d \in ClientIds : client[d].made <=> client[d] \in Records
      BY <1>2, LiveAreMade DEF ClientType
    <2>2. \A d \in ClientIds : client'[d].made <=> client'[d] \in Records
      BY <1>1, LiveAreMade
    <2> QED
      BY <1>1, <1>2, <2>1, <2>2 DEF ClientType, Live
  <1>4. /\ Mine(c, "own") = s /\ Mine(c, "config") = t
        /\ Mine(c, "own")' = new.middlewares /\ Mine(c, "config")' = new.cfg.middlewares
        /\ {"own", "config"} \subseteq Own
    BY DEF Mine, Own
  <1>5. ASSUME NEW d \in Live
        PROVE  /\ \A k \in Own : Within(h, Mine(d, k)) /\ View(h, Mine(d, k)) = client[d].given.middlewares
               /\ client[d].chain.middlewares = client[d].given.middlewares
               /\ Within(h, client[d].cfg.validators)
    BY DEF SlicesInv, SlicesOf
  <1>6. ASSUME NEW d \in Live
        PROVE  /\ client'[d].cfg.validators = client[d].cfg.validators
               /\ Within(g, client'[d].cfg.validators)
    <2>1. client'[d].cfg.validators = client[d].cfg.validators
      BY <1>1, <1>3
    <2> QED
      BY <1>1, <1>2, <1>5, <2>1, WithinLasts
  <1>7. ASSUME NEW d \in Live, d # c
        PROVE  SlicesOf(d)' /\ \A k \in Own : Mine(d, k)' = Mine(d, k)
    <2>1. client'[d] = client[d]
      BY <1>3, <1>7
    <2>2. \A k \in Own : Mine(d, k)' = Mine(d, k)
      BY <2>1 DEF Mine
    <2>3. ASSUME NEW k \in Own
          PROVE  Within(g, Mine(d, k)) /\ View(g, Mine(d, k)) = View(h, Mine(d, k))
      <3> DEFINE m == Mine(d, k)
      <3>1. Within(h, m) /\ (m.arr = 0 \/ m.arr \notin {s.arr, t.arr})
        BY <1>1, <1>4, <1>5, <1>7 DEF SlicesInv, ArraysApart
      <3>2. Within(g, m)
        BY <1>1, <1>2, <3>1, WithinLasts
      <3>3. m.arr # 0 => m.arr \in 1 .. Len(h) /\ g[m.arr] = h[m.arr]
        BY <1>1, <1>2, <3>1 DEF Within, Slices
      <3> QED
        BY <3>2, <3>3 DEF View
    <2> QED
      BY <1>5, <1>6, <2>1, <2>2, <2>3 DEF SlicesOf
  <1>8. SlicesOf(c)'
    BY <1>1, <1>4, <1>6 DEF SlicesOf, Own, Moved
  <1> DEFINE Arr(d, k) == Mine(d, k).arr
             Vals(d) == client[d].cfg.validators.arr
  <1>9. \A d \in Live : /\ \A k \in Own : Arr(d, k) \in 0 .. Len(h)
                        /\ Vals(d)' = Vals(d) /\ Vals(d) \in 0 .. Len(h)
    BY <1>2, <1>5, <1>6 DEF Within, Slices
  <1>10. /\ \A k \in Own : Arr(c, k)' \in {0, Arr(c, k)} \/ Arr(c, k)' > Len(h)
         /\ \A k, l \in Own : Arr(c, k)' # 0 /\ Arr(c, k)' = Arr(c, l)' => k = l
    BY <1>1, <1>4 DEF Own, Moved
  <1>11. \A d \in Live, k \in Own : d # c => Arr(d, k)' = Arr(d, k)
    BY <1>7
  <1>12. /\ \A d, e \in Live, k, l \in Own : Arr(d, k) # 0 /\ Arr(d, k) = Arr(e, l) => d = e /\ k = l
         /\ \A d, e \in Live, k \in Own : Arr(d, k) # 0 => Arr(d, k) # Vals(e)
    BY DEF SlicesInv, ArraysApart
  <1> HIDE DEF Arr, Vals, new, g, h, old, s, t
  <1>13. c \in Live
    BY <1>1
  <1>14. ASSUME NEW d \in Live, NEW e \in Live, NEW k \in Own, NEW l \in Own,
                Arr(d, k)' # 0, Arr(d, k)' = Arr(e, l)'
         PROVE  d = e /\ k = l
    <2>1. CASE d = c /\ e = c
      BY <1>10, <1>14, <2>1
    <2>2. CASE d = c /\ e # c
      <3>1. Arr(e, l)' = Arr(e, l) /\ Arr(e, l) \in 0 .. Len(h)
        BY <1>9, <1>11, <2>2
      <3>2. Arr(c, k)' # 0 /\ Arr(c, k)' = Arr(e, l)'
        BY <1>14, <2>2
      <3>3. Arr(c, k)' = Arr(c, k)
        BY <1>2, <1>10, <3>1, <3>2
      <3>4. Arr(c, k) # 0 /\ Arr(c, k) = Arr(e, l)
        BY <3>1, <3>2, <3>3
      <3> QED
        BY <1>12, <1>13, <2>2, <3>4
    <2>3. CASE d # c /\ e = c
      <3>1. Arr(d, k)' = Arr(d, k) /\ Arr(d, k) \in 0 .. Len(h)
        BY <1>9, <1>11, <2>3
      <3>2. Arr(c, l)' # 0 /\ Arr(d, k)' = Arr(c, l)'
        BY <1>14, <2>3
      <3>3. Arr(c, l)' = Arr(c, l)
        BY <1>2, <1>10, <3>1, <3>2
      <3>4. Arr(c, l) # 0 /\ Arr(d, k) = Arr(c, l)
        BY <3>1, <3>2, <3>3
      <3> QED
        BY <1>12, <1>13, <2>3, <3>4
    <2>4. CASE d # c /\ e # c
      BY <1>11, <1>12, <1>14, <2>4
    <2> QED
      BY <2>1, <2>2, <2>3, <2>4
  <1>15. ASSUME NEW d \in Live, NEW e \in Live, NEW k \in Own, Arr(d, k)' # 0
         PROVE  Arr(d, k)' # Vals(e)'
    <2>1. Vals(e)' = Vals(e) /\ Vals(e) \in 0 .. Len(h)
      BY <1>9
    <2>2. Arr(d, k)' \in {0, Arr(d, k)} \/ Arr(d, k)' > Len(h)
      BY <1>10, <1>11
    <2> QED
      BY <1>2, <1>12, <1>15, <2>1, <2>2
  <1>16. ArraysApart'
    BY <1>3, <1>14, <1>15 DEF ArraysApart, Arr, Vals
  <1>17. \A d \in Live' : SlicesOf(d)'
    BY <1>3, <1>7, <1>8
  <1> QED
    BY <1>3, <1>16, <1>17 DEF SlicesInv

LEMMA GrownEngines ==
  ASSUME SlicesInv, EnginesInv, NEW c \in ClientIds, GrownBy(c), engines' = engines
  PROVE  EnginesInv'
  <1>1. /\ Live' = Live
        /\ \A d \in ClientIds : client'[d].engine = client[d].engine
             /\ client'[d].cfg.engine = client[d].cfg.engine
             /\ client'[d].cfg.timeout = client[d].cfg.timeout
    BY GrownSlices DEF GrownBy
  <1>2. ASSUME NEW d \in Live
        PROVE  EngineOf(d)'
    BY <1>1, <1>2 DEF EngineOf, EnginesInv, Live
  <1> QED
    BY <1>1, <1>2 DEF EnginesInv

-----------------------------------------------------------------------------
(* Requests. *)

(* t begins with s. *)
Prefixed(s, t) ==
  /\ s \in Seq(Values) /\ t \in Seq(Values) /\ Len(s) <= Len(t)
  /\ \A n \in 0 .. Len(s) : SubSeq(t, 1, n) = SubSeq(s, 1, n)

(* Nothing is taken back from a client. *)
Onward ==
  /\ Live \subseteq Live'
  /\ \A d \in Live :
       /\ client'[d].cfg.proxy = client[d].cfg.proxy /\ client'[d].cfg.hooks = client[d].cfg.hooks
       /\ Prefixed(client[d].given.middlewares, client'[d].given.middlewares)

LEMMA GivenIsKept ==
  ASSUME NEW s \in Seq(Values)
  PROVE  Prefixed(s, s) /\ Prefixed(s, Append(s, "late"))
  <1>1. "late" \in Values /\ Len(s) \in Nat
    BY DEF Values
  <1>2. Append(s, "late") \in Seq(Values) /\ Len(Append(s, "late")) = Len(s) + 1
        /\ \A i \in 1 .. Len(s) : Append(s, "late")[i] = s[i]
    BY <1>1
  <1>3. ASSUME NEW n \in 0 .. Len(s)
        PROVE  SubSeq(Append(s, "late"), 1, n) = SubSeq(s, 1, n)
    BY <1>1, <1>2
  <1> QED
    BY <1>1, <1>2, <1>3 DEF Prefixed

(* What a client was given is what its slices hold. *)
LEMMA GivenIsSeq ==
  ASSUME SlicesInv, NEW c \in Live
  PROVE  /\ client[c].given.middlewares \in Seq(Values)
         /\ Len(client[c].given.middlewares) = client[c].middlewares.len
         /\ client[c].chain.middlewares = client[c].given.middlewares
  <1>1. Within(arrays, client[c].middlewares) /\ View(arrays, client[c].middlewares) = client[c].given.middlewares
        /\ client[c].chain.middlewares = client[c].given.middlewares
    BY DEF SlicesInv, SlicesOf, Mine, Own
  <1> QED
    BY <1>1, ViewsFit DEF SlicesInv, ClientType

LEMMA DerivedOnward ==
  ASSUME SlicesInv, NEW p \in ClientIds, NEW c \in ClientIds, DerivedFrom(p, c)
  PROVE  Onward
  <1>1. \A d \in Live : d \in ClientIds /\ client'[d] = client[d]
    BY DEF DerivedFrom, Live
  <1>2. \A d \in Live : Prefixed(client[d].given.middlewares, client[d].given.middlewares)
    BY GivenIsSeq, GivenIsKept
  <1> QED
    BY <1>1, <1>2, DerivedSlices DEF Onward

LEMMA GrownOnward ==
  ASSUME SlicesInv, NEW c \in ClientIds, GrownBy(c)
  PROVE  Onward
  <1>1. ASSUME NEW d \in Live
        PROVE  /\ client'[d].cfg.proxy = client[d].cfg.proxy /\ client'[d].cfg.hooks = client[d].cfg.hooks
               /\ client'[d].given.middlewares \in
                    {client[d].given.middlewares, Append(client[d].given.middlewares, "late")}
    BY DEF GrownBy, Live
  <1>2. \A d \in Live : /\ Prefixed(client[d].given.middlewares, client[d].given.middlewares)
                        /\ Prefixed(client[d].given.middlewares, Append(client[d].given.middlewares, "late"))
    BY GivenIsSeq, GivenIsKept
  <1> QED
    BY <1>1, <1>2, GrownSlices DEF Onward

(* A request under way owes the middlewares its client had when it began; a *)
(* finished one ran through the first of its client's.                      *)
ProxyOf(s) ==
  send[s].fresh =>
    send[s].proxy = IF send[s].ctx \in OwnContexts THEN Caller ELSE client[send[s].on].cfg.proxy

SendInv(s) ==
  \/ send[s].pc = "idle"
  \/ /\ send[s].pc \in {"baremetal", "pipeline"}
     /\ send[s].on \in Live /\ ProxyOf(s)
     /\ Prefixed(send[s].due, client[send[s].on].given.middlewares)
     /\ send[s].pc = "baremetal" => send[s].due = <<>>
  \/ /\ send[s].pc = "sent"
     /\ send[s].on \in Live /\ ProxyOf(s)
     /\ Len(send[s].middlewares) >= Len(send[s].due) \/ send[s].path = "baremetal"
     /\ send[s].path = "baremetal" => send[s].due = <<>>
     /\ Prefixed(send[s].middlewares, client[send[s].on].given.middlewares)

SendsInv == DOMAIN send = Sends /\ \A s \in Sends : SendInv(s)

LEMMA PrefixedOn ==
  ASSUME NEW r, NEW s, NEW t, Prefixed(r, s), Prefixed(s, t)
  PROVE  Prefixed(r, t)
  <1>1. Len(r) \in Nat /\ Len(s) \in Nat /\ Len(t) \in Nat
    BY DEF Prefixed
  <1>2. \A n \in 0 .. Len(r) : n \in 0 .. Len(s)
    BY <1>1 DEF Prefixed
  <1> QED
    BY <1>1, <1>2 DEF Prefixed

LEMMA SendsWait ==
  ASSUME SendsInv, Onward, send' = send
  PROVE  SendsInv'
  <1>1. ASSUME NEW s \in Sends
        PROVE  SendInv(s)'
    <2>1. SendInv(s)
      BY DEF SendsInv
    <2>2. CASE send[s].pc = "idle"
      BY <2>2 DEF SendInv
    <2>3. CASE send[s].pc # "idle"
      <3>1. send[s].on \in Live /\ ProxyOf(s)
        BY <2>1, <2>3 DEF SendInv
      <3>2. /\ send[s].on \in Live'
            /\ client'[send[s].on].cfg.proxy = client[send[s].on].cfg.proxy
            /\ Prefixed(client[send[s].on].given.middlewares, client'[send[s].on].given.middlewares)
        BY <3>1 DEF Onward
      <3>3. ProxyOf(s)'
        BY <3>1, <3>2 DEF ProxyOf
      <3>4. \A r : Prefixed(r, client[send[s].on].given.middlewares) =>
                     Prefixed(r, client'[send[s].on].given.middlewares)
        BY <3>2, PrefixedOn
      <3> QED
        BY <2>1, <2>3, <3>2, <3>3, <3>4 DEF SendInv
    <2> QED
      BY <2>2, <2>3
  <1> QED
    BY <1>1 DEF SendsInv

(* The network settings a context holds are its caller's, or those of a     *)
(* client it was used with.                                                 *)
NetInv ==
  /\ ctxProxy \in [Contexts -> Owners \cup {Caller}]
  /\ usedBy \in [Contexts -> SUBSET Live]
  /\ \A x \in OwnContexts : ctxProxy[x] = Caller
  /\ \A x \in Contexts \ OwnContexts :
       ctxProxy[x] = Nobody \/ \E c \in usedBy[x] : ctxProxy[x] = client[c].cfg.proxy

LEMMA NetWaits ==
  ASSUME NetInv, Onward, ctxProxy' = ctxProxy, usedBy' = usedBy
  PROVE  NetInv'
  <1>1. usedBy' \in [Contexts -> SUBSET Live']
    BY DEF NetInv, Onward
  <1>2. ASSUME NEW x \in Contexts \ OwnContexts, ctxProxy[x] # Nobody
        PROVE  \E c \in usedBy[x] : ctxProxy[x] = client'[c].cfg.proxy
    <2>1. PICK c \in usedBy[x] : ctxProxy[x] = client[c].cfg.proxy
      BY <1>2 DEF NetInv
    <2>2. c \in Live
      BY DEF NetInv
    <2> QED
      BY <2>1, <2>2 DEF Onward
  <1> QED
    BY <1>1, <1>2 DEF NetInv

(* A step that leaves the clients alone. *)
LEMMA ClientsWait ==
  ASSUME SlicesInv, client' = client
  PROVE  Onward
  <1>1. Live' = Live
    BY DEF Live
  <1>2. \A d \in Live : Prefixed(client[d].given.middlewares, client[d].given.middlewares)
    BY GivenIsSeq, GivenIsKept
  <1> QED
    BY <1>1, <1>2 DEF Onward

LEMMA OtherSends ==
  ASSUME SendsInv, SlicesInv, client' = client, NEW s \in Sends, NEW r,
         send' = [send EXCEPT ![s] = r], SendInv(s)'
  PROVE  SendsInv'
  <1>1. Live' = Live
    BY DEF Live
  <1>2. DOMAIN send' = Sends /\ \A u \in Sends : u # s => send'[u] = send[u]
    BY DEF SendsInv
  <1>3. ASSUME NEW u \in Sends, u # s
        PROVE  SendInv(u)'
    BY <1>1, <1>2, <1>3 DEF SendsInv, SendInv, ProxyOf
  <1> QED
    BY <1>2, <1>3 DEF SendsInv

LEMMA RequestBegins ==
  ASSUME SlicesInv, SendsInv, NetInv,
         NEW s \in Sends, NEW c \in ClientIds, NEW x \in Contexts \cup {Nobody}, BeginRequest(s, c, x)
  PROVE  SendsInv' /\ NetInv'
  <1> DEFINE plain == x = Nobody
             direct == plain /\ client[c].baremetal /\ client[c].middlewares.len = 0
             proxy == IF plain THEN client[c].cfg.proxy ELSE NetworkDefault(c, x)
             given == client[c].given.middlewares
             fresh == plain \/ usedBy[x] \subseteq {c}
             pc == IF direct THEN "baremetal" ELSE "pipeline"
             r == [pc |-> pc, on |-> c, ctx |-> x, proxy |-> proxy, due |-> given, fresh |-> fresh]
  <1>1. /\ c \in Live /\ client' = client /\ send' = [send EXCEPT ![s] = r]
        /\ ctxProxy' = IF plain THEN ctxProxy ELSE [ctxProxy EXCEPT ![x] = proxy]
        /\ usedBy' = IF plain THEN usedBy ELSE [usedBy EXCEPT ![x] = @ \cup {c}]
    BY DEF BeginRequest
  <1>2. Live' = Live
    BY <1>1 DEF Live
  <1>3. given \in Seq(Values) /\ Len(given) = client[c].middlewares.len
    BY <1>1, GivenIsSeq
  <1>4. direct => given = <<>>
    <2> HIDE DEF given
    <2> QED
      BY <1>3
  <1>5. Prefixed(given, given)
    BY <1>3, GivenIsKept
  <1>6. client[c].cfg.proxy \in Owners /\ Nobody \in Owners
    <2>1. client[c].cfg \in Cfgs
      BY <1>1, LiveRecords DEF SlicesInv
    <2> QED
      BY <2>1 DEF Cfgs, Owners
  <1>7. fresh => proxy = IF x \in OwnContexts THEN Caller ELSE client[c].cfg.proxy
    <2>1. CASE plain
      BY <2>1, RootAssumption
    <2>2. CASE ~plain
      <3>1. x \in Contexts /\ proxy = IF ctxProxy[x] = Nobody THEN client[c].cfg.proxy ELSE ctxProxy[x]
        BY <2>2 DEF NetworkDefault
      <3>2. CASE x \in OwnContexts
        BY <3>1, <3>2 DEF NetInv, Caller, Nobody
      <3>3. CASE x \notin OwnContexts
        <4>1. ctxProxy[x] = Nobody \/ \E d \in usedBy[x] : ctxProxy[x] = client[d].cfg.proxy
          BY <3>1, <3>3 DEF NetInv
        <4>2. fresh => usedBy[x] \subseteq {c}
          BY <2>2
        <4> HIDE DEF fresh, proxy
        <4> QED
          BY <3>1, <3>3, <4>1, <4>2
      <3> QED
        BY <3>2, <3>3
    <2> QED
      BY <2>1, <2>2
  <1>8. NetInv'
    <2>1. CASE plain
      BY <1>1, <2>1, <1>2 DEF NetInv
    <2>2. CASE ~plain
      <3>1. /\ x \in Contexts /\ ctxProxy' = [ctxProxy EXCEPT ![x] = proxy]
            /\ usedBy' = [usedBy EXCEPT ![x] = @ \cup {c}]
            /\ proxy = IF ctxProxy[x] = Nobody THEN client[c].cfg.proxy ELSE ctxProxy[x]
        BY <1>1, <2>2 DEF NetworkDefault
      <3> HIDE DEF proxy
      <3>2. /\ ctxProxy \in [Contexts -> Owners \cup {Caller}] /\ usedBy \in [Contexts -> SUBSET Live]
            /\ \A y \in OwnContexts : ctxProxy[y] = Caller
            /\ \A y \in Contexts \ OwnContexts :
                 ctxProxy[y] = Nobody \/ \E d \in usedBy[y] : ctxProxy[y] = client[d].cfg.proxy
        BY DEF NetInv
      <3>3. /\ \A y \in Contexts : y # x => ctxProxy'[y] = ctxProxy[y] /\ usedBy'[y] = usedBy[y]
            /\ ctxProxy'[x] = proxy /\ usedBy'[x] = usedBy[x] \cup {c}
        BY <3>1, <3>2
      <3>4. ctxProxy' \in [Contexts -> Owners \cup {Caller}] /\ usedBy' \in [Contexts -> SUBSET Live]
        BY <1>1, <1>6, <3>1, <3>2
      <3>5. x \in OwnContexts => proxy = Caller
        BY <3>1, <3>2 DEF Caller, Nobody
      <3>6. x \notin OwnContexts => \E d \in usedBy'[x] : proxy = client[d].cfg.proxy
        BY <3>1, <3>2, <3>3
      <3>7. \A y \in OwnContexts : ctxProxy'[y] = Caller /\ y \in Contexts
        BY <3>2, <3>3, <3>5, RootAssumption
      <3>8. \A y \in Contexts \ OwnContexts :
              ctxProxy'[y] = Nobody \/ \E d \in usedBy'[y] : ctxProxy'[y] = client[d].cfg.proxy
        BY <3>2, <3>3, <3>6
      <3> QED
        BY <1>1, <1>2, <3>4, <3>7, <3>8 DEF NetInv
    <2> QED
      BY <2>1, <2>2
  <1>9. pc \in {"baremetal", "pipeline"} /\ (pc = "baremetal" => given = <<>>)
    BY <1>4
  <1> HIDE DEF fresh, proxy, given, pc
  <1>10. send'[s] = r
    BY <1>1 DEF SendsInv
  <1>11. r.pc = pc /\ r.on = c /\ r.ctx = x /\ r.proxy = proxy /\ r.due = given /\ r.fresh = fresh
    OBVIOUS
  <1> HIDE DEF r
  <1>12. SendInv(s)'
    <2>1. ProxyOf(s)'
      BY <1>1, <1>7, <1>10, <1>11 DEF ProxyOf
    <2> QED
      BY <1>1, <1>2, <1>5, <1>9, <1>10, <1>11, <2>1 DEF SendInv, given
  <1> QED
    BY <1>1, <1>8, <1>12, OtherSends

LEMMA RequestEnds ==
  ASSUME SlicesInv, SendsInv, NEW s \in Sends, EndRequest(s)
  PROVE  SendsInv' /\ client' = client /\ ctxProxy' = ctxProxy /\ usedBy' = usedBy
  <1> DEFINE o == send[s]
             c == o.on
             through == ExecutionEngine(c, o.pc = "baremetal")
             mws == through.middlewares
             vals == IF o.pc = "baremetal" THEN <<>> ELSE View(arrays, client[c].cfg.validators)
             agent == o.pc = "pipeline" /\ client[c].prepared
             id == through.engine
             r == [pc |-> "sent", on |-> c, due |-> o.due, fresh |-> o.fresh, proxy |-> o.proxy,
                   path |-> o.pc, ctx |-> o.ctx, middlewares |-> mws, engine |-> id,
                   validators |-> vals, userAgent |-> agent]
             given == client[c].given.middlewares
  <1>1. /\ o.pc \in {"baremetal", "pipeline"} /\ send' = [send EXCEPT ![s] = r]
        /\ client' = client /\ ctxProxy' = ctxProxy /\ usedBy' = usedBy
    BY DEF EndRequest
  <1>2. /\ c \in Live /\ ProxyOf(s) /\ Prefixed(o.due, given)
        /\ o.pc = "baremetal" => o.due = <<>>
    BY <1>1 DEF SendsInv, SendInv
  <1>3. /\ given \in Seq(Values) /\ Len(given) = client[c].middlewares.len
        /\ client[c].chain.middlewares = given
    BY <1>2, GivenIsSeq
  <1>4. mws = IF o.pc = "baremetal" \/ client[c].middlewares.len = 0 THEN <<>> ELSE given
    BY <1>3 DEF ExecutionEngine, RebuildChain
  <1>5. Len(<<>>) = 0 /\ <<>> \in Seq(Values) /\ SubSeq(<<>>, 1, 0) = <<>>
    OBVIOUS
  <1> HIDE DEF mws, vals, agent, id, given
  <1>6. Prefixed(mws, given)
    <2>1. Prefixed(<<>>, given)
      <3>1. SubSeq(given, 1, 0) = <<>>
        BY <1>3
      <3> QED
        BY <1>3, <1>5, <3>1 DEF Prefixed
    <2>2. Prefixed(given, given)
      BY <1>3, GivenIsKept
    <2> QED
      BY <1>4, <2>1, <2>2
  <1>7. Len(mws) >= Len(o.due) \/ o.pc = "baremetal"
    <2>1. Len(o.due) \in Nat /\ Len(o.due) <= Len(given) /\ Len(given) \in Nat
      BY <1>2, <1>3 DEF Prefixed
    <2> QED
      BY <1>3, <1>4, <1>5, <2>1
  <1>8. send'[s] = r
    BY <1>1 DEF SendsInv
  <1>9. /\ r.pc = "sent" /\ r.on = c /\ r.due = o.due /\ r.fresh = o.fresh /\ r.proxy = o.proxy
        /\ r.path = o.pc /\ r.ctx = o.ctx /\ r.middlewares = mws
    OBVIOUS
  <1> HIDE DEF r
  <1>10. SendInv(s)'
    <2>1. Live' = Live
      BY <1>1 DEF Live
    <2>2. ProxyOf(s)'
      BY <1>1, <1>2, <1>8, <1>9 DEF ProxyOf
    <2> QED
      BY <1>1, <1>2, <1>6, <1>7, <1>8, <1>9, <2>1, <2>2 DEF SendInv, given
  <1> QED
    BY <1>1, <1>10, OtherSends

-----------------------------------------------------------------------------
(* Hooks. *)

(* k is about to run hooks of c. *)
Runs(k, c) == closing[k].pc = "hooks" /\ closing[k].on = c /\ closing[k].hooks # {}

HooksType ==
  /\ DOMAIN closing = Closers
  /\ hookRuns \in [ClientIds -> Nat]
  /\ \A k \in Closers : closing[k].pc = "hooks" => closing[k].on \in Live

(* The hooks of a client are with it, or with one call of Close, or they    *)
(* have run.                                                                *)
HooksOf(c) ==
  /\ client[c].closeHooks \in {{}, client[c].cfg.hooks}
  /\ hookRuns[c] <= Cardinality(client[c].cfg.hooks)
  /\ client[c].closeHooks # {} => hookRuns[c] = 0 /\ \A k \in Closers : ~Runs(k, c)
  /\ \A k \in Closers : Runs(k, c) => hookRuns[c] = 0 /\ closing[k].hooks = client[c].cfg.hooks
  /\ \A k, l \in Closers : Runs(k, c) /\ Runs(l, c) => k = l

HooksInv ==
  /\ HooksType
  /\ \A c \in Live : HooksOf(c)
  /\ \A c \in ClientIds \ Live : hookRuns[c] = 0

LEMMA HooksCounted ==
  ASSUME ClientType, NEW c \in Live
  PROVE  Cardinality(client[c].cfg.hooks) \in Nat /\ Cardinality({}) = 0
  <1>1. client[c].cfg \in Cfgs
    BY LiveRecords
  <1>2. IsFiniteSet(client[c].cfg.hooks)
    BY <1>1 DEF Cfgs, HookSets
  <1> QED
    BY <1>2, FS_CardinalityType, FS_EmptySet

(* No step but Close touches hooks. *)
LEMMA HooksWait ==
  ASSUME HooksInv, Live' = Live, closing' = closing, hookRuns' = hookRuns,
         \A d \in Live : client'[d].closeHooks = client[d].closeHooks /\ client'[d].cfg.hooks = client[d].cfg.hooks
  PROVE  HooksInv'
  <1>1. \A k, c : Runs(k, c)' <=> Runs(k, c)
    BY DEF Runs
  <1>2. HooksType'
    BY DEF HooksInv, HooksType
  <1>3. ASSUME NEW c \in Live
        PROVE  HooksOf(c)'
    BY <1>1, <1>3 DEF HooksInv, HooksOf
  <1> QED
    BY <1>2, <1>3 DEF HooksInv

LEMMA DerivedHooks ==
  ASSUME SlicesInv, HooksInv, NEW p \in ClientIds, NEW c \in ClientIds, DerivedFrom(p, c),
         closing' = closing, hookRuns' = hookRuns
  PROVE  HooksInv'
  <1>1. /\ Live' = Live \cup {c} /\ c \notin Live /\ SlicesInv'
        /\ \A d \in Live : client'[d] = client[d]
        /\ client'[c].closeHooks = client'[c].cfg.hooks
    BY DerivedSlices DEF DerivedFrom, Live
  <1>2. \A k \in Closers, d \in ClientIds : Runs(k, d)' <=> Runs(k, d)
    BY DEF Runs
  <1>3. HooksType'
    BY <1>1 DEF HooksInv, HooksType
  <1>4. ASSUME NEW d \in Live
        PROVE  HooksOf(d)'
    <2>1. d \in ClientIds /\ client'[d] = client[d] /\ HooksOf(d)
      BY <1>1 DEF HooksInv, Live
    <2> QED
      BY <1>2, <2>1 DEF HooksOf
  <1>5. HooksOf(c)'
    <2>1. hookRuns'[c] = 0 /\ \A k \in Closers : ~Runs(k, c)
      BY <1>1 DEF HooksInv, HooksType, Runs
    <2>2. Cardinality(client'[c].cfg.hooks) \in Nat
      <3>1. (Cardinality(client[c].cfg.hooks) \in Nat)'
        <4>1. ClientType' /\ (c \in Live)'
          BY <1>1 DEF SlicesInv
        <4>2. (client[c].cfg \in Cfgs)'
          BY <4>1, LiveAreMade DEF ClientType, Live, Records
        <4>3. (IsFiniteSet(client[c].cfg.hooks))'
          BY <4>2 DEF Cfgs, HookSets
        <4> QED
          BY <4>3, FS_CardinalityType
      <3> QED
        BY <3>1
    <2> QED
      BY <1>1, <1>2, <2>1, <2>2 DEF HooksOf
  <1> QED
    BY <1>1, <1>3, <1>4, <1>5 DEF HooksInv

LEMMA CloseBegins ==
  ASSUME ClientType, HooksInv, NEW k \in Closers, NEW c \in ClientIds, BeginClose(k, c)
  PROVE  /\ HooksInv' /\ Live' = Live /\ client' \in [ClientIds -> Records \cup {NoClient}]
         /\ \A d \in Live : client'[d] = [client[d] EXCEPT !.closeHooks = client'[d].closeHooks]
  <1> DEFINE r == [pc |-> "hooks", on |-> c, hooks |-> client[c].closeHooks]
             new == [client[c] EXCEPT !.closeHooks = {}]
  <1>1. /\ closing[k].pc = "idle" /\ c \in Live /\ closing' = [closing EXCEPT ![k] = r]
        /\ client' = [client EXCEPT ![c].closeHooks = {}] /\ hookRuns' = hookRuns
    BY DEF BeginClose, Drained
  <1>2. client[c] \in Records /\ {} \in HookSets
    <2>1. {} \in HookSets
      BY FS_EmptySet DEF HookSets
    <2> QED
      BY <1>1, <2>1, LiveRecords
  <1>3. client' = [client EXCEPT ![c] = new] /\ client \in [ClientIds -> Records \cup {NoClient}]
    BY <1>1 DEF ClientType
  <1>4. /\ new \in Records /\ new.closeHooks = {} /\ new.cfg = client[c].cfg
        /\ new = [client[c] EXCEPT !.closeHooks = new.closeHooks]
    BY <1>2 DEF Records
  <1> HIDE DEF new
  <1>5. /\ client' \in [ClientIds -> Records \cup {NoClient}]
        /\ client'[c] = new /\ \A d \in ClientIds : d # c => client'[d] = client[d]
    BY <1>3, <1>4
  <1>6. Live' = Live
    <2>1. \A d \in ClientIds : client[d].made <=> client[d] \in Records
      BY <1>3, LiveAreMade
    <2>2. \A d \in ClientIds : client'[d].made <=> client'[d] \in Records
      BY <1>5, LiveAreMade
    <2> QED
      BY <1>2, <1>4, <1>5, <2>1, <2>2 DEF Live
  <1>7. \A d \in Live : client'[d] = [client[d] EXCEPT !.closeHooks = client'[d].closeHooks]
    <2>1. ASSUME NEW d \in Live, d # c
          PROVE  client'[d] = [client[d] EXCEPT !.closeHooks = client'[d].closeHooks]
      <3>1. client[d] \in Records /\ client'[d] = client[d]
        BY <1>5, <2>1, LiveRecords DEF Live
      <3>2. client[d] = [client[d] EXCEPT !.closeHooks = client[d].closeHooks]
        BY <3>1 DEF Records
      <3> QED
        BY <3>1, <3>2
    <2> QED
      BY <1>4, <1>5, <2>1
  <1>8. DOMAIN closing' = Closers /\ closing'[k] = r /\ \A l \in Closers : l # k => closing'[l] = closing[l]
    BY <1>1 DEF HooksInv, HooksType
  <1>9. r.pc = "hooks" /\ r.on = c /\ r.hooks = client[c].closeHooks
    OBVIOUS
  <1> HIDE DEF r
  <1>10. HooksType'
    BY <1>1, <1>6, <1>8, <1>9 DEF HooksInv, HooksType
  <1>11. /\ \A l \in Closers, d \in ClientIds : l # k => (Runs(l, d)' <=> Runs(l, d))
         /\ \A d \in ClientIds : Runs(k, d)' <=> (d = c /\ client[c].closeHooks # {})
    BY <1>8, <1>9 DEF Runs
  <1>12. \A d \in ClientIds : ~Runs(k, d)
    BY <1>1 DEF Runs
  <1>13. ASSUME NEW d \in Live, d # c
         PROVE  HooksOf(d)'
    <2>1. d \in ClientIds /\ client'[d] = client[d] /\ HooksOf(d)
      BY <1>5, <1>13 DEF HooksInv, Live
    <2> QED
      BY <1>1, <1>8, <1>11, <1>13, <2>1 DEF HooksOf
  <1>14. HooksOf(c)'
    <2>1. HooksOf(c)
      BY <1>1 DEF HooksInv
    <2>2. client'[c].closeHooks = {} /\ client'[c].cfg.hooks = client[c].cfg.hooks
      BY <1>4, <1>5
    <2>3. CASE client[c].closeHooks = {}
      BY <1>1, <1>8, <1>11, <2>1, <2>2, <2>3 DEF HooksOf
    <2>4. CASE client[c].closeHooks # {}
      BY <1>1, <1>8, <1>9, <1>11, <2>1, <2>2, <2>4 DEF HooksOf
    <2> QED
      BY <2>3, <2>4
  <1>15. HooksInv'
    BY <1>1, <1>6, <1>10, <1>13, <1>14 DEF HooksInv
  <1> QED
    BY <1>5, <1>6, <1>7, <1>15

LEMMA HooksRun ==
  ASSUME ClientType, HooksInv, NEW k \in Closers, RunHooks(k)
  PROVE  HooksInv'
  <1> DEFINE X == closing[k].hooks
  <1>1. PICK c \in ClientIds : c = closing[k].on
    BY DEF RunHooks, HooksInv, HooksType, Live
  <1>2. /\ closing[k].pc = "hooks" /\ client' = client /\ Live' = Live
        /\ hookRuns' = [hookRuns EXCEPT ![c] = @ + Cardinality(X)]
        /\ closing' = [closing EXCEPT ![k] = [pc |-> "closed"]]
    BY <1>1 DEF RunHooks, Live
  <1>3. c \in Live /\ c \in ClientIds /\ HooksOf(c) /\ hookRuns \in [ClientIds -> Nat]
    BY <1>1, <1>2 DEF HooksInv, HooksType, Live
  <1>4. Cardinality(client[c].cfg.hooks) \in Nat /\ Cardinality({}) = 0
    BY <1>3, HooksCounted
  <1>5. /\ DOMAIN closing' = Closers /\ closing'[k].pc = "closed"
        /\ \A l \in Closers : l # k => closing'[l] = closing[l]
    BY <1>2 DEF HooksInv, HooksType
  <1>6. \A l \in Closers, d \in ClientIds : Runs(l, d)' <=> (l # k /\ Runs(l, d))
    BY <1>5 DEF Runs
  <1>7. X # {} => hookRuns[c] = 0 /\ X = client[c].cfg.hooks /\ Runs(k, c)
    BY <1>1, <1>2, <1>3 DEF HooksOf, Runs
  <1>8. /\ hookRuns' \in [ClientIds -> Nat] /\ \A d \in ClientIds : d # c => hookRuns'[d] = hookRuns[d]
        /\ hookRuns'[c] = hookRuns[c] + Cardinality(X)
        /\ hookRuns'[c] <= Cardinality(client[c].cfg.hooks)
        /\ X = {} => hookRuns'[c] = hookRuns[c]
    <2> DEFINE n == Cardinality(X)
    <2>1. n \in Nat /\ hookRuns[c] + n <= Cardinality(client[c].cfg.hooks) /\ (X = {} => n = 0)
      <3>1. CASE X = {}
        BY <1>3, <1>4, <3>1 DEF HooksOf
      <3>2. CASE X # {}
        BY <1>4, <1>7, <3>2
      <3> QED
        BY <3>1, <3>2
    <2>2. hookRuns' = [hookRuns EXCEPT ![c] = hookRuns[c] + n]
      BY <1>2
    <2> HIDE DEF n, X
    <2>3. /\ hookRuns' \in [ClientIds -> Nat] /\ \A d \in ClientIds : d # c => hookRuns'[d] = hookRuns[d]
          /\ hookRuns'[c] = hookRuns[c] + n
      BY <1>3, <2>1, <2>2
    <2> QED
      BY <1>3, <2>1, <2>3 DEF n
  <1>9. HooksType'
    BY <1>2, <1>5, <1>8 DEF HooksInv, HooksType
  <1>10. ASSUME NEW d \in Live, d # c
         PROVE  HooksOf(d)'
    <2>1. d \in ClientIds /\ HooksOf(d) /\ hookRuns'[d] = hookRuns[d]
      BY <1>8, <1>10 DEF HooksInv, Live
    <2> QED
      BY <1>2, <1>5, <1>6, <2>1 DEF HooksOf
  <1>11. HooksOf(c)'
    <2>1. CASE X = {}
      <3>1. hookRuns'[c] = hookRuns[c]
        BY <1>8, <2>1
      <3> HIDE DEF X
      <3> QED
        BY <1>2, <1>3, <1>5, <1>6, <1>8, <3>1 DEF HooksOf
    <2>2. CASE X # {}
      <3>1. client[c].closeHooks = {} /\ \A l \in Closers : ~Runs(l, c)'
        BY <1>3, <1>6, <1>7, <2>2 DEF HooksOf
      <3> HIDE DEF X
      <3> QED
        BY <1>2, <1>3, <1>8, <3>1 DEF HooksOf
    <2> QED
      BY <2>1, <2>2
  <1>12. \A d \in ClientIds \ Live : hookRuns'[d] = 0
    BY <1>3, <1>8 DEF HooksInv
  <1> QED
    BY <1>2, <1>9, <1>10, <1>11, <1>12 DEF HooksInv

LEMMA CloseKeeps ==
  ASSUME SlicesInv, EnginesInv, HooksInv, NEW k \in Closers, NEW c \in ClientIds, BeginClose(k, c)
  PROVE  SlicesInv' /\ EnginesInv' /\ HooksInv' /\ Onward
  <1>1. /\ HooksInv' /\ Live' = Live /\ client' \in [ClientIds -> Records \cup {NoClient}]
        /\ \A d \in Live : client'[d] = [client[d] EXCEPT !.closeHooks = client'[d].closeHooks]
    BY CloseBegins DEF SlicesInv
  <1>2. arrays' = arrays /\ engines' = engines
    BY DEF BeginClose
  <1>3. ASSUME NEW d \in Live
        PROVE  /\ client'[d].cfg = client[d].cfg /\ client'[d].engine = client[d].engine
               /\ client'[d].middlewares = client[d].middlewares /\ client'[d].given = client[d].given
               /\ client'[d].chain = client[d].chain
    <2>1. client[d] \in Records
      BY LiveRecords DEF SlicesInv
    <2> QED
      BY <1>1, <2>1 DEF Records
  <1>4. \A d \in Live, k2 \in Own : Mine(d, k2)' = Mine(d, k2)
    BY <1>3 DEF Mine
  <1>5. SlicesInv'
    <2>1. ClientType'
      BY <1>1, <1>2 DEF SlicesInv, ClientType
    <2>2. \A d \in Live : SlicesOf(d)'
      BY <1>2, <1>3, <1>4 DEF SlicesInv, SlicesOf
    <2>3. ArraysApart'
      BY <1>1, <1>3, <1>4 DEF SlicesInv, ArraysApart
    <2> QED
      BY <1>1, <2>1, <2>2, <2>3 DEF SlicesInv
  <1>6. EnginesInv'
    <2>1. \A d \in Live : EngineOf(d)'
      BY <1>2, <1>3 DEF EnginesInv, EngineOf
    <2> QED
      BY <1>1, <1>2, <2>1 DEF EnginesInv
  <1>7. Onward
    <2>1. \A d \in Live : Prefixed(client[d].given.middlewares, client[d].given.middlewares)
      BY GivenIsSeq, GivenIsKept
    <2> QED
      BY <1>1, <1>3, <2>1 DEF Onward
  <1> QED
    BY <1>1, <1>5, <1>6, <1>7

-----------------------------------------------------------------------------
(* The invariant of the clients. *)
ClientInv == SlicesInv /\ EnginesInv /\ SendsInv /\ NetInv /\ HooksInv

LEMMA DerivingKeeps ==
  ASSUME ClientInv, NEW p \in ClientIds, NEW c \in ClientIds, NEW o \in ChildOptions,
         NEW room \in Rooms, With(p, c, o, room)
  PROVE  ClientInv'
  <1>1. DerivedFrom(p, c)
    BY Derives DEF ClientInv
  <1>2. /\ ctxProxy' = ctxProxy /\ usedBy' = usedBy /\ send' = send
        /\ closing' = closing /\ hookRuns' = hookRuns
    BY DEF With
  <1>3. SlicesInv' /\ EnginesInv' /\ Onward
    BY <1>1, DerivedSlices, DerivedEngines, DerivedOnward DEF ClientInv
  <1> QED
    BY <1>1, <1>2, <1>3, SendsWait, NetWaits, DerivedHooks DEF ClientInv

LEMMA UsingKeeps ==
  ASSUME ClientInv, NEW c \in ClientIds, NEW room \in Rooms, Use(c, "late", room)
  PROVE  ClientInv'
  <1>1. GrownBy(c)
    BY Grows DEF ClientInv
  <1>2. /\ ctxProxy' = ctxProxy /\ usedBy' = usedBy /\ send' = send /\ engines' = engines
        /\ closing' = closing /\ hookRuns' = hookRuns
    BY DEF Use
  <1>3. SlicesInv' /\ Live' = Live /\ EnginesInv' /\ Onward
    BY <1>1, <1>2, GrownSlices, GrownEngines, GrownOnward DEF ClientInv
  <1>4. \A d \in Live : /\ client'[d].closeHooks = client[d].closeHooks
                        /\ client'[d].cfg.hooks = client[d].cfg.hooks
    BY <1>1 DEF GrownBy, Live
  <1>5. HooksInv'
    BY <1>2, <1>3, <1>4, HooksWait DEF ClientInv
  <1> QED
    BY <1>2, <1>3, <1>5, SendsWait, NetWaits DEF ClientInv

(* A step that changes neither clients nor slices nor engines. *)
LEMMA HeldStill ==
  ASSUME SlicesInv, EnginesInv, client' = client, arrays' = arrays, engines' = engines
  PROVE  SlicesInv' /\ EnginesInv' /\ Live' = Live /\ Onward
  <1>1. Live' = Live
    BY DEF Live
  <1>2. \A d, k : Mine(d, k)' = Mine(d, k)
    BY DEF Mine
  <1>3. SlicesInv'
    BY <1>1, <1>2 DEF SlicesInv, ClientType, SlicesOf, ArraysApart
  <1>4. EnginesInv'
    BY <1>1 DEF EnginesInv, EngineOf
  <1> QED
    BY <1>1, <1>3, <1>4, ClientsWait

LEMMA RequestsKeep ==
  ASSUME ClientInv, NEW s \in Sends,
         \/ \E c \in ClientIds, x \in Contexts \cup {Nobody} : BeginRequest(s, c, x)
         \/ EndRequest(s)
  PROVE  ClientInv'
  <1>1. /\ client' = client /\ arrays' = arrays /\ engines' = engines
        /\ closing' = closing /\ hookRuns' = hookRuns
    BY DEF BeginRequest, EndRequest
  <1>2. SlicesInv' /\ EnginesInv' /\ Live' = Live /\ Onward
    BY <1>1, HeldStill DEF ClientInv
  <1>3. HooksInv'
    BY <1>1, <1>2, HooksWait DEF ClientInv
  <1>4. SendsInv' /\ NetInv'
    <2>1. CASE EndRequest(s)
      BY <1>2, <2>1, RequestEnds, NetWaits DEF ClientInv
    <2>2. CASE ~EndRequest(s)
      BY <2>2, RequestBegins DEF ClientInv
    <2> QED
      BY <2>1, <2>2
  <1> QED
    BY <1>2, <1>3, <1>4 DEF ClientInv

LEMMA ClosingKeeps ==
  ASSUME ClientInv, NEW k \in Closers, (\E c \in ClientIds : BeginClose(k, c)) \/ RunHooks(k)
  PROVE  ClientInv'
  <1>1. ctxProxy' = ctxProxy /\ usedBy' = usedBy /\ send' = send
    BY DEF BeginClose, RunHooks
  <1>2. SlicesInv' /\ EnginesInv' /\ HooksInv' /\ Onward
    <2>1. CASE RunHooks(k)
      <3>1. client' = client /\ arrays' = arrays /\ engines' = engines
        BY <2>1 DEF RunHooks
      <3> QED
        BY <2>1, <3>1, HeldStill, HooksRun DEF ClientInv, SlicesInv
    <2>2. CASE ~RunHooks(k)
      BY <2>2, CloseKeeps DEF ClientInv
    <2> QED
      BY <2>1, <2>2
  <1> QED
    BY <1>1, <1>2, SendsWait, NetWaits DEF ClientInv

LEMMA ClientNextInv == ClientInv /\ [ClientNext]_clientVars => ClientInv'
  <1> SUFFICES ASSUME ClientInv, [ClientNext]_clientVars
               PROVE  ClientInv'
    OBVIOUS
  <1>1. ASSUME NEW p \in ClientIds, NEW c \in ClientIds, NEW o \in ChildOptions, NEW room \in Rooms,
               With(p, c, o, room)
        PROVE  ClientInv'
    BY <1>1, DerivingKeeps
  <1>2. ASSUME NEW c \in ClientIds, NEW mw \in {"late"}, NEW room \in Rooms, Use(c, mw, room)
        PROVE  ClientInv'
    BY <1>2, UsingKeeps
  <1>3. ASSUME NEW s \in Sends,
               \/ \E c \in ClientIds, x \in Contexts \cup {Nobody} : BeginRequest(s, c, x)
               \/ EndRequest(s)
        PROVE  ClientInv'
    BY <1>3, RequestsKeep
  <1>4. ASSUME NEW k \in Closers, (\E c \in ClientIds : BeginClose(k, c)) \/ RunHooks(k)
        PROVE  ClientInv'
    BY <1>4, ClosingKeeps
  <1>5. CASE UNCHANGED clientVars
    <2>1. /\ client' = client /\ arrays' = arrays /\ engines' = engines /\ send' = send
          /\ ctxProxy' = ctxProxy /\ usedBy' = usedBy /\ closing' = closing /\ hookRuns' = hookRuns
      BY <1>5 DEF clientVars
    <2> QED
      BY <2>1, HeldStill, SendsWait, NetWaits, HooksWait DEF ClientInv
  <1> QED
    BY <1>1, <1>2, <1>3, <1>4, <1>5 DEF ClientNext

LEMMA ClientsIndependentNow == ClientInv => ClientsIndependent
  <1> SUFFICES ASSUME ClientInv
               PROVE  ClientsIndependent
    OBVIOUS
  <1>1. DerivedIsIndependent
    <2>1. ASSUME NEW c \in Live
          PROVE  /\ View(arrays, client[c].middlewares) = client[c].given.middlewares
                 /\ View(arrays, client[c].cfg.middlewares) = client[c].given.middlewares
      BY DEF ClientInv, SlicesInv, SlicesOf, Mine, Own
    <2> QED
      BY <2>1 DEF ClientInv, EnginesInv, EngineOf, SettingsOwn, DerivedIsIndependent
  <1>2. NetworkIsOwn
    BY DEF ClientInv, SendsInv, SendInv, ProxyOf, NetworkIsOwn, Finished
  <1>3. MiddlewaresInForce
    <2>1. ASSUME NEW s \in Finished
          PROVE  /\ Len(send[s].middlewares) >= Len(send[s].due) \/ send[s].path = "baremetal"
                 /\ send[s].path = "baremetal" => send[s].due = <<>>
                 /\ SubSeq(client[send[s].on].given.middlewares, 1, Len(send[s].middlewares)) = send[s].middlewares
      <3> DEFINE r == send[s].middlewares
                 t == client[send[s].on].given.middlewares
      <3>1. s \in Sends /\ send[s].pc = "sent"
        BY DEF Finished
      <3>2. /\ Len(r) >= Len(send[s].due) \/ send[s].path = "baremetal"
            /\ send[s].path = "baremetal" => send[s].due = <<>>
            /\ Prefixed(r, t)
        BY <3>1 DEF ClientInv, SendsInv, SendInv
      <3> HIDE DEF r, t
      <3>3. r \in Seq(Values) /\ SubSeq(t, 1, Len(r)) = SubSeq(r, 1, Len(r))
        BY <3>2 DEF Prefixed
      <3>4. SubSeq(r, 1, Len(r)) = r
        BY <3>3
      <3> QED
        BY <3>2, <3>3, <3>4 DEF r, t
    <2> QED
      BY <2>1 DEF MiddlewaresInForce
  <1>4. HooksRunOnce
    BY DEF ClientInv, HooksInv, HooksOf, HooksRunOnce
  <1> QED
    BY <1>1, <1>2, <1>3, <1>4 DEF ClientsIndependent

(* What NewClient makes. *)
LEMMA ClientStarts == ClientInit => ClientInv
  <1> SUFFICES ASSUME ClientInit
               PROVE  ClientInv
    OBVIOUS
  <1>1. PICK doer \in Doers, o \in RootOptions, room \in Rooms : NewClient(doer, o, room)
    BY DEF ClientInit
  <1> DEFINE hp == CASE doer = "nil" -> <<DefaultHTTP>>
                     [] doer \in {"http", "tied"} -> <<Given(doer), Given(doer)>>
                     [] doer \in {"wrapper", "custom"} -> <<Given(doer)>>
             custom == IF doer = "nil" THEN 0 ELSE 1
             blank == BlankConfig(custom)
             st == Optioned(blank, <<>>, o, Root, room)
             own == SliceClone(st.heap, st.cfg.middlewares, room["own"])
             final == IF custom = 0 THEN [heap |-> hp, engine |-> 1] ELSE Cloned(hp, custom)
             n == Len(hp)
             ws == View(own.heap, own.slice)
             bare == IsBaremetalEligible(st.cfg)
             cfg == [st.cfg EXCEPT !.userAgent = TRUE]
             e == final.engine
             r == [made |-> TRUE, cfg |-> cfg, engine |-> e, middlewares |-> own.slice,
                   chain |-> [engine |-> n, middlewares |-> ws],
                   baremetal |-> bare, prepared |-> FALSE, closeHooks |-> st.cfg.hooks,
                   given |-> [middlewares |-> o.middlewares, validators |-> o.validators]]
  <1>2. /\ arrays = own.heap
        /\ engines = Tuned(final.heap, final.engine, st.cfg, Root)
        /\ client = [c \in ClientIds |-> IF c # Root THEN NoClient ELSE r]
    BY <1>1 DEF NewClient, RebuildChain
  <1>3. /\ ctxProxy = [x \in Contexts |-> IF x \in OwnContexts THEN Caller ELSE Nobody]
        /\ usedBy = [x \in Contexts |-> {}] /\ send = [s \in Sends |-> [pc |-> "idle"]]
        /\ closing = [k \in Closers |-> [pc |-> "idle"]] /\ hookRuns = [c \in ClientIds |-> 0]
    BY DEF ClientInit
  <1>4. Root \in ClientIds /\ o \in AllOptions /\ room["own"] \in Nat
    BY RootAssumption, RoomsAssumption DEF AllOptions, Slots
  <1>5. hp \in Seq(Engines) /\ Len(hp) \in Nat /\ Len(hp) >= 1 /\ custom \in 0 .. 1
    <2>1. doer \in {"nil"} \cup Kinds
      BY OptionsAssumption DEF Kinds
    <2>2. DefaultHTTP \in Engines /\ \A k \in Kinds : Given(k) \in Engines
      BY DEF Engines, Kinds, DefaultHTTP, Given, Owners
    <2>3. CASE doer = "nil"
      BY <2>2, <2>3
    <2>4. CASE doer \in {"http", "tied"}
      BY <2>2, <2>4 DEF Kinds
    <2>5. CASE doer \in {"wrapper", "custom"}
      BY <2>2, <2>5 DEF Kinds
    <2> QED
      BY <2>1, <2>3, <2>4, <2>5 DEF Kinds
  <1> HIDE DEF hp, custom
  <1>6. /\ blank \in Cfgs /\ blank.middlewares = EmptySlice /\ blank.validators = EmptySlice
        /\ blank.engine = custom
    <2>1. {} \in HookSets
      BY FS_EmptySet DEF HookSets
    <2> QED
      BY <1>5, <2>1 DEF BlankConfig, Cfgs, EmptySlice, Slices, Owners
  <1>7. /\ Within(<<>>, EmptySlice) /\ View(<<>>, EmptySlice) = <<>> /\ <<>> \in Heaps
        /\ Distinct(blank)
    BY <1>6 DEF Within, EmptySlice, Slices, View, Heaps, Distinct
  <1> HIDE DEF blank
  <1>8. /\ Applied(st, <<>>, blank)
        /\ View(st.heap, st.cfg.middlewares) = o.middlewares
    <2>1. /\ Applied(st, <<>>, blank)
          /\ View(st.heap, st.cfg.middlewares) = View(<<>>, blank.middlewares) \o o.middlewares
      BY <1>4, <1>6, <1>7, OptionsApply
    <2>2. o.middlewares \in Seq(Values)
      BY <1>4, OptionsFit
    <2>3. <<>> \o o.middlewares = o.middlewares
      BY <2>2
    <2> HIDE DEF st
    <2> QED
      BY <1>6, <1>7, <2>1, <2>3
  <1> HIDE DEF st
  <1>9. /\ st.heap \in Heaps /\ st.cfg \in Cfgs /\ st.cfg.engine = custom /\ Len(st.heap) \in Nat
        /\ Within(st.heap, st.cfg.middlewares) /\ Within(st.heap, st.cfg.validators)
        /\ Distinct(st.cfg)
    BY <1>6, <1>8 DEF Applied, Moved, Heaps
  <1>10. /\ Extends(own.heap, st.heap, 0) /\ Within(own.heap, own.slice)
         /\ own.slice.arr = 0 \/ own.slice.arr > Len(st.heap)
         /\ View(own.heap, own.slice) = View(st.heap, st.cfg.middlewares)
    BY <1>4, <1>9, Clones
  <1> HIDE DEF own
  <1>11. /\ Within(own.heap, st.cfg.middlewares) /\ Within(own.heap, st.cfg.validators)
         /\ View(own.heap, st.cfg.middlewares) = View(st.heap, st.cfg.middlewares)
    <2>1. 0 \in Nat
      OBVIOUS
    <2>2. \A s : Within(st.heap, s) => Within(own.heap, s) /\ View(own.heap, s) = View(st.heap, s)
      BY <1>9, <1>10, <2>1, ViewsStay
    <2> QED
      BY <1>9, <2>2
  <1>12. /\ final.heap \in Seq(Engines) /\ e \in 1 .. Len(final.heap) /\ custom \in 0 .. Len(final.heap)
    <2>1. CASE custom = 0
      BY <1>5, <2>1
    <2>2. CASE custom # 0
      <3>1. custom \in 1 .. Len(hp) /\ final = Cloned(hp, custom)
        BY <1>5, <2>2
      <3>2. /\ Cloned(hp, custom).heap \in Seq(Engines) /\ Len(hp) <= Len(Cloned(hp, custom).heap)
            /\ Cloned(hp, custom).engine \in 1 .. Len(Cloned(hp, custom).heap)
        BY <1>5, <3>1, EngineClones
      <3>3. Len(Cloned(hp, custom).heap) \in Nat
        BY <3>2
      <3> HIDE DEF final
      <3> QED
        BY <1>5, <3>1, <3>2, <3>3
    <2> QED
      BY <2>1, <2>2
  <1> HIDE DEF final
  <1>13. /\ engines \in Seq(Engines) /\ Len(engines) = Len(final.heap)
         /\ engines[e].kind = "http" => engines[e].dialer = Root /\ (st.cfg.timeout > 0 => engines[e].timeout = st.cfg.timeout)
    <2> DEFINE k == st.cfg
               g == final.heap
    <2>1. g \in Seq(Engines) /\ e \in 1 .. Len(g) /\ k \in Cfgs /\ engines = Tuned(g, e, k, Root)
      BY <1>2, <1>9, <1>12
    <2> HIDE DEF k, g, e
    <2>2. LET y == Tuned(g, e, k, Root)
          IN /\ y \in Seq(Engines) /\ Len(y) = Len(g)
             /\ y[e].kind = "http" => y[e].dialer = Root /\ (k.timeout > 0 => y[e].timeout = k.timeout)
      BY <1>4, <2>1, EngineTuned
    <2> QED
      BY <2>1, <2>2 DEF k, g
  <1> HIDE DEF e
  <1>14. /\ cfg \in Cfgs /\ cfg.middlewares = st.cfg.middlewares /\ cfg.validators = st.cfg.validators
         /\ cfg.engine = custom /\ cfg.timeout = st.cfg.timeout /\ cfg.hooks = st.cfg.hooks
    <2> DEFINE k == st.cfg
    <2>1. k \in Cfgs
      BY <1>9
    <2> HIDE DEF k
    <2>2. /\ [k EXCEPT !.userAgent = TRUE] \in Cfgs
          /\ [k EXCEPT !.userAgent = TRUE].middlewares = k.middlewares
          /\ [k EXCEPT !.userAgent = TRUE].validators = k.validators
          /\ [k EXCEPT !.userAgent = TRUE].engine = k.engine
          /\ [k EXCEPT !.userAgent = TRUE].timeout = k.timeout
          /\ [k EXCEPT !.userAgent = TRUE].hooks = k.hooks
      BY <2>1 DEF Cfgs
    <2> QED
      BY <1>9, <2>2 DEF k
  <1>15. /\ own.slice \in Slices /\ ws \in Seq(Values) /\ bare \in BOOLEAN /\ n \in Nat /\ e \in Nat
         /\ o.middlewares \in Seq(Values) /\ o.validators \in Seq(Values) /\ st.cfg.hooks \in HookSets
         /\ ws = o.middlewares
    <2>1. ws = o.middlewares
      BY <1>8, <1>10
    <2>2. o.middlewares \in Seq(Values) /\ o.validators \in Seq(Values)
      BY <1>4, OptionsFit
    <2>3. own.slice \in Slices /\ bare \in BOOLEAN /\ n \in Nat /\ e \in Nat
      BY <1>5, <1>10, <1>12 DEF Within, IsBaremetalEligible
    <2>4. st.cfg.hooks \in HookSets
      BY <1>9 DEF Cfgs
    <2> QED
      BY <2>1, <2>2, <2>3, <2>4
  <1> HIDE DEF cfg, n, ws, bare
  <1>16. /\ r \in Records /\ r.made /\ r.cfg = cfg /\ r.engine = e /\ r.middlewares = own.slice
         /\ r.chain.middlewares = ws /\ r.closeHooks = st.cfg.hooks /\ r.given.middlewares = o.middlewares
    BY <1>14, <1>15 DEF Records
  <1> HIDE DEF r
  <1>17. /\ client \in [ClientIds -> Records \cup {NoClient}] /\ client[Root] = r
         /\ \A c \in ClientIds : c # Root => client[c] = NoClient
    BY <1>2, <1>4, <1>16
  <1>18. Live = {Root}
    <2>1. ~NoClient.made
      BY DEF NoClient
    <2> QED
      BY <1>4, <1>16, <1>17, <2>1 DEF Live
  <1>19. SlicesInv
    <2>1. ClientType
      BY <1>2, <1>10, <1>17 DEF ClientType, Extends
    <2>2. Mine(Root, "own") = own.slice /\ Mine(Root, "config") = st.cfg.middlewares
      BY <1>14, <1>16, <1>17 DEF Mine
    <2>3. SlicesOf(Root)
      <3>1. /\ client[Root].cfg.validators = st.cfg.validators
            /\ client[Root].given.middlewares = o.middlewares
            /\ client[Root].chain.middlewares = o.middlewares
        BY <1>14, <1>15, <1>16, <1>17
      <3>2. /\ Within(arrays, own.slice) /\ View(arrays, own.slice) = o.middlewares
            /\ Within(arrays, st.cfg.middlewares) /\ View(arrays, st.cfg.middlewares) = o.middlewares
            /\ Within(arrays, st.cfg.validators)
        BY <1>2, <1>8, <1>10, <1>11
      <3>3. \A k \in Own : Mine(Root, k) = own.slice \/ Mine(Root, k) = st.cfg.middlewares
        BY <2>2 DEF Own
      <3> QED
        BY <3>1, <3>2, <3>3 DEF SlicesOf
    <2>4. /\ own.slice.arr = 0 \/ own.slice.arr # st.cfg.middlewares.arr
          /\ own.slice.arr = 0 \/ own.slice.arr # st.cfg.validators.arr
      BY <1>9, <1>10 DEF Within, Slices
    <2>5. ArraysApart
      <3>1. client[Root].cfg.validators = st.cfg.validators
        BY <1>14, <1>16, <1>17
      <3> DEFINE Arr(d, k) == Mine(d, k).arr
                 Vals(d) == client[d].cfg.validators.arr
      <3>2. /\ \A k, l \in Own : Arr(Root, k) # 0 /\ Arr(Root, k) = Arr(Root, l) => k = l
            /\ \A k \in Own : Arr(Root, k) # 0 => Arr(Root, k) # Vals(Root)
        BY <1>9, <2>2, <2>4, <3>1 DEF Own, Distinct
      <3> HIDE DEF Arr, Vals
      <3>3. /\ \A d, f \in Live, k, l \in Own : Arr(d, k) # 0 /\ Arr(d, k) = Arr(f, l) => d = f /\ k = l
            /\ \A d, f \in Live, k \in Own : Arr(d, k) # 0 => Arr(d, k) # Vals(f)
        BY <1>18, <3>2
      <3> QED
        BY <3>3 DEF ArraysApart, Arr, Vals
    <2> QED
      BY <1>18, <2>1, <2>3, <2>5 DEF SlicesInv
  <1>20. EnginesInv
    <2>1. EngineOf(Root)
      BY <1>12, <1>13, <1>14, <1>16, <1>17 DEF EngineOf
    <2> QED
      BY <1>13, <1>18, <2>1 DEF EnginesInv
  <1>21. SendsInv
    BY <1>3 DEF SendsInv, SendInv
  <1>22. NetInv
    BY <1>3, RootAssumption DEF NetInv, Owners
  <1>23. HooksInv
    <2>1. HooksOf(Root)
      <3>1. Cardinality(client[Root].cfg.hooks) \in Nat
        BY <1>18, <1>19, HooksCounted DEF SlicesInv
      <3>2. client[Root].closeHooks = client[Root].cfg.hooks /\ hookRuns[Root] = 0
        BY <1>3, <1>4, <1>14, <1>16, <1>17
      <3>3. \A k \in Closers : ~Runs(k, Root)
        BY <1>3 DEF Runs
      <3>4. client[Root].closeHooks # {} => hookRuns[Root] = 0
        BY <3>2
      <3> QED
        BY <3>1, <3>2, <3>3, <3>4 DEF HooksOf
    <2> QED
      BY <1>3, <1>18, <2>1 DEF HooksInv, HooksType
  <1> QED
    BY <1>19, <1>20, <1>21, <1>22, <1>23 DEF ClientInv

-----------------------------------------------------------------------------
(* The sides of the run are explored apart: what one does leaves the         *)
(* invariants of the others as they are.                                     *)
LEMMA ClientStepsApart ==
  [MCNext]_allVars => [BuilderNext]_builderVars /\ [FastNext]_fastVars
  BY DEF MCNext, allVars

LEMMA ClientSidesStart == MCInit => BuilderInit /\ FastInit
  BY DEF MCInit, Only

(* However many calls share the pooled builders, and in whatever order they  *)
(* acquire, configure, send and give them back, a request carries what its   *)
(* own user set; every response of every form of call but FetchResult is     *)
(* closed or handed out, and a batch leaves nothing behind (builder.go,      *)
(* typed.go, internal/response).                                             *)
THEOREM BuildersAlwaysSettle == MCSpec => []BuildersSettle
  <1>1. MCInit => BuilderInv
    BY ClientSidesStart, BuilderStarts
  <1>2. BuilderInv /\ [MCNext]_allVars => BuilderInv'
    BY ClientStepsApart, BuilderNextInv
  <1>3. BuilderInv => BuildersSettle
    BY BuildersSettled
  <1> QED
    BY <1>1, <1>2, <1>3, PTL DEF MCSpec

(* Whatever redirects the servers answer with, a fast request carries        *)
(* credentials to the host they were given for and cookies within their site *)
(* only, within the redirect limit, and a pooled adapter is in one place at  *)
(* a time whoever releases it (fast/).                                       *)
THEOREM FastCallsStayIsolated == MCSpec => []FastCallsIsolated
  <1>1. MCInit => FastInv
    BY ClientSidesStart, FastStarts
  <1>2. FastInv /\ [MCNext]_allVars => FastInv'
    BY ClientStepsApart, FastNextInv
  <1>3. FastInv => FastCallsIsolated
    BY FastIsolated
  <1> QED
    BY <1>1, <1>2, <1>3, PTL DEF MCSpec

LEMMA ClientSideStarts == MCInit => ClientInit
  BY DEF MCInit, Only

LEMMA ClientSideSteps == [MCNext]_allVars => [ClientNext]_clientVars
  <1> SUFFICES ASSUME [MCNext]_allVars
               PROVE  [ClientNext]_clientVars
    OBVIOUS
  <1>1. CASE MCNext
    BY <1>1 DEF MCNext
  <1>2. CASE UNCHANGED allVars
    BY <1>2 DEF allVars
  <1> QED
    BY <1>1, <1>2

(* Whatever clients are derived, changed, used and closed, and in whatever  *)
(* order, each keeps the middlewares and the network it was given, and the  *)
(* engine settings where its engine is an *http.Client that can be cloned,  *)
(* its requests run through the middlewares in force and its hooks once     *)
(* (client.go).                                                             *)
THEOREM ClientsStayIndependent == MCSpec => []ClientsIndependent
  <1>1. MCInit => ClientInv
    BY ClientSideStarts, ClientStarts
  <1>2. ClientInv /\ [MCNext]_allVars => ClientInv'
    BY ClientSideSteps, ClientNextInv
  <1> QED
    BY <1>1, <1>2, ClientsIndependentNow, PTL DEF MCSpec
=============================================================================
