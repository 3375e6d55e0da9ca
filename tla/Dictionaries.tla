---------------------------- MODULE Dictionaries -----------------------------
(***************************************************************************)
(* The store of compression dictionaries (netutil/dict): what a response   *)
(* header makes a dictionary of, eviction by recency within a budget of    *)
(* bytes, and the choice of the best dictionary for a request.  Every      *)
(* method holds s.mu, so each is one step.                                 *)
(***************************************************************************)
EXTENDS Naturals, Sequences, SequencesExt, FiniteSets, FiniteSetsExt

CONSTANTS
  Announced,    \* responses with a Use-As-Dictionary header, see Meta
  Seekers,      \* requests: [origin, path, dest]
  MaxBytes,     \* of the store
  MaxDictSize,  \* of one dictionary
  DefaultTTL,
  MaxClock      \* bound on the time modelled

ASSUME DictAssumption == MaxDictSize <= MaxBytes

AnyChars == "*"
NoId == ""

VARIABLES
  clock,
  lru,          \* s.lruList, the most recently used first
  byId,         \* s.byID: identifiers to stored dictionaries
  currentSize,
  best          \* history: the last Match: its request and what it found

dictVars == <<clock, lru, byId, currentSize, best>>

NoMatch == [found |-> FALSE]

DictInit ==
  /\ clock = 0
  /\ lru = <<>>
  /\ byId = <<>>
  /\ currentSize = 0
  /\ best = NoMatch

-----------------------------------------------------------------------------
(* matchWildcard, on sequences of characters.                               *)
Stars(p) == {i \in DOMAIN p : p[i] = AnyChars}
UpTo(p) == IF Stars(p) = {} THEN p ELSE SubSeq(p, 1, Min(Stars(p)) - 1)
Occurs(lit, s) == {i \in 1..(Len(s) + 1) : IsPrefix(lit, SubSeq(s, i, Len(s)))}

MatchWildcard[p \in Seq(STRING), s \in Seq(STRING)] ==
  IF p = <<>> THEN s = <<>>
  ELSE IF Stars(p) = {} THEN p = s
  ELSE LET i == Min(Stars(p))
           rest == SubSeq(p, i + 1, Len(p))
           after == SubSeq(s, i, Len(s))
           where == Occurs(UpTo(rest), after)
       IN /\ IsPrefix(SubSeq(p, 1, i - 1), s)
          /\ rest # <<>> =>
               where # {} /\ MatchWildcard[rest, SubSeq(after, Min(where), Len(after))]

-----------------------------------------------------------------------------
(* Faulty variants of single steps, which the properties must tell apart    *)
(* from the code.                                                           *)
AnyAge(d) == TRUE

-----------------------------------------------------------------------------
(* ParseUseAsDictionary: without a pattern the response's directory is      *)
(* matched; only raw dictionaries are taken.                                *)
Directory(path) == SubSeq(path, 1, Max({0} \cup {i \in DOMAIN path : path[i] = "/"}))

MatchOf(r) == IF r.match = <<>> THEN Directory(r.path) \o <<AnyChars>> ELSE r.match

Acceptable(r) == r.size > 0 /\ r.size <= MaxDictSize /\ r.type = "raw"

Meta(r) ==
  [hash |-> r.hash, id |-> r.id, origin |-> r.origin, match |-> MatchOf(r), dest |-> r.dest,
   base |-> Directory(r.path), size |-> r.size, fetchedAt |-> clock,
   expiresAt |-> clock + (IF r.ttl > 0 THEN r.ttl ELSE DefaultTTL)]

IsFresh(d) == clock < d.expiresAt

(* MatchURLPattern: a relative pattern starts at the directory of the       *)
(* response.                                                                *)
Absolute(d) == IF Head(d.match) = "/" THEN d.match ELSE d.base \o d.match

Fits(d, q) ==
  /\ d.dest # {} => q.dest \in d.dest
  /\ d.origin = q.origin
  /\ MatchWildcard[Absolute(d), q.path]

Bytes(ds) == FoldSeq(LAMBDA d, n : d.size + n, 0, ds)

(* What a removal takes off the count. *)
Freed(ds) == Bytes(ds)

ForgetIds(ids, ds) ==
  [i \in DOMAIN ids \ {ds[k].id : k \in DOMAIN ds} |-> ids[i]]

(* Set: the dictionary with the same hash goes, then the least recently     *)
(* used ones until the new one fits or none is left.                        *)
StoreDict(r) ==
  LET d == Meta(r)
      others == SelectSeq(lru, LAMBDA e : e.hash # d.hash)
      same == SelectSeq(lru, LAMBDA e : e.hash = d.hash)
      keep == Max({n \in 0..Len(others) :
                     n = 0 \/ Bytes(SubSeq(others, 1, n)) + d.size <= MaxBytes})
      evicted == SubSeq(others, keep + 1, Len(others))
      ids == ForgetIds(byId, same \o evicted)
  IN
  /\ Acceptable(r)
  /\ lru' = <<d>> \o SubSeq(others, 1, keep)
  /\ currentSize' = currentSize - Freed(same) - Bytes(evicted) + d.size
  /\ byId' = IF d.id = NoId THEN ids
             ELSE [i \in DOMAIN ids \cup {d.id} |-> IF i = d.id THEN d ELSE ids[i]]
  /\ best' = NoMatch
  /\ UNCHANGED clock

(* Match's loop over the list: a later dictionary replaces the best so far  *)
(* if it names a destination and the best does not, or else has the longer  *)
(* pattern, or was fetched later.                                           *)
HasDest(d, q) == d.dest # {} /\ q.dest # ""

Beats(d, e, q) ==
  IF HasDest(d, q) # HasDest(e, q) THEN HasDest(d, q)
  ELSE IF Len(d.match) # Len(e.match) THEN Len(d.match) > Len(e.match)
  ELSE d.fetchedAt > e.fetchedAt

MatchRequest(q) ==
  LET fit == SelectSeq(lru, LAMBDA d : IsFresh(d) /\ Fits(d, q))
      b == FoldLeft(LAMBDA e, d : IF Beats(d, e, q) THEN d ELSE e, fit[1], fit)
  IN
  /\ IF fit = <<>>
       THEN best' = [found |-> FALSE, q |-> q] /\ UNCHANGED lru
       ELSE /\ best' = [found |-> TRUE, q |-> q, d |-> b]
            /\ lru' = <<b>> \o SelectSeq(lru, LAMBDA d : d # b)
  /\ UNCHANGED <<clock, byId, currentSize>>

DeleteDict(h) ==
  LET gone == SelectSeq(lru, LAMBDA e : e.hash = h) IN
  /\ gone # <<>>
  /\ lru' = SelectSeq(lru, LAMBDA e : e.hash # h)
  /\ currentSize' = currentSize - Bytes(gone)
  /\ byId' = ForgetIds(byId, gone)
  /\ best' = NoMatch
  /\ UNCHANGED clock

ClearDicts ==
  /\ lru # <<>>
  /\ lru' = <<>> /\ byId' = <<>> /\ currentSize' = 0 /\ best' = NoMatch
  /\ UNCHANGED clock

TimePasses ==
  /\ clock < MaxClock
  /\ clock' = clock + 1
  /\ best' = NoMatch
  /\ UNCHANGED <<lru, byId, currentSize>>

(* GetByHash and GetByID *)
ByHash(h) == {lru[i] : i \in {j \in DOMAIN lru : lru[j].hash = h /\ IsFresh(lru[j])}}
ById(id) == IF id \in DOMAIN byId /\ IsFresh(byId[id]) THEN {byId[id]} ELSE {}

DictNext ==
  \/ \E r \in Announced : StoreDict(r) \/ DeleteDict(r.hash)
  \/ \E q \in Seekers : MatchRequest(q)
  \/ ClearDicts \/ TimePasses

DictSpec == DictInit /\ [][DictNext]_dictVars

-----------------------------------------------------------------------------
Glob[p \in Seq(STRING), s \in Seq(STRING)] ==
  IF p = <<>> THEN s = <<>>
  ELSE IF Head(p) = AnyChars THEN \E i \in 1..(Len(s) + 1) : Glob[Tail(p), SubSeq(s, i, Len(s))]
  ELSE s # <<>> /\ Head(s) = Head(p) /\ Glob[Tail(p), Tail(s)]

(* After any sequence of stores, replacements, evictions and removals the   *)
(* count is that of the stored bytes and within the budget, a hash is       *)
(* stored once, and neither index leads to a dictionary that is gone; and   *)
(* what Match found is stored, fresh, of the request's origin, covers its   *)
(* path as a glob does, and is beaten by no other that would do.            *)
StoreIsExact ==
  LET stored == {lru[i] : i \in DOMAIN lru} IN
  /\ currentSize = Bytes(lru) /\ currentSize <= MaxBytes
  /\ \A i, j \in DOMAIN lru : lru[i].hash = lru[j].hash => i = j
  /\ \A id \in DOMAIN byId : ById(id) \subseteq ByHash(byId[id].hash) /\ byId[id] \in stored
  /\ best.found =>
       /\ best.d \in stored /\ clock < best.d.expiresAt /\ best.d.origin = best.q.origin
       /\ Glob[Absolute(best.d), best.q.path]
       /\ ~\E d \in stored : IsFresh(d) /\ Fits(d, best.q) /\ Beats(d, best.d, best.q)

-----------------------------------------------------------------------------
(* "GetByID retrieves a dictionary by its server identifier"                *)
(* (netutil/dict/store.go:274): any fresh one that is stored under it.      *)
FoundById ==
  \A i \in DOMAIN lru : lru[i].id # NoId /\ IsFresh(lru[i]) => ById(lru[i].id) # {}

(* "implements standard glob/wildcard matching" (netutil/dict/dict.go:171). *)
WildcardIsGlob ==
  \A i \in DOMAIN lru, q \in Seekers :
    Glob[Absolute(lru[i]), q.path] => MatchWildcard[Absolute(lru[i]), q.path]
=============================================================================
