------------------------------- MODULE Cookies -------------------------------
(***************************************************************************)
(* The cookie package: ProxyIsolatedJar with its lazily created jar per    *)
(* proxy (cookie/jar.go), MemoryJar (memory_jar.go) inside PersistentJar,  *)
(* and JSONFileStorage (storage.go).  Calls of SetCookies run concurrently *)
(* with the janitor, and the process may crash and start again.            *)
(*                                                                         *)
(* A host is a sequence of labels from the top-level domain down, a path a *)
(* sequence of segments; a cookie's value is the call that set it.         *)
(***************************************************************************)
EXTENDS Naturals, Sequences, FiniteSets

CONSTANTS
  Setters,     \* calls of SetCookies, one cookie each
  SetInputs,   \* inputs of a call
  Proxies,
  Suffixes,    \* domains the PublicSuffixList names
  MaxJars,     \* bound on the jars created
  MaxCrashes   \* bound on the crashes

ASSUME CookieAssumption ==
  /\ MaxJars \in Nat /\ MaxCrashes \in Nat
  /\ \A i \in SetInputs : i.proxy \in Proxies /\ i.host \in Seq(STRING)

NoPart == "none"
Idle == [pc |-> "idle", jar |-> 0, flush |-> {}]

VARIABLES
  given,     \* the input of each call
  kpc,       \* where it is
  mine,      \* the jar it works on
  jars,      \* ProxyIsolatedJar.jars, 0 for none
  owner,     \* the proxy each jar was created for
  inner,     \* MemoryJar: cookies of each jar
  kept,      \* PersistentJar.cookies of each jar
  dirty,     \* PersistentJar.dirty
  memory,    \* JSONFileStorage.data
  disk,      \* the file
  janitor,   \* the flush under way, per proxy
  aged,      \* cookies whose time is over
  failed,    \* a write to the file has failed (a ghost)
  outdated,  \* jars put after a save they were created without (a ghost)
  crashes

cookieVars == <<given, kpc, mine, jars, owner, inner, kept, dirty, memory, disk, janitor, aged,
                failed, outdated, crashes>>

CookieInit ==
  /\ given \in [Setters -> SetInputs]
  /\ kpc = [s \in Setters |-> "find"]
  /\ mine = [s \in Setters |-> 0]
  /\ jars = [p \in Proxies |-> 0]
  /\ owner = <<>> /\ inner = <<>> /\ kept = <<>> /\ dirty = <<>>
  /\ memory = [p \in Proxies |-> {}]
  /\ disk = [p \in Proxies |-> {}]
  /\ janitor = [p \in Proxies |-> Idle]
  /\ aged = {} /\ failed = FALSE /\ outdated = {} /\ crashes = 0

-----------------------------------------------------------------------------
(* Faulty variants of single steps, which the properties must tell apart    *)
(* from the code.                                                           *)
OnlyAdds(before, after) == after \ before # {}

-----------------------------------------------------------------------------
(* DomainMatch *)
DomainMatch(host, domain) ==
  Len(domain) <= Len(host) /\ SubSeq(host, 1, Len(domain)) = domain

(* PathMatch *)
PathMatch(path, prefix) ==
  Len(prefix) <= Len(path) /\ SubSeq(path, 1, Len(prefix)) = prefix

(* GetPartitionKey, for a cookie that says Partitioned. *)
PartitionOf(i) == IF i.partitioned THEN i.part ELSE NoPart

(* FromStd: the Partitioned attribute is not carried over. *)
CookieOf(s) ==
  LET i == given[s] IN
  [domain |-> IF i.domain = <<>> THEN i.host ELSE i.domain,
   path |-> i.path, secure |-> i.secure, part |-> PartitionOf(i), value |-> s]

Key(c) == <<c.domain, c.path, c.part>>

(* MemoryJar.SetCookies refuses public suffixes and domains of other hosts, *)
(* if the cookie names a domain.                                            *)
Accepts(i) ==
  i.domain # <<>> => i.domain \notin Suffixes /\ DomainMatch(i.host, i.domain)

Unaged(cs) == {c \in cs : c.value \notin aged}

Stored(cs, i, c) ==
  LET rest == {d \in cs : Key(d) # Key(c)} IN
  Unaged(IF ~Accepts(i) THEN cs ELSE IF i.expired THEN rest ELSE rest \cup {c})

(* PersistentJar.SetCookies checks nothing, and a deletion takes the cookie *)
(* of every path: deleteMatchingCookie.                                     *)
Recorded(cs, i, c) ==
  Unaged(IF i.expired
         THEN {d \in cs : <<d.domain, d.part>> # <<c.domain, c.part>>}
         ELSE {d \in cs : Key(d) # Key(c)} \cup {c})

(* initPersistentJar: each cookie is set for its own domain, and a restored *)
(* cookie says it is not partitioned; of two that differ in that only, the  *)
(* later one in the file replaces the other, or deletes it if its time is   *)
(* over.                                                                    *)
Loaded(cs) ==
  LET restored == {[c EXCEPT !.part = NoPart] : c \in {d \in cs : d.domain \notin Suffixes}}
      set == Unaged(restored)
  IN {l \in SUBSET set :
        /\ \A c, d \in l : Key(c) = Key(d) => c = d
        /\ \A c \in set : (\E d \in l : Key(d) = Key(c)) \/ \E d \in restored \ set : Key(d) = Key(c)}

(* MemoryJar.Cookies *)
Visible(j, host, path, https, part) ==
  {c \in Unaged(inner[j]) :
     /\ c.part \in {NoPart, part}
     /\ DomainMatch(host, c.domain)
     /\ PathMatch(path, c.path)
     /\ c.secure => https}

-----------------------------------------------------------------------------
Let(f, x, v) == [f EXCEPT ![x] = v]

(* GetProxyAddress of the call's context. *)
ProxyOf(s) == given[s].proxy

(* GetJarForProxy: the lookup, the creation and the Put are three steps. *)
FindJar(s) ==
  /\ kpc[s] = "find"
  /\ mine' = Let(mine, s, jars[ProxyOf(s)])
  /\ kpc' = Let(kpc, s, IF jars[ProxyOf(s)] = 0 THEN "create" ELSE "inner")
  /\ UNCHANGED <<given, jars, owner, inner, kept, dirty, memory, disk, janitor, aged, failed, outdated, crashes>>

CreateJar(s) ==
  LET p == ProxyOf(s) IN
  /\ kpc[s] = "create"
  /\ Len(owner) < MaxJars
  /\ owner' = Append(owner, p)
  /\ \E l \in Loaded(memory[p]) : inner' = Append(inner, l)
  /\ kept' = Append(kept, memory[p])
  /\ dirty' = Append(dirty, FALSE)
  /\ mine' = Let(mine, s, Len(owner) + 1)
  /\ kpc' = Let(kpc, s, "put")
  /\ UNCHANGED <<given, jars, memory, disk, janitor, aged, failed, outdated, crashes>>

PutJar(s) ==
  /\ kpc[s] = "put"
  /\ jars' = Let(jars, ProxyOf(s), mine[s])
  /\ kpc' = Let(kpc, s, "inner")
  /\ outdated' = IF kept[mine[s]] # memory[ProxyOf(s)] \/ janitor[ProxyOf(s)].pc # "idle"
                   THEN outdated \cup {mine[s]} ELSE outdated
  /\ UNCHANGED <<given, mine, owner, inner, kept, dirty, memory, disk, janitor, aged, failed, crashes>>

SetInner(s) ==
  /\ kpc[s] = "inner"
  /\ inner' = Let(inner, mine[s], Stored(inner[mine[s]], given[s], CookieOf(s)))
  /\ kpc' = Let(kpc, s, "kept")
  /\ UNCHANGED <<given, mine, jars, owner, kept, dirty, memory, disk, janitor, aged, failed, outdated, crashes>>

Changed(before, after) == before # after

SetKept(s) ==
  LET j == mine[s]
      after == Recorded(kept[j], given[s], CookieOf(s))
  IN
  /\ kpc[s] = "kept"
  /\ kept' = Let(kept, j, after)
  /\ dirty' = IF Changed(kept[j], after) THEN Let(dirty, j, TRUE) ELSE dirty
  /\ kpc' = Let(kpc, s, "done")
  /\ UNCHANGED <<given, mine, jars, owner, inner, memory, disk, janitor, aged, failed, outdated, crashes>>

(* The LRU gives up a jar, its unsaved cookies included. *)
Evict(p) ==
  /\ jars[p] # 0
  /\ janitor[p].pc = "idle"
  /\ jars' = Let(jars, p, 0)
  /\ UNCHANGED <<given, kpc, mine, owner, inner, kept, dirty, memory, disk, janitor, aged, failed, outdated, crashes>>

-----------------------------------------------------------------------------
(* purgeExpired, then SaveIfDirty: CompareAndSwap, the snapshot, Save. *)
Purge(p) ==
  LET j == jars[p] IN
  /\ janitor[p].pc = "idle"
  /\ j # 0
  /\ kept' = Let(kept, j, Unaged(kept[j]))
  /\ LET d == dirty[j] \/ Changed(kept[j], Unaged(kept[j])) IN
     /\ d
     /\ dirty' = Let(dirty, j, FALSE)
  /\ janitor' = Let(janitor, p, [pc |-> "snapshot", jar |-> j, flush |-> {}])
  /\ UNCHANGED <<given, kpc, mine, jars, owner, inner, memory, disk, aged, failed, outdated, crashes>>

Snapshot(p) ==
  /\ janitor[p].pc = "snapshot"
  /\ janitor' = Let(janitor, p, [janitor[p] EXCEPT !.pc = "save", !.flush = kept[janitor[p].jar]])
  /\ UNCHANGED <<given, kpc, mine, jars, owner, inner, kept, dirty, memory, disk, aged, failed, outdated, crashes>>

(* JSONFileStorage.Save: the data under its lock, then the file through a   *)
(* temporary one and a rename, or not at all.                               *)
Save(p, succeeds) ==
  /\ janitor[p].pc = "save"
  /\ memory' = Let(memory, p, janitor[p].flush)
  /\ disk' = IF succeeds THEN memory' ELSE disk
  /\ failed' = (failed \/ ~succeeds)
  /\ janitor' = Let(janitor, p, Idle)
  /\ UNCHANGED <<given, kpc, mine, jars, owner, inner, kept, dirty, aged, outdated, crashes>>

(* The expiry of a cookie passes. *)
Age(s) ==
  /\ kpc[s] = "done" /\ ~given[s].expired
  /\ s \notin aged
  /\ aged' = aged \cup {s}
  /\ UNCHANGED <<given, kpc, mine, jars, owner, inner, kept, dirty, memory, disk, janitor, failed, outdated, crashes>>

(* NewJSONFileStorage reads what the last process left. *)
Restart ==
  /\ crashes < MaxCrashes
  /\ crashes' = crashes + 1
  /\ kpc' = [s \in Setters |-> IF kpc[s] = "find" THEN "find" ELSE "done"]
  /\ mine' = [s \in Setters |-> 0]
  /\ jars' = [p \in Proxies |-> 0]
  /\ memory' = disk
  /\ janitor' = [p \in Proxies |-> Idle]
  /\ UNCHANGED <<given, owner, inner, kept, dirty, disk, aged, failed, outdated>>

CookieNext ==
  \/ \E s \in Setters :
       FindJar(s) \/ CreateJar(s) \/ PutJar(s) \/ SetInner(s) \/ SetKept(s) \/ Age(s)
  \/ \E p \in Proxies :
       Evict(p) \/ Purge(p) \/ Snapshot(p) \/ \E b \in BOOLEAN : Save(p, b)
  \/ Restart

CookieSpec == CookieInit /\ [][CookieNext]_cookieVars

-----------------------------------------------------------------------------
(* "completely independent sessions": whatever a jar, the storage or the    *)
(* file holds for a proxy was set through that proxy, over concurrent first *)
(* uses, evictions and restarts; and a request sees one cookie of each      *)
(* domain, path and partition, none for a public suffix that its own host   *)
(* did not set, and of those set through this jar none of a domain the      *)
(* setting host is not in.  (A cookie restored from the storage passed the  *)
(* check of its domain against itself.)                                     *)
SessionsIndependent ==
  \A p \in Proxies :
    /\ \A c \in memory[p] \cup disk[p] : given[c.value].proxy = p
    /\ jars[p] # 0 => \A c \in inner[jars[p]] \cup kept[jars[p]] : given[c.value].proxy = p
    /\ jars[p] # 0 => \A s \in Setters :
         LET seen == Visible(jars[p], given[s].host, given[s].path, TRUE, given[s].part) IN
         /\ \A c \in seen : c.domain \in Suffixes => c.domain = given[c.value].host
         /\ \A c \in seen : mine[c.value] = jars[p] => DomainMatch(given[c.value].host, c.domain)
         /\ \A c, d \in seen : Key(c) = Key(d) => c = d

(* A jar in use that is not dirty is saved: with its janitor at rest, the   *)
(* file holds exactly its cookies, unless a write has failed or the jar     *)
(* lost the race of GetJarForProxy and replaced one that had been saved.    *)
CleanMeansSaved ==
  \A p \in Proxies :
    jars[p] \notin outdated \cup {0} /\ janitor[p].pc = "idle" /\ ~failed /\ ~dirty[jars[p]]
      => disk[p] = kept[jars[p]]

-----------------------------------------------------------------------------
(* "Initialize inner jar without overwriting partition keys" (cookie/       *)
(* jar.go:191): no request of another partition sees a partitioned cookie,  *)
(* after a restart either.                                                  *)
PartitionsKept ==
  \A j \in DOMAIN inner : \A c \in inner[j] : c.part = PartitionOf(given[c.value])
=============================================================================
