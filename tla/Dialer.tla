-------------------------------- MODULE Dialer -------------------------------
(***************************************************************************)
(* UniversalDialer (internal/transport/dialer.go) over netdial.DialL4: a   *)
(* direct dial that races the addresses of a host (Happy Eyeballs) and     *)
(* then tries them in turn, a race over local interfaces (multinic.go), a  *)
(* CONNECT tunnel, and the filters on top.  Every attempt of a race is a   *)
(* goroutine of its own; the caller's context may end at any point.        *)
(*                                                                         *)
(* A socket is named by the address it goes to; 0 is the proxy.            *)
(***************************************************************************)
EXTENDS Naturals, Sequences, FiniteSets

CONSTANTS
  DialJobs,  \* dials: addrs (private or not), guard, proxy, literal, nic, filters
  MaxAddrs   \* the addresses of a dial, at most

ASSUME DialerAssumption ==
  /\ MaxAddrs \in Nat
  /\ \A j \in DialJobs : j.addrs \in Seq({"public", "private"}) /\ Len(j.addrs) <= MaxAddrs

VARIABLES
  job,       \* the dial
  at,        \* where it is
  next,      \* index of the loop over addresses
  attempt,   \* the goroutine of each address
  results,   \* the results channel
  expects,   \* iterations the last loop of the race has left
  completed, \* completed of raceCandidates
  cancelled, \* raceCtx is cancelled
  over,      \* the caller's context is done
  drain,     \* the goroutine that drains the race: "none", "running", "ended"
  exit,      \* where the caller left the race: "", "stagger", "last", "context", "failed"
             \* (a ghost)
  open,      \* open sockets
  touched,   \* every socket ever opened (a ghost)
  left       \* "conn", "error" or "", how the dial returned, and by which socket

dialerVars == <<job, at, next, attempt, results, expects, completed, cancelled, over, drain, exit,
                open, touched, left>>
raceVars == <<attempt, results, expects, completed, cancelled, drain, exit>>

Nowhere == [as |-> "", sock |-> 0]
Addrs == DOMAIN job.addrs
Active == {"dialing", "connected", "won"}

DialerInit ==
  /\ job \in DialJobs
  /\ at = "delay" /\ next = 1
  /\ attempt = [a \in Addrs |-> "none"] /\ results = <<>> /\ expects = Len(job.addrs)
  /\ completed = FALSE /\ cancelled = FALSE /\ over = FALSE /\ drain = "none"
  /\ exit = ""
  /\ open = {} /\ touched = {} /\ left = Nowhere

-----------------------------------------------------------------------------
(* Faulty variants of single steps, which the properties must tell apart    *)
(* from the code.                                                           *)
LeaveLosers(socks) == open

-----------------------------------------------------------------------------
(* The SSRF guard, which direct dials ask before every address. *)
Blocked(a) == job.guard /\ job.addrs[a] = "private"

Opened(socks) == open' = open \cup socks /\ touched' = touched \cup socks

Moves(to) == at' = to /\ UNCHANGED <<job, next, raceVars, over, open, touched, left>>

Fail == at' = "done" /\ left' = [as |-> "error", sock |-> 0]

(* applyDelay, the rewrite rules and the choice of DialL4. *)
Delay ==
  /\ at = "delay"
  /\ IF over
       THEN Fail /\ UNCHANGED <<job, next, raceVars, over, open, touched>>
       ELSE Moves(IF job.proxy THEN "proxy" ELSE IF job.nic THEN "race"
                    ELSE IF job.literal \/ Len(job.addrs) < 2 THEN "sequential" ELSE "race")

(* LookupIPAddr fails. *)
Unresolved ==
  /\ at = "delay" /\ ~job.literal
  /\ Fail
  /\ UNCHANGED <<job, next, raceVars, over, open, touched>>

-----------------------------------------------------------------------------
(* dialHTTPProxy and handshakeHTTPProxy: neither the context nor a deadline *)
(* covers the CONNECT exchange, and every failure of it closes the socket.  *)
DialProxy(connects) ==
  /\ at = "proxy"
  /\ over => ~connects
  /\ IF connects THEN at' = "connect" /\ Opened({0}) /\ UNCHANGED left
                 ELSE Fail /\ UNCHANGED <<open, touched>>
  /\ UNCHANGED <<job, next, raceVars, over>>

Connect(accepted) ==
  /\ at = "connect"
  /\ IF accepted THEN at' = "filters" /\ left' = [as |-> "", sock |-> 0] /\ UNCHANGED open
                 ELSE Fail /\ open' = open \ {0}
  /\ UNCHANGED <<job, next, raceVars, over, touched>>

-----------------------------------------------------------------------------
(* The race.  Before every address but the first the caller waits for the   *)
(* stagger delay, for the context, or for a result; a result it takes here  *)
(* is not one of those its last loop waits for.                             *)
Start(a) == attempt' = [attempt EXCEPT ![a] = "dialing"]

SkipBlocked ==
  /\ at = "race" /\ next \in Addrs /\ ~job.nic /\ Blocked(next)
  /\ next' = next + 1
  /\ UNCHANGED <<job, at, raceVars, over, open, touched, left>>

MayStart == at = "race" /\ next \in Addrs /\ (job.nic \/ ~Blocked(next))

Proceed ==
  IF job.nic /\ completed
    THEN next' = Len(job.addrs) + 1 /\ UNCHANGED attempt
    ELSE next' = next + 1 /\ Start(next)

Launch ==
  /\ MayStart
  /\ Proceed
  /\ UNCHANGED <<job, at, results, expects, completed, cancelled, over, drain, exit, open, touched, left>>

StaggerResult ==
  /\ MayStart /\ next > 1 /\ results # <<>>
  /\ results' = Tail(results)
  /\ IF Head(results).ok
       THEN /\ at' = "filters" /\ left' = [as |-> "", sock |-> Head(results).sock]
            /\ cancelled' = TRUE /\ completed' = TRUE /\ exit' = "stagger"
            /\ UNCHANGED <<next, attempt>>
       ELSE Proceed /\ UNCHANGED <<at, left, cancelled, completed, exit>>
  /\ UNCHANGED <<job, expects, over, drain, open, touched>>

(* The race is lost: a direct dial goes on to try the addresses in turn. *)
AfterRace == IF job.nic THEN "done" ELSE "sequential"

GiveUp(why) ==
  /\ at' = AfterRace
  /\ exit' = why
  /\ left' = IF job.nic THEN [as |-> "error", sock |-> 0] ELSE left
  /\ next' = 1
  /\ cancelled' = TRUE
  /\ UNCHANGED <<job, attempt, results, completed, over, drain, open, touched>>

StaggerCancelled ==
  /\ MayStart /\ next > 1 /\ over
  /\ GiveUp("context") /\ UNCHANGED expects

(* The last loop takes one result for every address, started or not. *)
TakeResult ==
  /\ at = "race" /\ next \notin Addrs
  /\ results # <<>> /\ expects > 0
  /\ results' = Tail(results) /\ expects' = expects - 1
  /\ IF Head(results).ok
       THEN /\ at' = "filters" /\ left' = [as |-> "", sock |-> Head(results).sock]
            /\ cancelled' = TRUE /\ exit' = "last"
            /\ drain' = IF job.nic THEN drain ELSE "running"
       ELSE UNCHANGED <<at, left, cancelled, drain, exit>>
  /\ UNCHANGED <<job, next, attempt, completed, over, open, touched>>

AllFailed ==
  /\ at = "race" /\ next \notin Addrs /\ expects = 0
  /\ GiveUp("failed") /\ UNCHANGED expects

ContextSeen == over

RaceCancelled ==
  /\ at = "race" /\ next \notin Addrs /\ expects > 0 /\ ContextSeen
  /\ GiveUp("context") /\ UNCHANGED expects

-----------------------------------------------------------------------------
(* An attempt: the dial, then the check of raceCtx or the CompareAndSwap of *)
(* completed, then the send.                                                *)
AttemptDials(a, ok) ==
  /\ attempt[a] = "dialing"
  /\ attempt' = [attempt EXCEPT ![a] = IF ok THEN "connected" ELSE "ended"]
  /\ IF ok THEN Opened({a}) /\ UNCHANGED results
           ELSE /\ results' = Append(results, [ok |-> FALSE, sock |-> 0])
                /\ UNCHANGED <<open, touched>>
  /\ UNCHANGED <<job, at, next, expects, completed, cancelled, over, drain, exit, left>>

AttemptJudges(a) ==
  LET wins == IF job.nic THEN ~completed ELSE ~cancelled /\ ~over IN
  /\ attempt[a] = "connected"
  /\ attempt' = [attempt EXCEPT ![a] = IF wins THEN "won" ELSE "ended"]
  /\ completed' = (completed \/ (job.nic /\ wins))
  /\ open' = IF wins THEN open ELSE open \ {a}
  /\ UNCHANGED <<job, at, next, results, expects, cancelled, over, drain, exit, touched, left>>

AttemptSends(a) ==
  /\ attempt[a] = "won"
  /\ attempt' = [attempt EXCEPT ![a] = "ended"]
  /\ results' = Append(results, [ok |-> TRUE, sock |-> a])
  /\ UNCHANGED <<job, at, next, expects, completed, cancelled, over, drain, exit, open, touched, left>>

(* wg.Wait, then whatever is in the channel is closed. *)
Rest(socks) == open \ socks

Drain ==
  /\ drain = "running"
  /\ \A a \in Addrs : attempt[a] \notin Active
  /\ drain' = "ended" /\ results' = <<>>
  /\ open' = Rest({results[i].sock : i \in {k \in DOMAIN results : results[k].ok}})
  /\ UNCHANGED <<job, at, next, attempt, expects, completed, cancelled, over, exit, touched, left>>

-----------------------------------------------------------------------------
(* One address after the other, each with its own timeout. *)
TryAddress(ok) ==
  /\ at = "sequential" /\ next \in Addrs
  /\ ok => ~Blocked(next) /\ ~over
  /\ next' = next + 1
  /\ IF ok THEN at' = "filters" /\ left' = [as |-> "", sock |-> next] /\ Opened({next})
           ELSE UNCHANGED <<at, left, open, touched>>
  /\ UNCHANGED <<job, raceVars, over>>

NoAddressLeft ==
  /\ at = "sequential" /\ next \notin Addrs
  /\ Fail
  /\ UNCHANGED <<job, next, raceVars, over, open, touched>>

(* ExecutePipeline: the TLS handshake and the caller's filters; one that    *)
(* fails, or the end of the context, closes the socket.                     *)
Filters(pass) ==
  /\ at = "filters"
  /\ over /\ job.filters => ~pass
  /\ ~job.filters => pass
  /\ IF pass THEN at' = "done" /\ left' = [left EXCEPT !.as = "conn"] /\ UNCHANGED open
             ELSE Fail /\ open' = open \ {left.sock}
  /\ UNCHANGED <<job, next, raceVars, over, touched>>

ContextOver ==
  /\ at # "done" /\ ~over
  /\ over' = TRUE
  /\ UNCHANGED <<job, at, next, raceVars, open, touched, left>>

-----------------------------------------------------------------------------
CallerStep ==
  \/ Delay \/ Unresolved \/ SkipBlocked \/ Launch \/ StaggerResult \/ StaggerCancelled
  \/ TakeResult \/ AllFailed \/ RaceCancelled \/ NoAddressLeft
  \/ \E ok \in BOOLEAN : DialProxy(ok) \/ TryAddress(ok) \/ Filters(ok)

AttemptStep(a) == AttemptJudges(a) \/ AttemptSends(a) \/ \E ok \in BOOLEAN : AttemptDials(a, ok)

DialerNext ==
  \/ CallerStep \/ Drain \/ ContextOver
  \/ \E ok \in BOOLEAN : Connect(ok)
  \/ \E a \in Addrs : AttemptStep(a)

(* The caller and the attempts run on: every dial of an address ends by its *)
(* own timeout.  Nothing is assumed of a proxy, nor that the context ends.  *)
DialerFairness ==
  /\ WF_dialerVars(CallerStep) /\ WF_dialerVars(Drain)
  /\ \A a \in 1..MaxAddrs : WF_dialerVars(a \in Addrs /\ AttemptStep(a))

DialerSpec == DialerInit /\ [][DialerNext]_dialerVars /\ DialerFairness

-----------------------------------------------------------------------------
(* The guard holds on every path: whichever of the race, the fallback that  *)
(* tries the addresses again, or a literal address makes the connection, no *)
(* socket is ever opened to a private address.                              *)
GuardedDial == job.guard /\ ~job.nic => \A a \in touched \cap Addrs : job.addrs[a] # "private"

(* The race is over: the caller has a socket or an error, every attempt has *)
(* ended, and so has the drain if there is one.                             *)
RaceOver ==
  /\ at \in {"filters", "done"} /\ drain # "running"
  /\ \A a \in Addrs : attempt[a] \notin Active

Losers == open \ {left.sock}

(* Whichever way a dial ends and however late an attempt connects, what it  *)
(* leaves open is the winner's socket, unless the caller left the race      *)
(* while an attempt had already reported to a channel nobody reads any      *)
(* more: because its context ended (netdial.go:355 and 422, multinic.go:184 *)
(* and 205), or, in a direct dial, with a result it took while waiting to   *)
(* start the next attempt (netdial.go:359).  A race over interfaces, where  *)
(* one attempt alone may report, loses one socket at most.                  *)
LosersClosed ==
  RaceOver =>
    /\ Losers # {} => exit = "context" \/ (exit = "stagger" /\ ~job.nic)
    /\ job.nic => \A s, t \in Losers : s = t

(* What Happy Eyeballs asks of every race (netdial.go:323 names RFC 8305).  *)
(* No run checks it: the two ways out named above drain nothing.            *)
EveryLoserClosed == RaceOver => Losers = {}

(* The caller's context is over and the dial goes on, other than waiting    *)
(* for a proxy to answer CONNECT.                                           *)
Overdue == over /\ at \notin {"done", "connect"}

-----------------------------------------------------------------------------
(* "Returns an active TCP socket or an aggregated connection error if all   *)
(* resolved IPs fail" (netutil/netdial/netdial.go:181).                     *)
DirectDialReturns == ~job.proxy /\ ~job.nic ~> at = "done"
=============================================================================
