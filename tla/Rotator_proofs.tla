---------------------------- MODULE Rotator_proofs ----------------------------
(***************************************************************************)
(* Proofs about the proxy rotator: that its calls, its prober and its      *)
(* administration use the health trackers as any callers may, and that a   *)
(* call which nothing overlaps finds the proxy that relays, for every pool *)
(* and every width of the cursor.                                          *)
(***************************************************************************)
EXTENDS Rotator, TLAPS

CallLabels == {"idle", "session", "extend", "loop", "load", "cool", "domain", "exchange",
               "failed", "relayed", "save", "done"}

(* Points at which a call has a proxy in hand. *)
Trying == {"load", "cool", "domain", "exchange", "failed", "relayed", "save"}

RotatorType ==
  /\ clients \in Seq(Endpoints) \ {<<>>}
  /\ current \in Nat
  /\ sessions \in [Sessions -> Nat]
  /\ key \in [Requests -> Sessions \cup {NoSession}]
  /\ snapshot \in [Threads -> Seq(Endpoints)]
  /\ sticky \in [Requests -> Nat] /\ cand \in [Requests -> Nat] /\ rounds \in [Requests -> Nat]
  /\ pos \in [{Prober, Admin} -> Nat \ {0}]
  /\ DOMAIN pc = Threads /\ DOMAIN result = Requests

TrackersFit ==
  /\ now \in Nat
  /\ step \in [Threads -> Steps]
  /\ target \in [Threads -> Endpoints]
  /\ unhealthy \in [Endpoints -> BOOLEAN]

(* How far a call is: in a method of a tracker only after an exchange, with *)
(* a proxy of the pool it captured in hand while it tries one, which is the *)
(* sticky one before the first draw.                                        *)
CallFits(r) ==
  /\ pc[r] \in CallLabels
  /\ pc[r] \notin {"failed", "relayed"} => step[r] = "none"
  /\ pc[r] # "idle" => snapshot[r] # <<>>
  /\ pc[r] \in Trying => cand[r] \in 1 .. Count(r)
  /\ pc[r] \in Trying /\ rounds[r] = 0 => cand[r] = sticky[r]
  /\ pc[r] \in {"idle", "session"} => sticky[r] = 0
  /\ pc[r] \in {"idle", "session", "extend"} => rounds[r] = 0
  /\ pc[r] = "extend" => key[r] \in Sessions
  /\ pc[r] # "done" => result[r] = "none"

CallsFit == RotatorType /\ TrackersFit /\ \A r \in Requests : CallFits(r)

(* What a step of thread t leaves alone. *)
Apart(t) ==
  \A s \in Requests : s # t =>
    /\ pc'[s] = pc[s] /\ step'[s] = step[s] /\ snapshot'[s] = snapshot[s] /\ key'[s] = key[s]
    /\ sticky'[s] = sticky[s] /\ cand'[s] = cand[s] /\ rounds'[s] = rounds[s]
    /\ result'[s] = result[s] /\ (s \in forbidden' <=> s \in forbidden)

(* What each goroutine of the rotator does, to the trackers and to itself.  *)
Keeps(t) ==
  /\ [TrackerNext]_trackerVars
  /\ RotatorType' /\ TrackersFit' /\ Apart(t)
  /\ t \in Requests => CallFits(t)'

(* A thread in no method is given a tracker. *)
LEMMA IdleIs == Idle \in Endpoints
  BY EndpointsAssumption DEF Idle

(* The initial rotator satisfies the invariant. *)
LEMMA RotatorStarts == Init => CallsFit
  <1> SUFFICES ASSUME Init PROVE CallsFit
    OBVIOUS
  <1>1. RotatorType
    BY ClientsAssumption, RotatorThreads DEF Init, RotatorType, NoSessions
  <1>2. TrackersFit
    BY IdleIs DEF Init, TrackerInit, TrackersFit, Steps
  <1>3. \A r \in Requests : CallFits(r)
    BY RotatorThreads DEF Init, CallFits, CallLabels, Trying, TrackerInit
  <1> QED
    BY <1>1, <1>2, <1>3 DEF CallsFit

LEMMA ApartFits ==
  ASSUME NEW t \in Threads, Apart(t), NEW s \in Requests, s # t, CallFits(s)
  PROVE  CallFits(s)'
  <1>1. /\ pc'[s] = pc[s] /\ step'[s] = step[s] /\ snapshot'[s] = snapshot[s] /\ key'[s] = key[s]
        /\ sticky'[s] = sticky[s] /\ cand'[s] = cand[s] /\ rounds'[s] = rounds[s]
        /\ result'[s] = result[s]
    BY DEF Apart
  <1> QED
    BY <1>1 DEF CallFits, Count

(* The proxy in hand is an endpoint. *)
LEMMA CandidateIs ==
  ASSUME CallsFit, NEW r \in Requests, pc[r] \in Trying
  PROVE  Candidate(r) \in Endpoints /\ cand[r] \in 1 .. Count(r) /\ Count(r) \in Nat
  <1>1. snapshot[r] \in Seq(Endpoints) /\ cand[r] \in 1 .. Count(r)
    BY RotatorThreads DEF CallsFit, CallFits, RotatorType
  <1> QED
    BY <1>1 DEF Candidate, Count

(* An index drawn from the cursor is one of the pool. *)
LEMMA Drawn ==
  ASSUME NEW n \in Nat \ {0}, NEW c \in Nat
  PROVE  IndexOf(n, c) \in 1 .. n
  <1>1. c + CounterSize - 1 \in Nat
    BY CounterAssumption
  <1>2. PICK d \in Nat : d = (c + CounterSize - 1) % CounterSize
    BY <1>1, CounterAssumption
  <1>3. d % n \in 0 .. n - 1 /\ c % n \in 0 .. n - 1
    OBVIOUS
  <1>4. (d % n) + 1 \in 1 .. n /\ (c % n) + 1 \in 1 .. n
    BY <1>3
  <1> QED
    BY <1>2, <1>4 DEF IndexOf

(* A goroutine that calls a method is in none before, and no other moves.   *)
LEMMA EnterRefines ==
  ASSUME TrackersFit, NEW t \in Threads, NEW m \in {MarkFailed, MarkSuccess, Reset},
         NEW e \in Endpoints, step[t] = "none", Enter(t, m, e), UNCHANGED <<tracker, now>>
  PROVE  /\ TrackerNext /\ TrackersFit'
         /\ \A s \in Requests : s # t => step'[s] = step[s]
  <1>1. TrackerNext
    BY DEF TrackerNext
  <1>2. m \in Steps
    BY DEF MarkFailed, MarkSuccess, Reset, Steps
  <1>3. TrackersFit'
    BY <1>2 DEF TrackersFit, Enter, tracker
  <1>4. \A s \in Requests : s # t => step'[s] = step[s]
    BY RotatorThreads DEF TrackersFit, Enter
  <1> QED
    BY <1>1, <1>3, <1>4

(* Only the goroutine in a method moves with it. *)
LEMMA OwnStep ==
  ASSUME TrackersFit, NEW t \in Threads, TrackerStep(t)
  PROVE  /\ step[t] # "none" /\ TrackerNext /\ TrackersFit'
         /\ \A s \in Requests : s # t => step'[s] = step[s]
  <1>1. PICK l \in Steps : step[t] # "none" /\ Goes(t, l)
    BY DEF TrackerStep, FailAdd, FailClock, FailStore, FailCAS, SuccessStore, SuccessCAS,
           ResetCount, ResetTime, ResetCAS, Steps
  <1>2. TrackerNext
    BY DEF TrackerNext
  <1>3. now' = now /\ unhealthy' \in [Endpoints -> BOOLEAN]
    BY DEF TrackersFit, TrackerStep, FailAdd, FailClock, FailStore, FailCAS, SuccessStore, SuccessCAS,
           ResetCount, ResetTime, ResetCAS, Recovered, tracker
  <1>4. step' \in [Threads -> Steps] /\ target' \in [Threads -> Endpoints]
    BY <1>1, IdleIs DEF TrackersFit, Goes
  <1>5. \A s \in Requests : s # t => step'[s] = step[s]
    BY <1>1, RotatorThreads DEF TrackersFit, Goes
  <1> QED
    BY <1>1, <1>2, <1>3, <1>4, <1>5 DEF TrackersFit

(* Nothing on the trackers moves. *)
LEMMA NoStep ==
  ASSUME TrackersFit, UNCHANGED trackerVars
  PROVE  TrackersFit' /\ \A s \in Requests : step'[s] = step[s]
  BY DEF TrackersFit, trackerVars

-----------------------------------------------------------------------------
(* A step of a call keeps the types and its own place, and calls the        *)
(* trackers only from outside their methods.                                *)
LEMMA CallSteps ==
  ASSUME CallsFit, NEW r \in Requests, RequestStep(r)
  PROVE  Keeps(r)
  <1>0. /\ RotatorType /\ TrackersFit /\ CallFits(r) /\ r \in Threads
        /\ \A s \in Requests : s \in Threads
    BY RotatorThreads DEF CallsFit
  <1> USE DEF Goto, pool, locals, workers
  <1>1. CASE Capture(r)
    BY <1>0, <1>1, NoStep
       DEF Capture, Keeps, Apart, RotatorType, CallFits, CallLabels, Trying, Count, trackerVars
  <1>2. CASE LookUpSession(r)
    <2>1. /\ UNCHANGED <<trackerVars, clients, current, sessions, key, snapshot, cand, rounds, pos, result, forbidden>>
          /\ pc[r] = "session"
      BY <1>2 DEF LookUpSession
    <2>2. \/ pc' = [pc EXCEPT ![r] = "loop"] /\ sticky' = sticky
          \/ /\ pc' = [pc EXCEPT ![r] = "extend"] /\ key[r] \in Sessions
             /\ sticky' = [sticky EXCEPT ![r] = sessions[key[r]]] /\ sessions[key[r]] \in Nat
      BY <1>0, <1>2 DEF LookUpSession, RotatorType
    <2> QED
      BY <1>0, <2>1, <2>2, NoStep
         DEF Keeps, Apart, RotatorType, CallFits, CallLabels, Trying, Count, trackerVars
  <1>3. CASE ExtendSession(r)
    <2>1. /\ UNCHANGED <<trackerVars, clients, current, key, snapshot, sticky, rounds, pos, result, forbidden>>
          /\ pc[r] = "extend" /\ sessions' = [sessions EXCEPT ![key[r]] = sticky[r]]
      BY <1>3 DEF ExtendSession
    <2>2. \/ /\ pc' = [pc EXCEPT ![r] = "load"] /\ Fits(r)
             /\ cand' = [cand EXCEPT ![r] = sticky[r]]
          \/ pc' = [pc EXCEPT ![r] = "loop"] /\ cand' = cand
      BY <1>3 DEF ExtendSession
    <2>3. sessions' \in [Sessions -> Nat] /\ cand' \in [Requests -> Nat]
      BY <1>0, <2>1, <2>2 DEF RotatorType
    <2> QED
      BY <1>0, <2>1, <2>2, <2>3, NoStep
         DEF Keeps, Apart, RotatorType, CallFits, CallLabels, Trying, Count, Fits, trackerVars
  <1>4. CASE Draw(r)
    <2>1. PICK c \in Nat, i \in Nat :
            /\ current' = c /\ rounds' = [rounds EXCEPT ![r] = @ + 1] /\ pc[r] = "loop"
            /\ i \in 1 .. Count(r)
            /\ \/ UNCHANGED <<cand, pc>>
               \/ cand' = [cand EXCEPT ![r] = i] /\ pc' = [pc EXCEPT ![r] = "load"]
            /\ UNCHANGED <<trackerVars, clients, sessions, key, snapshot, sticky, pos, result, forbidden>>
      <3> DEFINE c == (current + 1) % CounterSize
      <3>1. c \in Nat
        BY <1>0, CounterAssumption DEF RotatorType
      <3>2. Count(r) \in Nat \ {0}
        BY <1>0, <1>4 DEF Draw, CallFits, Count, RotatorType
      <3>3. IndexOf(Count(r), c) \in 1 .. Count(r)
        BY <3>1, <3>2, Drawn
      <3> QED
        BY <1>4, <3>1, <3>2, <3>3 DEF Draw
    <2>2. rounds' \in [Requests -> Nat] /\ rounds'[r] # 0 /\ cand' \in [Requests -> Nat]
      <3>1. rounds \in [Requests -> Nat] /\ rounds[r] + 1 \in Nat \ {0}
        BY <1>0 DEF RotatorType
      <3>2. rounds' \in [Requests -> Nat] /\ rounds'[r] # 0
        BY <2>1, <3>1
      <3>3. cand' \in [Requests -> Nat]
        BY <1>0, <2>1 DEF RotatorType
      <3> QED
        BY <3>2, <3>3
    <2>3. RotatorType' /\ TrackersFit' /\ Apart(r)
      BY <1>0, <2>1, <2>2, NoStep DEF Apart, RotatorType, trackerVars
    <2>4. CallFits(r)'
      BY <1>0, <2>1, <2>2 DEF RotatorType, CallFits, CallLabels, Trying, Count, trackerVars
    <2> QED
      BY <2>1, <2>3, <2>4 DEF Keeps
  <1>5. CASE GiveUp(r) \/ SaveSession(r)
    <2>1. PICK res : Returns(r, res)
      BY <1>5 DEF GiveUp, SaveSession
    <2>2. /\ UNCHANGED <<trackerVars, clients, current, key, snapshot, pos>>
          /\ pc[r] \in {"loop", "save"}
      BY <1>5 DEF GiveUp, SaveSession
    <2>3. sessions' \in [Sessions -> Nat]
      BY <1>0, <1>5 DEF GiveUp, SaveSession, RotatorType
    <2>4. RotatorType' /\ TrackersFit' /\ Apart(r)
      BY <1>0, <2>1, <2>2, <2>3, NoStep DEF Apart, RotatorType, Returns, trackerVars
    <2>5. CallFits(r)'
      BY <1>0, <2>1, <2>2
         DEF Returns, RotatorType, CallFits, CallLabels, Trying, Count, trackerVars
    <2> QED
      BY <2>2, <2>4, <2>5 DEF Keeps
  <1>6. CASE LoadUnhealthy(r) \/ LoadRecoveredAt(r) \/ CheckDomain(r) \/ TryNext(r)
    <2>1. PICK l \in {"cool", "domain", "loop", "exchange"} :
            /\ pc' = [pc EXCEPT ![r] = l] /\ pc[r] \in {"load", "cool", "domain", "failed"}
            /\ step[r] = "none"
            /\ UNCHANGED <<trackerVars, clients, current, sessions, key, snapshot, sticky, cand, rounds, pos, result, forbidden>>
      BY <1>0, <1>6 DEF LoadUnhealthy, LoadRecoveredAt, CheckDomain, TryNext, CallFits
    <2> QED
      BY <1>0, <2>1, NoStep
         DEF Keeps, Apart, RotatorType, CallFits, CallLabels, Trying, Count, trackerVars
  <1>7. CASE \E out \in {"response", "forbidden", "cancelled", "error", "fault"} : Exchange(r, out)
    <2>1. PICK m \in {MarkFailed, MarkSuccess, Reset}, l \in {"failed", "relayed"} :
            /\ pc[r] = "exchange" /\ pc' = [pc EXCEPT ![r] = l]
            /\ Enter(r, m, Candidate(r)) /\ UNCHANGED <<tracker, now>>
            /\ UNCHANGED <<clients, current, sessions, key, snapshot, sticky, cand, rounds, pos, result>>
            /\ \A s \in Requests : s # r => (s \in forbidden' <=> s \in forbidden)
      BY <1>7 DEF Exchange
    <2>2. Candidate(r) \in Endpoints /\ step[r] = "none"
      BY <1>0, <2>1, CandidateIs DEF CallFits, Trying
    <2>3. TrackerNext /\ TrackersFit' /\ \A s \in Requests : s # r => step'[s] = step[s]
      BY <1>0, <2>1, <2>2, EnterRefines
    <2> QED
      BY <1>0, <2>1, <2>3 DEF Keeps, Apart, RotatorType, CallFits, CallLabels, Trying, Count
  <1>8. CASE PutDomainInCooldown(r)
    <2>1. /\ pc' = [pc EXCEPT ![r] = "save"] /\ pc[r] = "relayed" /\ step[r] = "none"
          /\ UNCHANGED <<trackerVars, clients, current, sessions, key, snapshot, sticky, cand, rounds, pos, result, forbidden>>
      BY <1>8 DEF PutDomainInCooldown
    <2> QED
      BY <1>0, <2>1, NoStep
         DEF Keeps, Apart, RotatorType, CallFits, CallLabels, Trying, Count, trackerVars
  <1>9. CASE TrackerStep(r) /\ UNCHANGED rotVars
    <2>1. /\ step[r] # "none" /\ TrackerNext /\ TrackersFit'
          /\ \A s \in Requests : s # r => step'[s] = step[s]
      BY <1>0, <1>9, OwnStep
    <2>2. UNCHANGED <<pc, clients, current, sessions, key, snapshot, sticky, cand, rounds, pos, result, forbidden>>
      BY <1>9 DEF rotVars
    <2> QED
      BY <1>0, <2>1, <2>2 DEF Keeps, Apart, RotatorType, CallFits, CallLabels, Trying, Count
  <1> QED
    BY <1>1, <1>2, <1>3, <1>4, <1>5, <1>6, <1>7, <1>8, <1>9 DEF RequestStep

(* So do the prober, the administration, the cooldowns, the sessions and    *)
(* the clock.                                                               *)
Elsewhere ==
  \/ ProbeRound \/ ProberStep
  \/ UpdateClients \/ ResetDomainCooldowns \/ BeginReset \/ BeginClose \/ AdminStep
  \/ \E e \in Endpoints : DomainCooldownExpires(e)
  \/ \E s \in Sessions : SessionExpires(s)
  \/ Tick(MaxTime) /\ UNCHANGED rotVars

LEMMA ElsewhereSteps ==
  ASSUME CallsFit, Elsewhere
  PROVE  Keeps(Admin) /\ UNCHANGED rounds
  <1>0. /\ RotatorType /\ TrackersFit
        /\ Prober \in Threads /\ Admin \in Threads /\ Prober \notin Requests /\ Admin \notin Requests
        /\ Prober \in {Prober, Admin} /\ Admin \in {Prober, Admin}
        /\ \A s \in Requests : s \in Threads
    BY RotatorThreads DEF CallsFit
  <1> USE DEF Goto, pool, locals, workers
  <1>1. UNCHANGED <<key, sticky, cand, rounds, result, forbidden>>
    BY DEF Elsewhere, ProbeRound, ProberStep, ProbeNext, ProberExits, UpdateClients, ResetDomainCooldowns,
           BeginReset, BeginClose, AdminStep, ResetNext, EndClose, DomainCooldownExpires, SessionExpires,
           rotVars
  <1>2. CASE ProbeRound \/ ProberExits \/ BeginReset \/ BeginClose \/ EndClose
    <2>1. UNCHANGED <<trackerVars, clients, current, sessions>>
      BY <1>2 DEF ProbeRound, ProberExits, BeginReset, BeginClose, EndClose
    <2>2. PICK t \in {Prober, Admin} :
            /\ \E l : pc' = [pc EXCEPT ![t] = l]
            /\ snapshot' = snapshot \/ snapshot' = [snapshot EXCEPT ![t] = clients]
            /\ pos' = pos \/ pos' = [pos EXCEPT ![t] = 1]
      BY <1>2 DEF ProbeRound, ProberExits, BeginReset, BeginClose, EndClose
    <2>3. t \in Threads /\ t \notin Requests
      BY <1>0
    <2>4. snapshot' \in [Threads -> Seq(Endpoints)] /\ \A s \in Requests : snapshot'[s] = snapshot[s]
      <3>1. snapshot \in [Threads -> Seq(Endpoints)] /\ clients \in Seq(Endpoints)
        BY <1>0 DEF RotatorType
      <3>2. snapshot' \in [Threads -> Seq(Endpoints)]
        BY <2>2, <3>1
      <3>3. \A s \in Requests : snapshot'[s] = snapshot[s]
        BY <1>0, <2>2, <2>3, <3>1
      <3> QED
        BY <3>2, <3>3
    <2>5. pos' \in [{Prober, Admin} -> Nat \ {0}]
      <3>1. pos \in [{Prober, Admin} -> Nat \ {0}]
        BY <1>0 DEF RotatorType
      <3> QED
        BY <2>2, <3>1
    <2>6. DOMAIN pc' = Threads /\ \A s \in Requests : pc'[s] = pc[s]
      BY <1>0, <2>2, <2>3 DEF RotatorType
    <2> QED
      BY <1>0, <1>1, <2>1, <2>4, <2>5, <2>6, NoStep DEF Keeps, Apart, RotatorType, trackerVars
  <1>3. CASE ResetNext \/ \E good \in BOOLEAN : ProbeNext(good)
    <2>1. PICK t \in {Prober, Admin}, m \in {MarkFailed, MarkSuccess, Reset} :
            /\ step[t] = "none" /\ UNCHANGED <<tracker, now, clients, current, sessions, snapshot>>
            /\ \/ pos[t] <= Len(snapshot[t]) /\ Enter(t, m, snapshot[t][pos[t]])
               \/ UNCHANGED calls
            /\ pc' = pc \/ pc' = [pc EXCEPT ![t] = "idle"]
            /\ pos' = [pos EXCEPT ![t] = @ + 1] \/ pos' = [pos EXCEPT ![t] = 1]
      BY <1>3 DEF ResetNext, ProbeNext
    <2>2. /\ t \in Threads /\ t \notin Requests /\ snapshot[t] \in Seq(Endpoints) /\ pos[t] \in Nat \ {0}
          /\ pos \in [{Prober, Admin} -> Nat \ {0}]
      BY <1>0 DEF RotatorType
    <2>3. pos[t] <= Len(snapshot[t]) => snapshot[t][pos[t]] \in Endpoints
      BY <2>2
    <2>4. [TrackerNext]_trackerVars /\ TrackersFit' /\ \A s \in Requests : step'[s] = step[s]
      <3>1. CASE pos[t] <= Len(snapshot[t]) /\ Enter(t, m, snapshot[t][pos[t]])
        BY <1>0, <2>1, <2>2, <2>3, <3>1, EnterRefines
      <3>2. CASE UNCHANGED calls
        BY <1>0, <2>1, <3>2, NoStep DEF calls, tracker, trackerVars
      <3> QED
        BY <2>1, <3>1, <3>2
    <2>5. pos' \in [{Prober, Admin} -> Nat \ {0}]
      BY <2>1, <2>2
    <2>6. DOMAIN pc' = Threads /\ \A s \in Requests : pc'[s] = pc[s]
      BY <1>0, <2>1, <2>2 DEF RotatorType
    <2> QED
      BY <1>0, <1>1, <2>1, <2>4, <2>5, <2>6 DEF Keeps, Apart, RotatorType
  <1>4. CASE \/ UpdateClients \/ ResetDomainCooldowns
             \/ \E e \in Endpoints : DomainCooldownExpires(e)
             \/ \E s \in Sessions : SessionExpires(s)
    <2>1. UNCHANGED <<trackerVars, pc, snapshot, pos>>
      BY <1>4 DEF UpdateClients, ResetDomainCooldowns, DomainCooldownExpires, SessionExpires
    <2>2. clients' \in Seq(Endpoints) \ {<<>>} /\ current' \in Nat
      BY <1>0, <1>4, ClientsAssumption
         DEF UpdateClients, ResetDomainCooldowns, DomainCooldownExpires, SessionExpires, RotatorType
    <2>3. sessions' \in [Sessions -> Nat]
      BY <1>0, <1>4
         DEF UpdateClients, ResetDomainCooldowns, DomainCooldownExpires, SessionExpires, RotatorType, NoSessions
    <2> QED
      BY <1>0, <1>1, <2>1, <2>2, <2>3, NoStep DEF Keeps, Apart, RotatorType, trackerVars
  <1>5. CASE \/ \E t \in {Prober, Admin} : TrackerStep(t) /\ UNCHANGED rotVars
    BY <1>0, <1>5, OwnStep DEF rotVars, Keeps, Apart, RotatorType
  <1>6. CASE Tick(MaxTime) /\ UNCHANGED rotVars
    <2>1. now < now + 1 /\ now + 1 \in Nat
      BY <1>0 DEF TrackersFit
    <2>2. TrackerNext
      BY <1>6, <2>1 DEF TrackerNext, Tick
    <2>3. TrackersFit' /\ \A s \in Requests : step'[s] = step[s]
      BY <1>0, <1>6, <2>1 DEF TrackersFit, Tick, tracker, calls
    <2> QED
      BY <1>0, <1>6, <2>2, <2>3 DEF rotVars, Keeps, Apart, RotatorType
  <1> QED
    BY <1>1, <1>2, <1>3, <1>4, <1>5, <1>6 DEF Elsewhere, ProberStep, AdminStep

LEMMA RotatorNextInv ==
  ASSUME CallsFit, [Next]_vars
  PROVE  CallsFit' /\ [TrackerNext]_trackerVars
  <1>1. ASSUME NEW t \in Threads, Keeps(t) PROVE CallsFit' /\ [TrackerNext]_trackerVars
    <2>1. \A s \in Requests : s # t => CallFits(s)'
      BY <1>1, ApartFits DEF CallsFit, Keeps
    <2> QED
      BY <1>1, <2>1 DEF CallsFit, Keeps
  <1>2. CASE \E r \in Requests : RequestStep(r)
    BY <1>1, <1>2, CallSteps, RotatorThreads
  <1>3. CASE Elsewhere
    BY <1>1, <1>3, ElsewhereSteps, RotatorThreads
  <1>4. CASE UNCHANGED vars
    <2>1. UNCHANGED trackerVars /\ UNCHANGED rotVars
      BY <1>4 DEF vars
    <2>2. RotatorType' /\ TrackersFit' /\ \A r \in Requests : step'[r] = step[r]
      BY <2>1, NoStep DEF CallsFit, RotatorType, rotVars
    <2>3. \A r \in Requests : CallFits(r)'
      BY <2>1, <2>2 DEF CallsFit, CallFits, Count, rotVars
    <2> QED
      BY <2>1, <2>2, <2>3 DEF CallsFit
  <1> QED
    BY <1>2, <1>3, <1>4 DEF Next, Elsewhere

(* The rotator calls the trackers as any callers may: what is proved of     *)
(* them holds under its calls, its prober and its administration.           *)
THEOREM RotatorCallsTrackers == Spec => TrackerSpec
  <1>1. Init => TrackerInit
    BY DEF Init
  <1> QED
    BY <1>1, RotatorStarts, RotatorNextInv, PTL DEF Spec, TrackerSpec

-----------------------------------------------------------------------------
(* What a call over a pool with a solid proxy comes to.                     *)
GaveUp(r) == result[r] \in {"all failed", "domain cooldown", "ErrNoHealthyProxies"}

(* A solid proxy is in no cooldown, and no failure of it is on its way into *)
(* the tracker.                                                             *)
SolidWell ==
  /\ cooled \cap Solid = {}
  /\ \A e \in Endpoints \cap Solid :
       ~unhealthy[e] /\ \A t \in Threads : In(t, e) => step[t] \notin FailSteps

(* A call goes on past proxies that are not solid, the sticky one first.    *)
PassedOver(r) ==
  /\ pc[r] \in {"cool", "failed"} => Candidate(r) \notin Solid
  /\ pc[r] = "relayed" /\ r \in forbidden => Candidate(r) \notin Solid
  /\ Fits(r) /\ (pc[r] = "loop" \/ rounds[r] > 0) => snapshot[r][sticky[r]] \notin Solid

(* The index drawn last, and how many draws ago index i of n came.          *)
LastIndex(r) == IndexOf(Count(r), current)
Ago(n, last, i) == IF i <= last THEN last - i ELSE last + n - i

(* A call that nothing overlaps has the index drawn last in hand, and       *)
(* passed over those of the draws before.                                   *)
Window(r) ==
  rounds[r] > 0 =>
    /\ pc[r] \in Trying => cand[r] = LastIndex(r)
    /\ \A i \in 1 .. Count(r) :
         /\ Ago(Count(r), LastIndex(r), i) < rounds[r]
         /\ pc[r] = "loop" \/ i # LastIndex(r)
         => snapshot[r][i] \notin Solid

Undisturbed == InFlight \ overlapped

(* Calls in flight together overlap. *)
Alone == \A r, s \in InFlight : r # s => r \in overlapped

ServesInv ==
  /\ SolidWell /\ Alone
  /\ \A r \in Requests : PassedOver(r)
  /\ \A r \in Undisturbed : Window(r)
  /\ ProxyServes

LEMMA ServesStarts == Init => ServesInv
  <1> SUFFICES ASSUME Init PROVE ServesInv
    OBVIOUS
  <1>1. SolidWell
    BY RotatorThreads DEF Init, SolidWell, TrackerInit, In
  <1>2. InFlight = {}
    BY RotatorThreads DEF Init, InFlight
  <1>3. \A r \in Requests : PassedOver(r)
    BY RotatorThreads DEF Init, PassedOver
  <1>4. ProxyServes
    BY DEF Init, ProxyServes
  <1> QED
    BY <1>1, <1>2, <1>3, <1>4 DEF ServesInv, Alone, Undisturbed

(* The solid proxies stay well under a goroutine that starts a method on    *)
(* one only to report a success or to reset it.                             *)
LEMMA EnterWell ==
  ASSUME TrackersFit, SolidWell, NEW t \in Threads, NEW m \in {MarkFailed, MarkSuccess, Reset},
         NEW e0 \in Endpoints, Enter(t, m, e0), e0 \in Solid => m # MarkFailed,
         UNCHANGED <<tracker, now, cooled>>
  PROVE  SolidWell'
  <1>1. /\ step \in [Threads -> Steps] /\ target \in [Threads -> Endpoints]
        /\ unhealthy' = unhealthy
    BY DEF TrackersFit, tracker
  <1>2. /\ step'[t] = m /\ target'[t] = e0
        /\ \A u \in Threads : u # t => step'[u] = step[u] /\ target'[u] = target[u]
    BY <1>1 DEF Enter
  <1>3. m # MarkFailed => m \notin FailSteps
    BY DEF MarkFailed, MarkSuccess, Reset, FailSteps
  <1>4. \A u \in Threads, e \in Endpoints \cap Solid : In(u, e)' => step'[u] \notin FailSteps
    BY <1>1, <1>2, <1>3 DEF SolidWell, In
  <1> QED
    BY <1>1, <1>4 DEF SolidWell

LEMMA StepWell ==
  ASSUME TrackersFit, SolidWell, NEW t \in Threads, TrackerStep(t), UNCHANGED cooled
  PROVE  SolidWell'
  <1>0. target[t] \in Endpoints
    BY DEF TrackersFit
  <1>1. PICK l \in Steps : /\ step[t] # "none" /\ Goes(t, l)
                           /\ step[t] \notin FailSteps => l \notin FailSteps
    BY DEF TrackerStep, FailAdd, FailClock, FailStore, FailCAS, SuccessStore, SuccessCAS,
           ResetCount, ResetTime, ResetCAS, Steps, FailSteps
  <1>2. /\ In(t, target[t]) /\ step'[t] = l
        /\ l # "none" => target'[t] = target[t]
        /\ \A u \in Threads : u # t => step'[u] = step[u] /\ target'[u] = target[u]
    BY <1>0, <1>1, IdleIs DEF Goes, TrackersFit, In
  <1>3. \A u \in Threads, e \in Endpoints \cap Solid : In(u, e)' => step'[u] \notin FailSteps
    BY <1>0, <1>1, <1>2 DEF SolidWell, In
  <1>4. \A e \in Endpoints \cap Solid : ~unhealthy'[e]
    <2> TAKE e \in Endpoints \cap Solid
    <2>1. ~unhealthy[e] /\ (target[t] = e => step[t] \notin FailSteps)
      BY <1>0, <1>1 DEF SolidWell, In
    <2>2. CASE FailCAS(t)
      BY <1>0, <2>1, <2>2 DEF FailCAS, FailSteps, TrackersFit
    <2>3. CASE SuccessCAS(t) \/ ResetCAS(t)
      BY <1>0, <2>1, <2>3 DEF SuccessCAS, ResetCAS, Recovered, TrackersFit
    <2>4. CASE unhealthy' = unhealthy
      BY <2>1, <2>4
    <2> QED
      BY <2>2, <2>3, <2>4
         DEF TrackerStep, FailAdd, FailClock, FailStore, SuccessStore, ResetCount, ResetTime, tracker
  <1> QED
    BY <1>3, <1>4 DEF SolidWell

(* Nothing on the trackers moves, and they stay well. *)
LEMMA StillWell ==
  ASSUME SolidWell, UNCHANGED trackerVars \/ Tick(MaxTime), cooled' \cap Solid = {}
  PROVE  SolidWell'
  <1>1. unhealthy' = unhealthy /\ step' = step /\ target' = target
    BY DEF trackerVars, Tick, tracker, calls
  <1> QED
    BY <1>1 DEF SolidWell, In

(* What a call leaves of its draws while it works on the proxy in hand: it  *)
(* still has it, or it passed over it.                                      *)
LEMMA WindowStays ==
  ASSUME CallsFit, NEW r \in Requests, pc[r] \in Trying,
         pc'[r] \in Trying \/ Candidate(r) \notin Solid,
         UNCHANGED <<snapshot, current, rounds, cand>>, Window(r)
  PROVE  Window(r)'
  <1>1. pc[r] # "loop" /\ Count(r)' = Count(r) /\ LastIndex(r)' = LastIndex(r)
    BY DEF Trying, Count, LastIndex
  <1>2. CASE rounds[r] > 0
    <2>1. cand[r] = LastIndex(r) /\ Candidate(r) = snapshot[r][LastIndex(r)]
      BY <1>2 DEF Window, Candidate
    <2>2. \A i \in 1 .. Count(r) :
            /\ Ago(Count(r), LastIndex(r), i) < rounds[r]
            /\ pc'[r] \notin Trying \/ i # LastIndex(r)
            => snapshot[r][i] \notin Solid
      BY <1>1, <1>2, <2>1 DEF Window
    <2>3. pc'[r] = "loop" => pc'[r] \notin Trying
      BY DEF Trying
    <2> QED
      BY <1>1, <1>2, <2>1, <2>2, <2>3 DEF Window
  <1>3. CASE ~(rounds[r] > 0)
    BY <1>3 DEF Window
  <1> QED
    BY <1>2, <1>3

(* One more draw. *)
LEMMA WindowGrows ==
  ASSUME CallsFit, NEW r \in Requests, PassedOver(r), r \in Undisturbed => Window(r),
         Draw(r), r \in Undisturbed'
  PROVE  Window(r)'
  <1> DEFINE n == Count(r)
  <1> DEFINE next == IndexOf(Count(r), (current + 1) % CounterSize)
  <1>0. /\ pc[r] = "loop" /\ r \in Undisturbed /\ RotatorType /\ CallFits(r)
        /\ rounds[r] \in Nat /\ rounds'[r] = rounds[r] + 1
        /\ snapshot' = snapshot
    BY RotatorThreads DEF Draw, Undisturbed, InFlight, CallsFit, RotatorType, Goto
  <1>1. n \in Nat \ {0} /\ (current + 1) % CounterSize \in Nat /\ current \in Nat
    BY <1>0, RotatorThreads, CounterAssumption DEF CallFits, Count, RotatorType
  <1>2. next \in 1 .. n /\ LastIndex(r) \in 1 .. n
    BY <1>1, Drawn DEF LastIndex
  <1>3. Count(r)' = n /\ LastIndex(r)' = next
    BY <1>0 DEF Draw, Count, LastIndex
  <1>4. rounds[r] = 0 \/ Follows(n, LastIndex(r), next)
    BY <1>0 DEF Draw, Undisturbed, LastIndex
  <1>5. \/ /\ next = sticky[r] /\ pc'[r] = "loop"
        \/ /\ next # sticky[r] /\ pc'[r] = "load" /\ cand'[r] = next
    BY <1>0, RotatorThreads DEF Draw, RotatorType, Goto
  <1>6. next = sticky[r] => snapshot[r][next] \notin Solid
    BY <1>0, <1>2 DEF PassedOver, Fits
  <1>7. rounds[r] > 0 =>
          \A i \in 1 .. n : Ago(n, LastIndex(r), i) < rounds[r] => snapshot[r][i] \notin Solid
    BY <1>0 DEF Window
  <1> HIDE DEF n, next
  <1>8. ASSUME NEW i \in 1 .. n, Ago(n, next, i) < rounds[r] + 1, i # next
        PROVE  snapshot[r][i] \notin Solid
    <2>1. rounds[r] > 0
      BY <1>0, <1>1, <1>2, <1>8 DEF Ago
    <2>2. Follows(n, LastIndex(r), next)
      BY <1>4, <2>1
    <2>3. PICK last \in 1 .. n : last = LastIndex(r)
      BY <1>2
    <2>4. Ago(n, last, i) < rounds[r]
      BY <1>0, <1>1, <1>2, <1>8, <2>2, <2>3 DEF Ago, Follows
    <2> QED
      BY <1>7, <2>1, <2>3, <2>4
  <1>9. pc'[r] \in Trying => cand'[r] = next
    BY <1>5 DEF Trying
  <1>10. pc'[r] = "loop" => snapshot[r][next] \notin Solid
    BY <1>5, <1>6
  <1> QED
    BY <1>0, <1>3, <1>8, <1>9, <1>10 DEF Window

(* A call that drew as often as there are proxies passed over all of them.  *)
LEMMA WindowCovers ==
  ASSUME CallsFit, NEW r \in Requests, pc[r] = "loop", Window(r), rounds[r] >= Count(r)
  PROVE  Range(snapshot[r]) \cap Solid = {}
  <1>1. /\ Count(r) \in Nat \ {0} /\ current \in Nat /\ rounds[r] \in Nat
        /\ DOMAIN snapshot[r] = 1 .. Count(r)
    BY RotatorThreads DEF CallsFit, CallFits, RotatorType, Count
  <1>a. PICK n \in Nat \ {0} : n = Count(r)
    BY <1>1
  <1>b. PICK last \in 1 .. n : last = LastIndex(r)
    BY <1>1, <1>a, Drawn DEF LastIndex
  <1>2. n = Count(r) /\ last = LastIndex(r)
    BY <1>a, <1>b
  <1>3. \A i \in 1 .. n : Ago(n, last, i) < n
    BY <1>2 DEF Ago
  <1>4. \A i \in 1 .. n : Ago(n, last, i) \in Int
    BY <1>2 DEF Ago
  <1>5. \A i \in 1 .. n : Ago(n, last, i) < rounds[r]
    BY <1>1, <1>2, <1>3, <1>4
  <1>6. rounds[r] > 0
    BY <1>1
  <1>7. \A i \in 1 .. n : snapshot[r][i] \notin Solid
    BY <1>2, <1>5, <1>6 DEF Window
  <1> QED
    BY <1>1, <1>2, <1>7 DEF Range

(* What a step of call r comes to: solid proxies stay well, r has passed    *)
(* over what it drew, and it gives up only on a pool without a solid proxy. *)
Served(r) ==
  /\ SolidWell' /\ PassedOver(r)'
  /\ r \in Undisturbed' => Window(r)'
  /\ GaveUp(r)' /\ r \notin overlapped' => Range(snapshot'[r]) \cap Solid = {}

LEMMA CallServes ==
  ASSUME CallsFit, SolidWell, NEW r \in Requests, PassedOver(r), r \in Undisturbed => Window(r),
         RequestStep(r)
  PROVE  Served(r)
  <1>0. /\ RotatorType /\ TrackersFit /\ CallFits(r) /\ r \in Threads
        /\ cooled \cap Solid = {} /\ rounds[r] \in Nat
        /\ snapshot[r] \in Seq(Endpoints)
    BY RotatorThreads DEF CallsFit, SolidWell, RotatorType
  <1>a. pc[r] \in Trying => Candidate(r) \in Endpoints /\ cand[r] \in 1 .. Count(r)
    BY CandidateIs
  <1>b. pc[r] # "done" => ~GaveUp(r)
    BY <1>0 DEF CallFits, GaveUp
  <1> USE DEF Goto, pool, locals, workers
  <1>1. CASE Capture(r)
    <2>1. /\ UNCHANGED <<trackerVars, cooled, result, rounds, sticky>> /\ pc[r] = "idle" /\ pc'[r] = "session"
      BY <1>0, <1>1 DEF Capture, RotatorType
    <2>2. sticky'[r] = 0 /\ rounds'[r] = 0
      BY <1>0, <2>1 DEF CallFits
    <2>3. SolidWell' /\ ~GaveUp(r)'
      BY <1>0, <1>b, <2>1, StillWell DEF GaveUp
    <2> QED
      BY <2>1, <2>2, <2>3 DEF Served, PassedOver, Window
  <1>2. CASE LookUpSession(r) \/ ExtendSession(r)
    <2>1. /\ UNCHANGED <<trackerVars, cooled, result, rounds, snapshot>>
          /\ pc[r] \in {"session", "extend"} /\ pc'[r] \in {"extend", "loop", "load"}
          /\ pc'[r] = "loop" => ~Fits(r)'
      <3>1. CASE LookUpSession(r)
        <4>1. pc'[r] = "loop" => sticky'[r] = 0
          BY <1>0, <3>1 DEF LookUpSession, RotatorType, CallFits
        <4> QED
          BY <1>0, <3>1, <4>1 DEF LookUpSession, RotatorType, Fits
      <3>2. CASE ExtendSession(r)
        <4>1. UNCHANGED <<sticky, snapshot>> /\ (pc'[r] = "loop" => ~Fits(r))
          BY <1>0, <3>2 DEF ExtendSession, RotatorType
        <4> QED
          BY <1>0, <3>2, <4>1 DEF ExtendSession, RotatorType, Fits, Count
      <3> QED
        BY <1>2, <3>1, <3>2
    <2>2. rounds'[r] = 0
      BY <1>0, <2>1 DEF CallFits
    <2>3. SolidWell' /\ ~GaveUp(r)'
      BY <1>0, <1>b, <2>1, StillWell DEF GaveUp
    <2> QED
      BY <2>1, <2>2, <2>3 DEF Served, PassedOver, Window
  <1>3. CASE Draw(r)
    <2>1. /\ UNCHANGED <<trackerVars, cooled, result, sticky, snapshot>>
          /\ pc[r] = "loop" /\ pc'[r] \in {"loop", "load"}
      BY <1>0, <1>3 DEF Draw, RotatorType
    <2>2. SolidWell' /\ ~GaveUp(r)'
      BY <1>0, <1>b, <2>1, StillWell DEF GaveUp
    <2>3. PassedOver(r)'
      BY <2>1 DEF PassedOver, Fits, Count
    <2>4. r \in Undisturbed' => Window(r)'
      BY <1>3, WindowGrows
    <2> QED
      BY <2>2, <2>3, <2>4 DEF Served
  <1>4. CASE GiveUp(r)
    <2>1. /\ UNCHANGED <<trackerVars, cooled, snapshot, overlapped>> /\ pc[r] = "loop" /\ pc'[r] = "done"
          /\ rounds[r] >= Count(r) /\ rounds'[r] = 0 /\ sticky'[r] = 0
      BY <1>0, <1>4 DEF GiveUp, Returns, RotatorType, Iterations
    <2>2. SolidWell'
      BY <1>0, <2>1, StillWell
    <2>3. r \notin overlapped => Range(snapshot[r]) \cap Solid = {}
      <3>1. r \notin overlapped => Window(r)
        BY <2>1 DEF Undisturbed, InFlight
      <3> QED
        BY <2>1, <3>1, WindowCovers
    <2> QED
      BY <2>1, <2>2, <2>3 DEF Served, PassedOver, Fits, Window
  <1>5. CASE LoadUnhealthy(r) \/ LoadRecoveredAt(r) \/ CheckDomain(r) \/ TryNext(r) \/ PutDomainInCooldown(r)
    <2>1. /\ UNCHANGED <<trackerVars, result, sticky, snapshot, cand, rounds, current, overlapped, forbidden>>
          /\ pc[r] \in {"load", "cool", "domain", "failed", "relayed"}
          /\ pc'[r] \in {"cool", "domain", "loop", "exchange", "save"}
      BY <1>0, <1>5
         DEF LoadUnhealthy, LoadRecoveredAt, CheckDomain, TryNext, PutDomainInCooldown, RotatorType
    <2>2. pc'[r] \in {"cool", "loop"} => Candidate(r) \notin Solid
      <3>1. CASE LoadUnhealthy(r)
        BY <1>0, <1>a, <3>1 DEF LoadUnhealthy, RotatorType, SolidWell, Trying
      <3>2. CASE LoadRecoveredAt(r) \/ TryNext(r)
        BY <3>2 DEF LoadRecoveredAt, TryNext, PassedOver
      <3>3. CASE CheckDomain(r)
        BY <1>0, <3>3 DEF CheckDomain, RotatorType
      <3>4. CASE PutDomainInCooldown(r)
        BY <1>0, <3>4 DEF PutDomainInCooldown, RotatorType
      <3> QED
        BY <1>5, <3>1, <3>2, <3>3, <3>4
    <2>3. cooled' \cap Solid = {}
      BY <1>0, <1>5
         DEF LoadUnhealthy, LoadRecoveredAt, CheckDomain, TryNext, PutDomainInCooldown, PassedOver
    <2>4. SolidWell' /\ ~GaveUp(r)'
      BY <1>b, <2>1, <2>3, StillWell DEF GaveUp
    <2>5. pc[r] \in Trying /\ (pc'[r] \in Trying \/ Candidate(r) \notin Solid)
      BY <2>1, <2>2 DEF Trying
    <2>6. pc'[r] = "loop" /\ rounds[r] = 0 => snapshot[r][sticky[r]] = Candidate(r)
      BY <1>0, <2>5 DEF CallFits, Candidate
    <2>7. PassedOver(r)'
      <3>1. Candidate(r)' = Candidate(r) /\ (Fits(r)' <=> Fits(r))
        BY <2>1 DEF Candidate, Fits, Count
      <3> QED
        BY <1>0, <2>1, <2>2, <2>6, <3>1 DEF PassedOver
    <2>8. r \in Undisturbed' => Window(r)'
      <3>1. r \in Undisturbed' => r \in Undisturbed
        BY <2>1 DEF Undisturbed, InFlight
      <3> QED
        BY <2>1, <2>5, <3>1, WindowStays
    <2> QED
      BY <2>4, <2>7, <2>8 DEF Served
  <1>6. CASE \E out \in {"response", "forbidden", "cancelled", "error", "fault"} : Exchange(r, out)
    <2>1. PICK m \in {MarkFailed, MarkSuccess, Reset} :
            /\ pc[r] = "exchange" /\ pc'[r] = (IF m = MarkFailed THEN "failed" ELSE "relayed")
            /\ Enter(r, m, Candidate(r)) /\ UNCHANGED <<tracker, now>>
            /\ UNCHANGED <<cooled, result, sticky, snapshot, cand, rounds, current, overlapped>>
            /\ m = MarkFailed \/ r \in forbidden' => Candidate(r) \notin Solid
      <3>1. PICK out \in {"response", "forbidden", "cancelled", "error", "fault"} : Exchange(r, out)
        BY <1>6
      <3>2. IsProxyFault(out) \/ out = "forbidden" => Candidate(r) \notin Solid
        BY <3>1 DEF Exchange, Answers, IsProxyFault
      <3>3. r \in forbidden' => out = "forbidden"
        BY <3>1 DEF Exchange
      <3> QED
        BY <1>0, <3>1, <3>2, <3>3 DEF Exchange, RotatorType, MarkFailed, MarkSuccess
    <2>2. SolidWell' /\ ~GaveUp(r)'
      BY <1>0, <1>a, <1>b, <2>1, EnterWell DEF Trying, GaveUp
    <2>3. PassedOver(r)'
      <3>1. Candidate(r)' = Candidate(r) /\ (Fits(r)' <=> Fits(r))
        BY <2>1 DEF Candidate, Fits, Count
      <3> QED
        BY <1>0, <2>1, <3>1 DEF PassedOver
    <2>4. r \in Undisturbed' => Window(r)'
      <3>1. r \in Undisturbed' => r \in Undisturbed
        BY <2>1 DEF Undisturbed, InFlight
      <3>2. pc[r] \in Trying /\ pc'[r] \in Trying
        BY <2>1 DEF Trying
      <3> QED
        BY <2>1, <3>1, <3>2, WindowStays
    <2> QED
      BY <2>2, <2>3, <2>4 DEF Served
  <1>7. CASE SaveSession(r)
    <2>1. /\ UNCHANGED <<trackerVars, cooled>> /\ pc'[r] = "done" /\ rounds'[r] = 0 /\ sticky'[r] = 0
          /\ result'[r] = "relayed"
      BY <1>0, <1>7 DEF SaveSession, Returns, RotatorType
    <2>2. SolidWell' /\ ~GaveUp(r)'
      BY <1>0, <2>1, StillWell DEF GaveUp
    <2> QED
      BY <2>1, <2>2 DEF Served, PassedOver, Fits, Window
  <1>8. CASE TrackerStep(r) /\ UNCHANGED rotVars
    <2>1. UNCHANGED <<pc, cooled, result, sticky, snapshot, cand, rounds, current, overlapped, forbidden>>
      BY <1>8 DEF rotVars
    <2>2. pc[r] \in {"failed", "relayed"}
      BY <1>0, <1>8, OwnStep DEF CallFits
    <2>3. SolidWell' /\ ~GaveUp(r)'
      BY <1>0, <1>8, <1>b, <2>1, <2>2, StepWell DEF GaveUp
    <2>4. PassedOver(r)'
      BY <2>1 DEF PassedOver, Candidate, Fits, Count
    <2>5. r \in Undisturbed' => Window(r)'
      BY <2>1 DEF Undisturbed, InFlight, Window, LastIndex, Count
    <2> QED
      BY <2>3, <2>4, <2>5 DEF Served
  <1> QED
    BY <1>1, <1>2, <1>3, <1>4, <1>5, <1>6, <1>7, <1>8 DEF RequestStep

(* Who is in flight, and overlapped, after a step of a call: one that       *)
(* starts beside others overlaps them, and the cursor is only drawn by a    *)
(* call in flight.                                                          *)
LEMMA CallOverlaps ==
  ASSUME CallsFit, Alone, NEW r \in Requests, RequestStep(r)
  PROVE  /\ Alone' /\ overlapped \subseteq overlapped'
         /\ \/ r \in InFlight
            \/ /\ UNCHANGED current
               /\ \A s \in InFlight : s \in overlapped'
  <1>0. Apart(r) /\ RotatorType /\ r \in Threads
    BY CallSteps, RotatorThreads DEF CallsFit, Keeps
  <1>1. CASE Capture(r)
    <2>1. /\ pc'[r] = "session" /\ pc[r] = "idle" /\ current' = current
          /\ overlapped' = IF InFlight = {} THEN overlapped ELSE overlapped \cup InFlight \cup {r}
      BY <1>0, <1>1 DEF Capture, Goto, pool, RotatorType
    <2>2. InFlight' = InFlight \cup {r} /\ r \notin InFlight
      BY <1>0, <2>1 DEF InFlight, Apart
    <2> QED
      BY <2>1, <2>2 DEF Alone
  <1>2. CASE ~Capture(r)
    <2>1. pc[r] \notin {"idle", "done"} /\ overlapped \subseteq overlapped'
      <3>1. CASE TrackerStep(r) /\ UNCHANGED rotVars
        BY <1>0, <3>1, OwnStep DEF CallsFit, CallFits, rotVars
      <3>2. CASE ~(TrackerStep(r) /\ UNCHANGED rotVars)
        BY <1>2, <3>2
           DEF RequestStep, LookUpSession, ExtendSession, Draw, GiveUp, LoadUnhealthy, LoadRecoveredAt,
               CheckDomain, Exchange, TryNext, PutDomainInCooldown, SaveSession, locals
      <3> QED
        BY <3>1, <3>2
    <2>2. r \in InFlight /\ InFlight' \subseteq InFlight
      BY <1>0, <2>1 DEF InFlight, Apart
    <2> QED
      BY <2>1, <2>2 DEF Alone
  <1> QED
    BY <1>1, <1>2

(* The calls that a step of t leaves alone keep what they have.             *)
LEMMA ApartServed ==
  ASSUME NEW t \in Threads, Apart(t), NEW s \in Requests, s # t, PassedOver(s),
         s \in Undisturbed => Window(s), overlapped \subseteq overlapped',
         current' = current \/ s \notin Undisturbed',
         GaveUp(s) /\ s \notin overlapped => Range(snapshot[s]) \cap Solid = {}
  PROVE  /\ PassedOver(s)'
         /\ s \in Undisturbed' => Window(s)'
         /\ GaveUp(s)' /\ s \notin overlapped' => Range(snapshot'[s]) \cap Solid = {}
  <1>1. /\ pc'[s] = pc[s] /\ snapshot'[s] = snapshot[s] /\ sticky'[s] = sticky[s]
        /\ cand'[s] = cand[s] /\ rounds'[s] = rounds[s] /\ result'[s] = result[s]
        /\ s \in forbidden' <=> s \in forbidden
    BY DEF Apart
  <1>2. PassedOver(s)'
    BY <1>1 DEF PassedOver, Candidate, Fits, Count
  <1>3. s \in Undisturbed' => s \in Undisturbed /\ current' = current
    BY <1>1 DEF Undisturbed, InFlight
  <1>4. s \in Undisturbed' => Window(s)'
    BY <1>1, <1>3 DEF Window, LastIndex, Count
  <1> QED
    BY <1>1, <1>2, <1>4 DEF GaveUp

(* Neither the prober nor the administration harms a solid proxy, and only  *)
(* a replacement of the pool, which overlaps every call in flight, moves    *)
(* the cursor.                                                              *)
LEMMA ElsewhereServes ==
  ASSUME CallsFit, SolidWell, Alone, Elsewhere
  PROVE  /\ SolidWell' /\ Alone' /\ overlapped \subseteq overlapped'
         /\ current' = current \/ Undisturbed' = {}
  <1>0. /\ RotatorType /\ TrackersFit /\ cooled \cap Solid = {}
        /\ Prober \in Threads /\ Admin \in Threads /\ Admin \notin Requests
        /\ Prober \in {Prober, Admin} /\ Admin \in {Prober, Admin}
    BY RotatorThreads DEF CallsFit, SolidWell
  <1>a. Apart(Admin)
    BY ElsewhereSteps DEF Keeps
  <1>b. InFlight' = InFlight
    BY <1>0, <1>a DEF InFlight, Apart
  <1>c. \/ UNCHANGED <<current, overlapped>>
        \/ overlapped' = overlapped \cup InFlight
    BY DEF Elsewhere, ProbeRound, ProberStep, ProbeNext, ProberExits, UpdateClients, ResetDomainCooldowns,
           BeginReset, BeginClose, AdminStep, ResetNext, EndClose, DomainCooldownExpires, SessionExpires,
           rotVars, pool, locals
  <1>d. Alone' /\ overlapped \subseteq overlapped' /\ (current' = current \/ Undisturbed' = {})
    BY <1>b, <1>c DEF Alone, Undisturbed
  <1>e. cooled' \subseteq cooled
    BY DEF Elsewhere, ProbeRound, ProberStep, ProbeNext, ProberExits, UpdateClients, ResetDomainCooldowns,
           BeginReset, BeginClose, AdminStep, ResetNext, EndClose, DomainCooldownExpires, SessionExpires,
           rotVars, pool
  <1>1. CASE \E t \in {Prober, Admin} : TrackerStep(t) /\ UNCHANGED rotVars
    BY <1>0, <1>1, <1>d, StepWell DEF rotVars
  <1>2. CASE ResetNext \/ \E good \in BOOLEAN : ProbeNext(good)
    <2>1. PICK t \in {Prober, Admin}, m \in {MarkFailed, MarkSuccess, Reset} :
            /\ UNCHANGED <<tracker, now, cooled>> /\ m # MarkFailed
            /\ \/ pos[t] <= Len(snapshot[t]) /\ Enter(t, m, snapshot[t][pos[t]])
               \/ UNCHANGED calls
      BY <1>2 DEF ResetNext, ProbeNext, pool, MarkFailed, MarkSuccess, Reset
    <2>2. pos[t] <= Len(snapshot[t]) => snapshot[t][pos[t]] \in Endpoints
      <3>1. snapshot[t] \in Seq(Endpoints) /\ pos[t] \in Nat \ {0}
        BY <1>0 DEF RotatorType
      <3> QED
        BY <3>1
    <2>3. CASE UNCHANGED calls
      BY <1>0, <1>d, <2>1, <2>3, StillWell DEF calls, tracker, trackerVars
    <2>4. CASE pos[t] <= Len(snapshot[t]) /\ Enter(t, m, snapshot[t][pos[t]])
      BY <1>0, <1>d, <2>1, <2>2, <2>4, EnterWell
    <2> QED
      BY <2>1, <2>3, <2>4
  <1>3. CASE UNCHANGED trackerVars \/ Tick(MaxTime)
    BY <1>0, <1>3, <1>d, <1>e, StillWell
  <1> QED
    BY <1>1, <1>2, <1>3
       DEF Elsewhere, ProbeRound, ProberStep, ProberExits, UpdateClients, ResetDomainCooldowns,
           BeginReset, BeginClose, AdminStep, EndClose, DomainCooldownExpires, SessionExpires

LEMMA ServesNextInv ==
  ASSUME CallsFit, ServesInv, [Next]_vars
  PROVE  ServesInv'
  <1>0. \A s \in Requests : /\ PassedOver(s) /\ (s \in Undisturbed => Window(s))
                            /\ GaveUp(s) /\ s \notin overlapped => Range(snapshot[s]) \cap Solid = {}
    BY DEF ServesInv, ProxyServes, GaveUp
  <1>1. ASSUME SolidWell', Alone',
               \A s \in Requests : /\ PassedOver(s)' /\ (s \in Undisturbed' => Window(s)')
                                   /\ GaveUp(s)' /\ s \notin overlapped' => Range(snapshot'[s]) \cap Solid = {}
        PROVE  ServesInv'
    BY <1>1 DEF ServesInv, ProxyServes, GaveUp, Undisturbed, InFlight
  <1>2. CASE \E r \in Requests : RequestStep(r)
    <2>1. PICK r \in Requests : RequestStep(r)
      BY <1>2
    <2>2. Served(r) /\ Apart(r) /\ r \in Threads
      BY <1>0, <2>1, CallServes, CallSteps, RotatorThreads DEF ServesInv, Keeps
    <2>3. /\ Alone' /\ overlapped \subseteq overlapped'
          /\ \/ r \in InFlight
             \/ UNCHANGED current /\ \A s \in InFlight : s \in overlapped'
      BY <2>1, CallOverlaps DEF ServesInv
    <2>4. \A s \in Requests : s # r => current' = current \/ s \notin Undisturbed'
      <3> TAKE s \in Requests
      <3> HAVE s # r
      <3>1. s \in Undisturbed' => s \in InFlight /\ s \notin overlapped
        BY <2>2, <2>3 DEF Undisturbed, InFlight, Apart
      <3> QED
        BY <2>3, <3>1 DEF ServesInv, Alone
    <2>5. \A s \in Requests : s # r =>
            /\ PassedOver(s)' /\ (s \in Undisturbed' => Window(s)')
            /\ GaveUp(s)' /\ s \notin overlapped' => Range(snapshot'[s]) \cap Solid = {}
      BY <1>0, <2>2, <2>3, <2>4, ApartServed
    <2> QED
      BY <1>1, <2>2, <2>3, <2>5 DEF Served
  <1>3. CASE Elsewhere
    <2>1. /\ SolidWell' /\ Alone' /\ overlapped \subseteq overlapped'
          /\ current' = current \/ Undisturbed' = {}
      BY <1>3, ElsewhereServes DEF ServesInv
    <2>2. Apart(Admin) /\ Admin \in Threads /\ Admin \notin Requests
      BY <1>3, ElsewhereSteps, RotatorThreads DEF Keeps
    <2>3. \A s \in Requests :
            /\ PassedOver(s)' /\ (s \in Undisturbed' => Window(s)')
            /\ GaveUp(s)' /\ s \notin overlapped' => Range(snapshot'[s]) \cap Solid = {}
      BY <1>0, <2>1, <2>2, ApartServed
    <2> QED
      BY <1>1, <2>1, <2>3
  <1>4. CASE UNCHANGED vars
    <2>1. /\ UNCHANGED trackerVars
          /\ UNCHANGED <<pc, key, cooled, result, sticky, snapshot, cand, rounds, current, overlapped, forbidden>>
      BY <1>4 DEF vars, rotVars
    <2>2. SolidWell' /\ Alone'
      BY <2>1, StillWell DEF ServesInv, SolidWell, Alone, InFlight
    <2>3. Apart(Admin) /\ Admin \in Threads /\ Admin \notin Requests
      BY <2>1, RotatorThreads DEF Apart, trackerVars
    <2>4. \A s \in Requests :
            /\ PassedOver(s)' /\ (s \in Undisturbed' => Window(s)')
            /\ GaveUp(s)' /\ s \notin overlapped' => Range(snapshot'[s]) \cap Solid = {}
      BY <1>0, <2>1, <2>3, ApartServed
    <2> QED
      BY <1>1, <2>2, <2>4
  <1> QED
    BY <1>2, <1>3, <1>4 DEF Next, Elsewhere

(* Whatever cursor and sessions earlier calls left, and whatever the prober *)
(* and the resets do meanwhile: a call that neither another one nor a       *)
(* replacement of the pool nor a skipping wrap of the cursor overlaps does  *)
(* not give up over a pool with a proxy that relays every request.          *)
THEOREM RotatorReachesProxy == Spec => []ProxyServes
  <1>1. Init => CallsFit /\ ServesInv
    BY RotatorStarts, ServesStarts
  <1>2. CallsFit /\ ServesInv /\ [Next]_vars => (CallsFit /\ ServesInv)'
    BY RotatorNextInv, ServesNextInv
  <1>3. CallsFit /\ ServesInv => ProxyServes
    BY DEF ServesInv
  <1> QED
    BY <1>1, <1>2, <1>3, PTL DEF Spec
=============================================================================
