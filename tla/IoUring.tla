------------------------------- MODULE IoUring -------------------------------
(***************************************************************************)
(* An io_uring connection (netutil/iouring): Read, Write and Close of one  *)
(* connection, and the submission and completion queues it shares with the *)
(* kernel.  Ring positions are counters of a fixed width; c.mu is held     *)
(* through a whole Read or Write.                                          *)
(***************************************************************************)
EXTENDS Naturals, Sequences, SequencesExt

CONSTANTS
  UringCalls,   \* calls of Read and Write
  Chunks,       \* sends a Write needs when every send is partial
  RingSize,     \* entries of the submission queue
  CounterWidth, \* positions wrap at this value (2^32)
  MaxFailures   \* bound on failures of io_uring_enter

ASSUME RingAssumption ==
  /\ RingSize \in Nat \ {0} /\ CounterWidth \in Nat
  /\ CounterWidth % RingSize = 0 /\ CounterWidth > RingSize
  /\ Chunks \in Nat /\ MaxFailures \in Nat

VARIABLES
  kind,       \* read or write
  upc, mu,    \* c.mu
  left,       \* parts of a Write still to be sent
  sqeTail,    \* next entry to fill
  ktail,      \* tail published to the kernel
  khead,      \* head, moved by the kernel
  sqes,       \* entries: the call and the number of its operation
  running,    \* operations the kernel works on
  cqes,       \* completions not taken yet
  prepared,   \* history: operations prepared, in order
  consumed,   \* history: operations the kernel has taken, in order
  taken,      \* history: completion each call took last
  failures,   \* failures of io_uring_enter so far
  shut,       \* c.closed
  freed       \* the ring is unmapped

ringVars == <<sqeTail, ktail, khead, sqes, running, cqes, prepared, consumed>>
uringVars == <<kind, upc, mu, left, taken, failures, shut, freed, ringVars>>

Free == "free"
Closer == "closer"
NoOp == <<Free, 0>>

ASSUME UringAssumption == Free \notin UringCalls /\ Closer \notin UringCalls

UringInit ==
  /\ kind \in [UringCalls -> {"read", "write"}]
  /\ upc = [c \in UringCalls \cup {Closer} |-> "idle"]
  /\ mu = Free
  /\ left = [c \in UringCalls |-> IF kind[c] = "write" THEN Chunks ELSE 1]
  /\ sqeTail = 0 /\ ktail = 0 /\ khead = 0
  /\ sqes = [i \in 0..(RingSize - 1) |-> NoOp]
  /\ running = {}
  /\ cqes = <<>> /\ prepared = <<>> /\ consumed = <<>>
  /\ taken = [c \in UringCalls |-> NoOp]
  /\ failures = 0
  /\ shut = FALSE /\ freed = FALSE

Distance(to, from) == (to + CounterWidth - from) % CounterWidth

-----------------------------------------------------------------------------
(* Faulty variants of single steps, which the properties must tell apart    *)
(* from the code.                                                           *)
OneTooMany == Distance(sqeTail, khead) > RingSize

-----------------------------------------------------------------------------
UringGoes(c, pc) == upc' = [upc EXCEPT ![c] = pc]

(* The check of closed comes before the lock. *)
UringEnter(c) ==
  /\ upc[c] = "idle"
  /\ UringGoes(c, IF shut THEN "done" ELSE "lock")
  /\ UNCHANGED <<kind, mu, left, taken, failures, shut, freed, ringVars>>

UringLock(c) ==
  /\ upc[c] = "lock" /\ mu = Free
  /\ mu' = c
  /\ UringGoes(c, "prepare")
  /\ UNCHANGED <<kind, left, taken, failures, shut, freed, ringVars>>

RingFull == Distance(sqeTail, khead) >= RingSize

Refuses(c) == mu' = Free /\ UringGoes(c, "done")

(* GetSQE: the ring may be closed or full. *)
GetSQE(c) ==
  LET op == <<c, left[c]>> IN
  /\ upc[c] = "prepare"
  /\ \/ /\ freed \/ RingFull
        /\ Refuses(c)
        /\ UNCHANGED ringVars
     \/ /\ ~freed /\ ~RingFull
        /\ sqes' = [sqes EXCEPT ![sqeTail % RingSize] = op]
        /\ sqeTail' = (sqeTail + 1) % CounterWidth
        /\ prepared' = Append(prepared, op)
        /\ UringGoes(c, "submit")
        /\ UNCHANGED <<mu, ktail, khead, running, cqes, consumed>>
  /\ UNCHANGED <<kind, left, taken, failures, shut, freed>>

(* The kernel takes n entries from its head. *)
TakenBy(n) == [i \in 1..n |-> sqes[(khead + i - 1) % RingSize]]

(* Submit publishes the tail before io_uring_enter, which may fail; the     *)
(* entry stays in the queue then.                                           *)
Submit(c, ok) ==
  LET n == Distance(sqeTail, ktail)
      ops == TakenBy(n)
  IN
  /\ upc[c] = "submit"
  /\ ktail' = sqeTail
  /\ \/ /\ ok
        /\ khead' = (khead + n) % CounterWidth
        /\ consumed' = consumed \o ops
        /\ running' = running \cup ToSet(ops)
        /\ UringGoes(c, "wait")
        /\ UNCHANGED <<mu, failures>>
     \/ /\ ~ok /\ failures < MaxFailures
        /\ failures' = failures + 1
        /\ Refuses(c)
        /\ UNCHANGED <<khead, consumed, running>>
  /\ UNCHANGED <<kind, left, taken, shut, freed, sqeTail, sqes, cqes, prepared>>

(* The kernel completes an operation; a receive needs the peer's data.      *)
Completes(op) ==
  /\ op \in running
  /\ running' = running \ {op}
  /\ cqes' = Append(cqes, op)
  /\ UNCHANGED <<kind, upc, mu, left, taken, failures, shut, freed, sqeTail, ktail, khead, sqes,
                 prepared, consumed>>

(* WaitCQE takes the oldest completion, whosever it is: the user data of an *)
(* entry is never compared.  A Write goes on until all is sent.             *)
WaitCQE(c, res) ==
  /\ upc[c] = "wait" /\ cqes # <<>>
  /\ cqes' = Tail(cqes)
  /\ taken' = [taken EXCEPT ![c] = Head(cqes)]
  /\ left' = [left EXCEPT ![c] = IF res = "ok" THEN @ - 1 ELSE @]
  /\ IF res = "ok" /\ left[c] > 1
       THEN UringGoes(c, "prepare") /\ UNCHANGED mu
       ELSE Refuses(c)
  /\ UNCHANGED <<kind, failures, shut, freed, sqeTail, ktail, khead, sqes, running, prepared,
                 consumed>>

(* io_uring_enter fails with anything but EINTR while the call waits. *)
WaitFails(c) ==
  /\ upc[c] = "wait" /\ cqes = <<>>
  /\ failures < MaxFailures
  /\ failures' = failures + 1
  /\ Refuses(c)
  /\ UNCHANGED <<kind, left, taken, shut, freed, ringVars>>

CloseConn ==
  /\ upc[Closer] = "idle"
  /\ shut' = TRUE
  /\ UringGoes(Closer, "lock")
  /\ UNCHANGED <<kind, mu, left, taken, failures, freed, ringVars>>

(* Ring.Close and the socket, under the lock. *)
FreeRing ==
  /\ upc[Closer] = "lock" /\ mu = Free
  /\ freed' = TRUE
  /\ UringGoes(Closer, "done")
  /\ UNCHANGED <<kind, mu, left, taken, failures, shut, ringVars>>

UringStep(c) ==
  UringEnter(c) \/ UringLock(c) \/ GetSQE(c) \/ Submit(c, TRUE) \/ \E r \in {"ok", "error"} : WaitCQE(c, r)

UringNext ==
  \/ \E c \in UringCalls : UringStep(c) \/ Submit(c, FALSE) \/ WaitFails(c)
  \/ \E op \in running : Completes(op)
  \/ CloseConn \/ FreeRing

(* Sends complete by themselves, receives when the peer sends.              *)
UringFairness ==
  /\ \A c \in UringCalls : WF_uringVars(UringStep(c))
  /\ WF_uringVars(FreeRing)
  /\ \A c \in UringCalls : WF_uringVars(kind[c] = "write" /\ \E op \in running : op[1] = c /\ Completes(op))

UringSpec == UringInit /\ [][UringNext]_uringVars /\ UringFairness

-----------------------------------------------------------------------------
(* Through wrap-around and full queues the kernel takes the operations in   *)
(* the order they were prepared, each once, and as long as no               *)
(* io_uring_enter has failed a call takes the completion of its own latest  *)
(* operation although completions are not told apart.                       *)
RingKeepsOrder ==
  /\ IsPrefix(consumed, prepared)
  /\ \A c \in UringCalls : failures = 0 /\ taken[c] # NoOp => taken[c][1] = c
  /\ failures = 0 => Len(cqes) <= 1

-----------------------------------------------------------------------------
(* "Close terminates the socket and io_uring ring instance."                *)
(* (netutil/iouring/conn_linux.go:197)                                      *)
CloseTerminates == upc[Closer] = "lock" ~> freed
=============================================================================
