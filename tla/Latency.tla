------------------------------- MODULE Latency -------------------------------
(***************************************************************************)
(* Round-trip times and what is derived from them: the sliding window of   *)
(* telemetry/rtt.go with its cached sort, the hedging delay and the proxy  *)
(* timeout computed from its percentiles (proxy/adaptive.go), and the      *)
(* concurrency window of internal/health/vegas.go.                         *)
(***************************************************************************)
EXTENDS Integers, Sequences, SequencesExt, FiniteSets, FiniteSetsExt

CONSTANTS
  Samples,       \* round-trip times
  Capacity,      \* of the window
  Percentiles,
  Enough,        \* samples below which a default is used
  Bounds,        \* [min, max, mult, default] of a timeout or delay
  Alpha, Beta, MinCwnd, MaxCwnd,
  MaxSamples     \* bound on the samples recorded

ASSUME LatencyAssumption ==
  /\ Capacity \in Nat \ {0} /\ Samples \subseteq Nat \ {0}
  /\ 1 <= MinCwnd /\ MinCwnd <= MaxCwnd /\ 1 <= Alpha /\ Alpha + 1 <= Beta

VARIABLES
  window,       \* t.samples
  writeIdx, count, minRTT, smoothedRTT, dirty, cachedSorted,
  baseRTT, cwnd,
  asker,        \* ComputeProxyTimeout: idle, or past its Count
  reply,        \* the last answer of Percentile and its p, or of asker
  recorded      \* history: samples since the last Reset

rttVars == <<window, writeIdx, count, minRTT, smoothedRTT, dirty, cachedSorted, recorded>>
latencyVars == <<rttVars, baseRTT, cwnd, asker, reply>>

NoReply == [p |-> 0, rtt |-> 0, timeout |-> 0]

LatencyInit ==
  /\ window = [i \in 1..Capacity |-> 0]
  /\ writeIdx = 0 /\ count = 0 /\ minRTT = 0 /\ smoothedRTT = 0
  /\ dirty = FALSE
  /\ cachedSorted = <<>>
  /\ baseRTT = 0
  /\ cwnd = MinCwnd
  /\ asker = "idle"
  /\ reply = NoReply
  /\ recorded = <<>>

-----------------------------------------------------------------------------
(* Faulty variants of single steps, which the properties must tell apart    *)
(* from the code.                                                           *)
OnlyWhenGrown == Len(cachedSorted) # count

-----------------------------------------------------------------------------
Clamp(lo, x, hi) == IF x < lo THEN lo ELSE IF x > hi THEN hi ELSE x

Record(rtt) ==
  /\ Len(recorded) < MaxSamples
  /\ window' = [window EXCEPT ![writeIdx + 1] = rtt]
  /\ writeIdx' = (writeIdx + 1) % Capacity
  /\ count' = IF count < Capacity THEN count + 1 ELSE count
  /\ minRTT' = IF minRTT = 0 \/ rtt < minRTT THEN rtt ELSE minRTT
  /\ smoothedRTT' = IF smoothedRTT = 0 THEN rtt ELSE (9 * smoothedRTT + rtt) \div 10
  /\ dirty' = TRUE
  /\ recorded' = Append(recorded, rtt)
  /\ UNCHANGED <<cachedSorted, baseRTT, cwnd, asker, reply>>

MustSort == dirty \/ Len(cachedSorted) # count

Sorted == IF MustSort THEN SortSeq(SubSeq(window, 1, count), <) ELSE cachedSorted

Ceil(a, b) == (a + b - 1) \div b

(* The rank of percentile p among n samples, from 1. *)
Rank(p, n) == Clamp(1, Ceil(p * n, 100), n)

Percentile(p) == IF count = 0 THEN 0 ELSE Sorted[Rank(p, count)]

AfterPercentile ==
  IF count = 0 THEN UNCHANGED <<dirty, cachedSorted>> ELSE dirty' = FALSE /\ cachedSorted' = Sorted

AskPercentile(p) ==
  /\ reply' = [p |-> p, rtt |-> Percentile(p), timeout |-> 0]
  /\ AfterPercentile
  /\ UNCHANGED <<window, writeIdx, count, minRTT, smoothedRTT, recorded, baseRTT, cwnd, asker>>

ResetTracker ==
  /\ window' = [i \in 1..Capacity |-> 0]
  /\ writeIdx' = 0 /\ count' = 0 /\ minRTT' = 0 /\ smoothedRTT' = 0
  /\ dirty' = TRUE
  /\ cachedSorted' = <<>>
  /\ recorded' = <<>>
  /\ reply' = NoReply
  /\ UNCHANGED <<baseRTT, cwnd, asker>>

(* ComputeProxyTimeout and ComputeDelay take the tracker's lock twice: for  *)
(* Count and then for the percentile; the default of a delay is its minimum.*)
AskCount ==
  /\ asker = "idle"
  /\ \/ /\ count < Enough
        /\ reply' = [NoReply EXCEPT !.timeout = Bounds.default]
        /\ UNCHANGED asker
     \/ /\ count >= Enough
        /\ asker' = "counted"
        /\ UNCHANGED reply
  /\ UNCHANGED <<rttVars, baseRTT, cwnd>>

AskTimeout ==
  /\ asker = "counted"
  /\ asker' = "idle"
  /\ reply' = [NoReply EXCEPT !.timeout =
                 IF Percentile(95) <= 0 THEN Bounds.default
                 ELSE Clamp(Bounds.min, Percentile(95) * Bounds.mult, Bounds.max)]
  /\ AfterPercentile
  /\ UNCHANGED <<window, writeIdx, count, minRTT, smoothedRTT, recorded, baseRTT, cwnd>>

Clamped(n) == Clamp(MinCwnd, n, MaxCwnd)

(* VegasEngine.Update: diff = cwnd - cwnd * base / sample, compared without *)
(* dividing.                                                                *)
Update(sample) ==
  LET base == IF baseRTT = 0 \/ sample < baseRTT THEN sample ELSE baseRTT
      diff == cwnd * (sample - base)
  IN
  /\ baseRTT' = base
  /\ cwnd' = Clamped(IF diff < Alpha * sample THEN cwnd + 1
                     ELSE IF diff > Beta * sample THEN cwnd - 1 ELSE cwnd)
  /\ UNCHANGED <<rttVars, asker, reply>>

LatencyNext ==
  \/ \E s \in Samples : Record(s) \/ Update(s)
  \/ \E p \in Percentiles : AskPercentile(p)
  \/ ResetTracker \/ AskCount \/ AskTimeout

LatencySpec == LatencyInit /\ [][LatencyNext]_latencyVars

-----------------------------------------------------------------------------
Recent == SubSeq(recorded, 1 + (IF Len(recorded) > Capacity THEN Len(recorded) - Capacity ELSE 0),
                 Len(recorded))
AtMost(x) == Cardinality({i \in DOMAIN Recent : Recent[i] <= x})

(* However samples, resets and questions follow each other, a percentile    *)
(* asked now is the smallest of the latest samples that at least p of them  *)
(* do not exceed, in spite of the cached sort; a computed timeout is within *)
(* its bounds or the default; the concurrency window stays in its bounds.   *)
LatencyIsCurrent ==
  /\ \A p \in Percentiles : count > 0 =>
       /\ \E i \in DOMAIN Recent : Recent[i] = Percentile(p)
       /\ AtMost(Percentile(p)) * 100 >= p * Len(Recent)
       /\ AtMost(Percentile(p) - 1) * 100 < p * Len(Recent)
  /\ reply.timeout \in {0, Bounds.default} \cup Bounds.min..Bounds.max
  /\ cwnd \in MinCwnd..MaxCwnd
=============================================================================
