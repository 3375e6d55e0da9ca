----------------------------- MODULE EventFeed ------------------------------
(***************************************************************************)
(* What an event stream promises its consumer, whatever happens to the     *)
(* connections under it: it delivers the feed in order and without gaps, a *)
(* resuming one may repeat only what follows the last event that carried   *)
(* an id, it reports at most one error, and it holds no response once it   *)
(* is over.                                                                *)
(***************************************************************************)
EXTENDS Naturals, Sequences

CONSTANT Feeds

VARIABLES
  feed,        \* the server's events
  resuming,    \* the feeds that reconnect with the last id
  delivered,   \* positions of the events delivered
  errors,      \* errors reported
  holding,     \* feeds that hold a response
  over

feedVars == <<feed, resuming, delivered, errors, holding, over>>

LastDelivered(f) == IF delivered[f] = <<>> THEN 0 ELSE delivered[f][Len(delivered[f])]

(* The last delivered event with an id, where a resumption starts. *)
ResumePoint(f) ==
  LET named == {delivered[f][i] : i \in {j \in 1..Len(delivered[f]) : feed[f][delivered[f][j]].id}}
  IN CHOOSE n \in named \cup {0} : \A m \in named : m <= n

FeedInit ==
  /\ delivered = [f \in Feeds |-> <<>>]
  /\ errors = [f \in Feeds |-> 0]
  /\ holding = {} /\ over = {}

Deliver(f, n) ==
  /\ f \notin over
  /\ n = LastDelivered(f) + 1 \/ (f \in resuming /\ n = ResumePoint(f) + 1)
  /\ feed[f][n].kind = "data"
  /\ delivered' = [delivered EXCEPT ![f] = Append(@, n)]
  /\ UNCHANGED <<feed, resuming, errors, holding, over>>

End(f) ==
  /\ f \notin over
  /\ over' = over \cup {f}
  /\ holding' = holding \ {f}
  /\ errors' \in {errors, [errors EXCEPT ![f] = 1]}
  /\ UNCHANGED <<feed, resuming, delivered>>

Connection(f) ==
  /\ f \notin over
  /\ holding' \in {holding \cup {f}, holding \ {f}}
  /\ UNCHANGED <<feed, resuming, delivered, errors, over>>

FeedNext ==
  \E f \in Feeds :
    \/ \E n \in 1..Len(feed[f]) : Deliver(f, n)
    \/ End(f)
    \/ Connection(f)

FeedSpec == FeedInit /\ [][FeedNext]_feedVars
=============================================================================
