--------------------------- MODULE SequenceTracker --------------------------
(***************************************************************************)
(* SequenceTracker of the server, and the same accounting in the           *)
(* generator's packet receiver: what sequence numbers modulo SeqModulus    *)
(* say about the packets that were sent.                                   *)
(*                                                                         *)
(* The packets of a run are numbered 0, 1, 2, ... (their ordinals); a      *)
(* packet carries its ordinal modulo SeqModulus.  The network loses,       *)
(* reorders and duplicates, but no packet arrives half a cycle or more     *)
(* from the newest: that is what makes the comparison meaningful.          *)
(***************************************************************************)
EXTENDS Integers, FiniteSets

CONSTANTS
  SeqModulus,  \* 2^32 in the code
  undefined,   \* no packet observed
  MaxOrdinal,  \* bound on the packets sent
  MaxArrivals  \* bound on the packets observed

ASSUME SeqModulusAssumption ==
  SeqModulus \in Nat /\ SeqModulus >= 4 /\ SeqModulus % 2 = 0
ASSUME undefinedAssumption == undefined \notin Nat

VARIABLES
  tracker,   \* the fields of SequenceTracker
  oldest,    \* ordinal of the first packet observed
  newest,    \* largest ordinal observed
  seen,      \* ordinals observed
  arrivals   \* number of packets observed

trackerVars == <<tracker, oldest, newest, seen, arrivals>>

Half == SeqModulus \div 2

FreshTracker == [latest |-> undefined, lost |-> 0, reordered |-> 0]

(* observe(sequence); delta = (sequence - latest) >>> 0                    *)
Behind_ExcludesHalf(delta) == delta = 0 \/ delta > Half
Behind(delta) == delta = 0 \/ delta >= Half

observe_CountsDelta(t, sequence) ==
  LET delta == (sequence - t.latest) % SeqModulus
  IN IF t.latest = undefined THEN [t EXCEPT !.latest = sequence]
     ELSE IF Behind(delta) THEN [t EXCEPT !.reordered = @ + 1]
     ELSE [latest |-> sequence, lost |-> t.lost + delta, reordered |-> t.reordered]

observe_FollowsLate(t, sequence) ==
  LET delta == (sequence - t.latest) % SeqModulus
  IN IF t.latest = undefined THEN [t EXCEPT !.latest = sequence]
     ELSE IF Behind(delta) THEN [t EXCEPT !.reordered = @ + 1, !.latest = sequence]
     ELSE [latest |-> sequence, lost |-> t.lost + delta - 1, reordered |-> t.reordered]

observe_SignedDelta(t, sequence) ==
  LET delta == sequence - t.latest
  IN IF t.latest = undefined THEN [t EXCEPT !.latest = sequence]
     ELSE IF Behind(delta) THEN [t EXCEPT !.reordered = @ + 1]
     ELSE [latest |-> sequence, lost |-> t.lost + delta - 1, reordered |-> t.reordered]

observe(t, sequence) ==
  LET delta == (sequence - t.latest) % SeqModulus
  IN IF t.latest = undefined THEN [t EXCEPT !.latest = sequence]
     ELSE IF Behind(delta) THEN [t EXCEPT !.reordered = @ + 1]
     ELSE [latest |-> sequence, lost |-> t.lost + delta - 1, reordered |-> t.reordered]

TrackerInit ==
  /\ tracker = FreshTracker
  /\ oldest = undefined /\ newest = undefined
  /\ seen = {}
  /\ arrivals = 0

Arrival(ordinal) ==
  /\ arrivals < MaxArrivals
  /\ arrivals' = arrivals + 1
  /\ tracker' = observe(tracker, ordinal % SeqModulus)
  /\ seen' = seen \cup {ordinal}

FirstArrives(ordinal) ==
  /\ newest = undefined
  /\ oldest' = ordinal /\ newest' = ordinal
  /\ Arrival(ordinal)

LaterArrives(ordinal) ==
  /\ newest # undefined
  /\ ordinal - newest \in -Half .. Half - 1
  /\ newest' = IF ordinal > newest THEN ordinal ELSE newest
  /\ UNCHANGED oldest
  /\ Arrival(ordinal)

(* reset()                                                                 *)
TrackerReset ==
  /\ tracker' = FreshTracker
  /\ oldest' = undefined /\ newest' = undefined
  /\ seen' = {}
  /\ arrivals' = 0

TrackerNext ==
  \/ \E ordinal \in 0 .. MaxOrdinal : FirstArrives(ordinal) \/ LaterArrives(ordinal)
  \/ TrackerReset

TrackerSpec == TrackerInit /\ [][TrackerNext]_trackerVars

-----------------------------------------------------------------------------
(***************************************************************************)
(* latest is the newest packet observed, across any number of wraparounds  *)
(* and late packets.                                                       *)
(***************************************************************************)
LatestIsNewest == newest # undefined => tracker.latest = newest % SeqModulus

(***************************************************************************)
(* Every ordinal from the first to the newest was either counted lost when *)
(* it was skipped or moved latest: the counters never drift.               *)
(***************************************************************************)
CountersAddUp ==
  newest # undefined =>
    tracker.lost + (arrivals - tracker.reordered) = newest - oldest + 1

(***************************************************************************)
(* lost is an upper bound of what is really missing and lost - reordered a *)
(* lower bound: "provisional missing-packet count" (docs/decisions.md).    *)
(***************************************************************************)
Missing == (oldest .. newest) \ seen
LossIsBracketed ==
  newest # undefined =>
    /\ Cardinality(Missing) <= tracker.lost
    /\ tracker.lost - tracker.reordered <= Cardinality(Missing)
=============================================================================
