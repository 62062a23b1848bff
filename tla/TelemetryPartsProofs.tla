------------------------ MODULE TelemetryPartsProofs ------------------------
(***************************************************************************)
(* Proofs about the parts of the telemetry path that have no concurrency   *)
(* of their own.                                                           *)
(*                                                                         *)
(* CircularBuffer implements RecentWindow for every capacity.              *)
(*                                                                         *)
(* SequenceTracker, for every even modulus from 4 on: latest is the newest *)
(* packet, and lost and reordered account for every ordinal, across any    *)
(* number of wraparounds.                                                  *)
(*                                                                         *)
(* WireFormat, for all senders: the two decoders accept what serialize     *)
(* wrote and nothing else, and read every number where it was written.     *)
(***************************************************************************)
EXTENDS CircularBuffer, SequenceTracker, WireFormat, FiniteSetTheorems, TLAPS

-----------------------------------------------------------------------------
(***************************************************************************)
(* The history.                                                            *)
(***************************************************************************)
(* The index arithmetic of circular-buffer.ts: adding at most a full turn  *)
(* to an index wraps at most once.                                         *)
LEMMA Wraps ==
  ASSUME NEW a \in Indices, NEW k \in 0 .. capacity
  PROVE  (a + k) % capacity = IF a + k < capacity THEN a + k ELSE a + k - capacity
<1>1. CASE a + k < capacity
  BY <1>1, capacityAssumption, SMTT(30) DEF Indices
<1>2. CASE a + k >= capacity
  <2> DEFINE x == a + k
  <2>1. x \in Int /\ capacity \in Nat /\ capacity > 0 /\ capacity <= x /\ x < 2 * capacity
    BY <1>2, capacityAssumption DEF Indices
  <2> HIDE DEF x
  <2>2. x % capacity = x - capacity
    BY <2>1, SMTT(30)
  <2>3. QED
    BY <1>2, <2>2, capacityAssumption DEF x, Indices
<1>3. QED
  BY <1>1, <1>2, capacityAssumption DEF Indices

(* The i-th item in use sits at an index of its own.                       *)
LEMMA IndexOfWraps ==
  ASSUME BufferTypeOK, NEW i \in 1 .. capacity
  PROVE  /\ IndexOf(i) \in Indices
         /\ IndexOf(i) = IF start + (i - 1) < capacity THEN start + (i - 1)
                         ELSE start + (i - 1) - capacity
<1>1. i - 1 \in 0 .. capacity /\ i - 1 < capacity /\ start \in Indices
  BY capacityAssumption DEF BufferTypeOK
<1>2. start + i - 1 = start + (i - 1)
  BY <1>1 DEF Indices
<1>3. IndexOf(i) = (start + (i - 1)) % capacity
  BY <1>2 DEF IndexOf
<1>4. IndexOf(i) = IF start + (i - 1) < capacity THEN start + (i - 1)
                   ELSE start + (i - 1) - capacity
  BY <1>1, <1>3, Wraps
<1>5. QED
  BY <1>1, <1>4, capacityAssumption DEF Indices

(* Different items in use sit at different indices.                        *)
LEMMA IndexOfInjective ==
  ASSUME BufferTypeOK, NEW i \in 1 .. capacity, NEW j \in 1 .. capacity, i # j
  PROVE  IndexOf(i) # IndexOf(j)
BY IndexOfWraps, capacityAssumption DEF BufferTypeOK, Indices

(* A new buffer satisfies the invariant (circular-buffer.ts:5-8).          *)
LEMMA BufferInit_Inv == ASSUME BufferInit PROVE BufferInv
BY capacityAssumption DEF BufferInit, BufferInv, BufferTypeOK, Indices

(* toArray() has as many elements as are in use                            *)
(* (circular-buffer.ts:21-23).                                             *)
LEMMA toArrayIsSeq ==
  ASSUME BufferInv PROVE toArray \in Seq(Samples) /\ Len(toArray) = length
BY DEF BufferInv, BufferTypeOK, toArray

(* clear() empties toArray() (circular-buffer.ts:10-14).                   *)
LEMMA clear_Clears ==
  ASSUME BufferInv, clear PROVE BufferInv' /\ toArray' = <<>>
BY capacityAssumption DEF clear, BufferInv, BufferTypeOK, toArray, Indices

(***************************************************************************)
(* A push while there is room appends.                                     *)
(***************************************************************************)
LEMMA push_Appends ==
  ASSUME BufferInv, NEW v \in Samples, push(v), length < capacity
  PROVE  BufferInv' /\ toArray' = Append(toArray, v)
<1> DEFINE n == length
<1>1. /\ n \in Nat /\ n + 1 \in 1 .. capacity /\ start \in Indices
      /\ length' = n + 1 /\ start' = start
      /\ items' = [items EXCEPT ![IndexOf(n + 1)] = v]
  BY capacityAssumption DEF push, BufferInv, BufferTypeOK, IndexOf, Indices
<1>2. IndexOf(n + 1) \in Indices
  BY <1>1, IndexOfWraps DEF BufferInv
<1>3. BufferTypeOK'
  BY <1>1, <1>2 DEF BufferInv, BufferTypeOK
<1>4. \A i \in 1 .. n : items'[IndexOf(i)] = items[IndexOf(i)]
  <2> SUFFICES ASSUME NEW i \in 1 .. n PROVE items'[IndexOf(i)] = items[IndexOf(i)]
    OBVIOUS
  <2>1. i \in 1 .. capacity /\ i # n + 1
    BY <1>1, capacityAssumption
  <2>2. IndexOf(i) # IndexOf(n + 1) /\ IndexOf(i) \in Indices
    BY <1>1, <2>1, IndexOfInjective, IndexOfWraps DEF BufferInv
  <2>3. QED
    BY <1>1, <1>2, <2>2 DEF BufferInv, BufferTypeOK
<1>5. items'[IndexOf(n + 1)] = v
  BY <1>1, <1>2 DEF BufferInv, BufferTypeOK
<1>6. toArray' = [i \in 1 .. n + 1 |-> items'[IndexOf(i)]]
  BY <1>1 DEF toArray, IndexOf
<1>7. toArray = [i \in 1 .. n |-> items[IndexOf(i)]] /\ toArray \in Seq(Samples)
      /\ Len(toArray) = n
  BY toArrayIsSeq DEF toArray
<1> HIDE DEF n
<1>8. toArray' = Append(toArray, v)
  BY <1>1, <1>4, <1>5, <1>6, <1>7
<1>9. \A i \in 1 .. length' : toArray'[i] \in Samples
  BY <1>1, <1>7, <1>8
<1>10. QED
  BY <1>3, <1>8, <1>9 DEF BufferInv

(***************************************************************************)
(* A push when full overwrites the oldest item, which start leaves behind. *)
(***************************************************************************)
LEMMA push_Replaces ==
  ASSUME BufferInv, NEW v \in Samples, push(v), ~(length < capacity)
  PROVE  BufferInv' /\ toArray' = Append(Tail(toArray), v)
<1>1. /\ length = capacity /\ capacity \in Nat /\ capacity > 0 /\ start \in Indices
      /\ items \in [Indices -> Samples \cup {unused}]
  BY capacityAssumption DEF BufferInv, BufferTypeOK
<1>2. (start + length) % capacity = start
  BY <1>1, Wraps DEF Indices
<1>3. start' = (IF start + 1 < capacity THEN start + 1 ELSE start + 1 - capacity)
  BY <1>1, Wraps DEF push
<1>4. /\ start' \in Indices /\ length' = capacity
      /\ items' = [items EXCEPT ![start] = v]
  <2>1. start' \in Indices
    BY <1>1, <1>3 DEF Indices
  <2>2. length' = capacity
    BY <1>1 DEF push
  <2>3. items' = [items EXCEPT ![start] = v]
    BY <1>2 DEF push
  <2>4. QED
    BY <2>1, <2>2, <2>3
<1>5. BufferTypeOK'
  BY <1>1, <1>4 DEF BufferTypeOK
<1>6. \A i \in 1 .. capacity - 1 :
        IndexOf(i)' = IndexOf(i + 1) /\ IndexOf(i + 1) \in Indices /\ IndexOf(i + 1) # start
  <2> SUFFICES ASSUME NEW i \in 1 .. capacity - 1
               PROVE  /\ IndexOf(i)' = IndexOf(i + 1)
                      /\ IndexOf(i + 1) \in Indices /\ IndexOf(i + 1) # start
    OBVIOUS
  <2>1. i + 1 \in 1 .. capacity /\ i - 1 \in 0 .. capacity
    BY <1>1
  <2>2. /\ IndexOf(i + 1) \in Indices
        /\ IndexOf(i + 1) = IF start + i < capacity THEN start + i ELSE start + i - capacity
    BY <1>1, <2>1, IndexOfWraps DEF BufferInv, Indices
  <2>3. IndexOf(i)' = (start' + (i - 1)) % capacity
    BY <1>4, <2>1 DEF IndexOf, Indices
  <2>4. IndexOf(i)' = IF start' + (i - 1) < capacity THEN start' + (i - 1)
                      ELSE start' + (i - 1) - capacity
    BY <1>4, <2>1, <2>3, Wraps
  <2>5. QED
    BY <1>1, <1>3, <2>2, <2>4 DEF Indices
<1>7. IndexOf(capacity)' = start
  <2>1. IndexOf(capacity)' = (start' + (capacity - 1)) % capacity
    BY <1>1, <1>4 DEF IndexOf, Indices
  <2>2. capacity - 1 \in 0 .. capacity
    BY <1>1
  <2>3. IndexOf(capacity)' = IF start' + (capacity - 1) < capacity THEN start' + (capacity - 1)
                             ELSE start' + (capacity - 1) - capacity
    BY <1>4, <2>1, <2>2, Wraps
  <2>4. QED
    BY <1>1, <1>3, <2>3 DEF Indices
<1>8. toArray' = [i \in 1 .. capacity |-> items'[IndexOf(i)']]
  BY <1>4 DEF toArray
<1>9. /\ toArray = [i \in 1 .. capacity |-> items[IndexOf(i)]]
      /\ toArray \in Seq(Samples) /\ Len(toArray) = capacity
  BY <1>1, toArrayIsSeq DEF toArray
<1>10. \A i \in 1 .. capacity - 1 : toArray'[i] = toArray[i + 1]
  <2> SUFFICES ASSUME NEW i \in 1 .. capacity - 1 PROVE toArray'[i] = toArray[i + 1]
    OBVIOUS
  <2>1. i \in 1 .. capacity /\ i + 1 \in 1 .. capacity
    BY <1>1
  <2>2. items'[IndexOf(i)'] = items[IndexOf(i + 1)]
    BY <1>1, <1>4, <1>6
  <2>3. QED
    BY <1>8, <1>9, <2>1, <2>2
<1>11. toArray'[capacity] = v
  <2>1. capacity \in 1 .. capacity /\ items'[start] = v
    BY <1>1, <1>4
  <2>2. QED
    BY <1>7, <1>8, <2>1
<1>12. toArray' = Append(Tail(toArray), v)
  <2>1. /\ Tail(toArray) \in Seq(Samples) /\ Len(Tail(toArray)) = capacity - 1
        /\ \A i \in 1 .. capacity - 1 : Tail(toArray)[i] = toArray[i + 1]
    BY <1>1, <1>9
  <2>2. Append(Tail(toArray), v)
          = [i \in 1 .. capacity |-> IF i < capacity THEN toArray[i + 1] ELSE v]
    <3> DEFINE rest == Tail(toArray)
    <3>1. rest \in Seq(Samples) /\ Len(rest) = capacity - 1
      BY <2>1
    <3>2. \A i \in 1 .. capacity - 1 : rest[i] = toArray[i + 1]
      BY <2>1
    <3>3. /\ Append(rest, v) \in Seq(Samples) /\ Len(Append(rest, v)) = capacity
          /\ \A i \in 1 .. capacity - 1 : Append(rest, v)[i] = rest[i]
          /\ Append(rest, v)[capacity] = v
      <4> HIDE DEF rest
      <4>1. QED
        BY <1>1, <3>1
    <3>4. Append(rest, v) = [i \in 1 .. capacity |-> Append(rest, v)[i]]
      <4> DEFINE whole == Append(rest, v)
      <4>1. whole \in Seq(Samples) /\ Len(whole) = capacity
        BY <3>3
      <4> HIDE DEF whole
      <4>2. whole = [i \in 1 .. capacity |-> whole[i]]
        BY <4>1
      <4>3. QED
        BY <4>2 DEF whole
    <3> HIDE DEF rest
    <3>5. \A i \in 1 .. capacity :
            Append(rest, v)[i] = IF i < capacity THEN toArray[i + 1] ELSE v
      BY <1>1, <3>2, <3>3
    <3>6. Append(rest, v) = [i \in 1 .. capacity |-> IF i < capacity THEN toArray[i + 1] ELSE v]
      BY <3>4, <3>5
    <3>7. QED
      BY <3>6 DEF rest
  <2>3. \A i \in 1 .. capacity :
          items'[IndexOf(i)'] = IF i < capacity THEN toArray[i + 1] ELSE v
    <3> SUFFICES ASSUME NEW i \in 1 .. capacity
                 PROVE  items'[IndexOf(i)'] = IF i < capacity THEN toArray[i + 1] ELSE v
      OBVIOUS
    <3>1. toArray'[i] = items'[IndexOf(i)']
      BY <1>8
    <3>2. CASE i < capacity
      BY <1>1, <1>10, <3>1, <3>2
    <3>3. CASE i = capacity
      BY <1>1, <1>11, <3>1, <3>3
    <3>4. QED
      BY <1>1, <3>2, <3>3
  <2>4. QED
    BY <1>8, <2>2, <2>3
<1>13. \A i \in 1 .. length' : toArray'[i] \in Samples
  <2> SUFFICES ASSUME NEW i \in 1 .. capacity PROVE toArray'[i] \in Samples
    BY <1>4
  <2>1. CASE i = capacity
    BY <1>11, <2>1
  <2>2. CASE i # capacity
    BY <1>1, <1>9, <1>10, <2>2
  <2>3. QED
    BY <2>1, <2>2
<1>14. QED
  BY <1>5, <1>12, <1>13 DEF BufferInv

-----------------------------------------------------------------------------
(* Every call keeps the invariant and does to toArray() what the window    *)
(* does.                                                                   *)
LEMMA BufferNext_Refines ==
  ASSUME BufferInv, [BufferNext]_bufferVars
  PROVE  BufferInv' /\ [Window!WindowNext]_toArray
<1>1. CASE clear
  BY <1>1, clear_Clears DEF Window!WindowNext, Window!WindowClear
<1>2. ASSUME NEW v \in Samples, push(v) PROVE BufferInv' /\ [Window!WindowNext]_toArray
  <2>1. toArray' = IF length < capacity THEN Append(toArray, v) ELSE Append(Tail(toArray), v)
    BY <1>2, push_Appends, push_Replaces
  <2>2. Len(toArray) = length
    BY toArrayIsSeq
  <2>3. QED
    BY <1>2, <2>1, <2>2, push_Appends, push_Replaces
       DEF Window!WindowNext, Window!WindowPush, Window!Pushed
<1>3. CASE UNCHANGED bufferVars
  BY <1>3 DEF bufferVars, BufferInv, BufferTypeOK, toArray, IndexOf, Indices
<1>4. QED
  BY <1>1, <1>2, <1>3 DEF BufferNext

(***************************************************************************)
(* toArray() never returns an unused item, for every capacity.             *)
(***************************************************************************)
THEOREM BufferInvariant == BufferSpec => []BufferInv
<1>1. BufferInit => BufferInv
  BY BufferInit_Inv
<1>2. BufferInv /\ [BufferNext]_bufferVars => BufferInv'
  BY BufferNext_Refines
<1>3. QED
  BY <1>1, <1>2, PTL DEF BufferSpec

(***************************************************************************)
(* The history handed to a client is the latest `capacity' samples since   *)
(* the last reset, in order, for every capacity and any use of the buffer. *)
(***************************************************************************)
THEOREM BufferImplementsWindow == BufferSpec => ImplementsWindow
<1>1. BufferInit => BufferInv /\ Window!WindowInit
  BY BufferInit_Inv DEF BufferInit, Window!WindowInit, toArray
<1>2. BufferInv /\ [BufferNext]_bufferVars => BufferInv' /\ [Window!WindowNext]_toArray
  BY BufferNext_Refines
<1>3. QED
  BY <1>1, <1>2, PTL DEF BufferSpec, ImplementsWindow, Window!WindowSpec

-----------------------------------------------------------------------------
(***************************************************************************)
(* The sequence tracker.                                                   *)
(***************************************************************************)
LEMMA HalfTwice == Half \in Nat /\ Half >= 2 /\ SeqModulus = 2 * Half
BY SeqModulusAssumption DEF Half

(***************************************************************************)
(* The remainder of a number is the number less a multiple of the modulus. *)
(***************************************************************************)
LEMMA Remainder ==
  ASSUME NEW a \in Int
  PROVE  /\ a \div SeqModulus \in Int
         /\ a % SeqModulus \in 0 .. SeqModulus - 1
         /\ a = SeqModulus * (a \div SeqModulus) + (a % SeqModulus)
BY SeqModulusAssumption, SMTT(30)

LEMMA SmallRemainder ==
  ASSUME NEW a \in -SeqModulus .. SeqModulus - 1
  PROVE  a % SeqModulus = IF a < 0 THEN a + SeqModulus ELSE a
BY SeqModulusAssumption, SMTT(30)

(***************************************************************************)
(* (sequence - latest) >>> 0 recovers the distance of two ordinals less    *)
(* than half a cycle apart from their sequence numbers.                    *)
(***************************************************************************)
LEMMA DeltaIsDistance ==
  ASSUME NEW a \in Int, NEW b \in Int, a - b \in -Half .. Half - 1
  PROVE  ((a % SeqModulus) - (b % SeqModulus)) % SeqModulus
           = IF a < b THEN a - b + SeqModulus ELSE a - b
<1> DEFINE M == SeqModulus
           r == (a % M) - (b % M)
           k == (a \div M) - (b \div M)
<1>1. M \in Nat /\ M >= 4 /\ r \in -(M - 1) .. M - 1 /\ k \in Int
  BY Remainder, SeqModulusAssumption
<1>2. a - b = M * k + r
  <2> HIDE DEF k, r
  <2>1. a = M * (a \div M) + (a % M) /\ b = M * (b \div M) + (b % M)
    BY Remainder
  <2>2. a \div M \in Int /\ b \div M \in Int
    BY Remainder
  <2>3. QED
    BY <1>1, <2>1, <2>2, SMTT(30) DEF k, r
<1>3. a - b \in Int /\ -M < 2 * (a - b) + 1 /\ 2 * (a - b) < M
  BY HalfTwice
<1>4. k \in -1 .. 1
  <2> HIDE DEF k, r, M
  <2>1. ~(k >= 2)
    <3> SUFFICES ASSUME k >= 2 PROVE FALSE
      OBVIOUS
    <3>1. M * k >= 2 * M
      BY <1>1, SMTT(30)
    <3>2. M * k \in Int
      BY <1>1
    <3>3. QED
      BY <1>1, <1>2, <1>3, <3>1, <3>2
  <2>2. ~(k <= -2)
    <3> SUFFICES ASSUME k <= -2 PROVE FALSE
      OBVIOUS
    <3>1. M * k <= -2 * M
      BY <1>1, SMTT(30)
    <3>2. M * k \in Int
      BY <1>1
    <3>3. QED
      BY <1>1, <1>2, <1>3, <3>1, <3>2
  <2>3. QED
    BY <1>1, <2>1, <2>2
<1>5. r = a - b \/ r = a - b + M \/ r = a - b - M
  <2> HIDE DEF k, r, M
  <2>1. M * (-1) = -M /\ M * 0 = 0 /\ M * 1 = M
    BY <1>1
  <2>2. QED
    BY <1>1, <1>2, <1>3, <1>4, <2>1
<1>6. r % M = IF r < 0 THEN r + M ELSE r
  BY <1>1, SmallRemainder
<1> HIDE DEF r, M
<1>7. r % M = IF a < b THEN a - b + M ELSE a - b
  BY <1>1, <1>3, <1>5, <1>6
<1>8. QED
  BY <1>7 DEF r, M

-----------------------------------------------------------------------------
(***************************************************************************)
(* The inductive invariant.  Before the first packet nothing is set; from  *)
(* then on latest is the newest ordinal's number, and the two counters are *)
(* tied to the ordinals passed and to those that have not been seen.       *)
(***************************************************************************)
TrackerTypes ==
  /\ tracker \in [latest : Nat \cup {undefined}, lost : Nat, reordered : Nat]
  /\ arrivals \in Nat
  /\ seen \subseteq Nat

NothingYet ==
  /\ newest = undefined /\ oldest = undefined
  /\ tracker = FreshTracker /\ seen = {} /\ arrivals = 0

Counting ==
  /\ newest \in Nat /\ oldest \in 0 .. newest /\ seen \subseteq 0 .. newest
  /\ LatestIsNewest /\ CountersAddUp /\ LossIsBracketed

TrackerInv == TrackerTypes /\ (NothingYet \/ Counting)

LEMMA MissingFinite ==
  ASSUME oldest \in Nat, newest \in Nat
  PROVE  IsFiniteSet(Missing) /\ Cardinality(Missing) \in Nat
<1>1. IsFiniteSet(oldest .. newest)
  BY FS_Interval
<1>2. QED
  BY <1>1, FS_Subset, FS_CardinalityType DEF Missing

(* What observe() does to a tracker that has seen a packet.                *)
LEMMA ObserveCases ==
  ASSUME TrackerTypes, newest \in Nat, LatestIsNewest, NEW ordinal \in Nat,
         ordinal - newest \in -Half .. Half - 1
  PROVE  observe(tracker, ordinal % SeqModulus) =
           IF ordinal > newest
           THEN [latest |-> ordinal % SeqModulus,
                 lost |-> tracker.lost + (ordinal - newest) - 1, reordered |-> tracker.reordered]
           ELSE [tracker EXCEPT !.reordered = @ + 1]
<1> DEFINE delta == ((ordinal % SeqModulus) - tracker.latest) % SeqModulus
<1>1. tracker.latest = newest % SeqModulus /\ tracker.latest # undefined
  BY undefinedAssumption, Remainder DEF LatestIsNewest
<1>2. delta = IF ordinal < newest THEN ordinal - newest + SeqModulus ELSE ordinal - newest
  BY <1>1, DeltaIsDistance
<1> HIDE DEF delta
<1>3. Behind(delta) <=> ordinal <= newest
  BY <1>2, HalfTwice DEF Behind
<1>4. observe(tracker, ordinal % SeqModulus) =
        IF Behind(delta) THEN [tracker EXCEPT !.reordered = @ + 1]
        ELSE [latest |-> ordinal % SeqModulus, lost |-> tracker.lost + delta - 1,
              reordered |-> tracker.reordered]
  BY <1>1 DEF observe, delta
<1>5. CASE ordinal > newest
  BY <1>2, <1>3, <1>4, <1>5
<1>6. CASE ordinal <= newest
  BY <1>3, <1>4, <1>6
<1>7. QED
  BY <1>5, <1>6

(* The first packet after a reset (sequence-tracker.ts).                   *)
LEMMA FirstArrives_Inv ==
  ASSUME TrackerInv, NEW ordinal \in Nat, FirstArrives(ordinal)
  PROVE  TrackerInv'
<1>1. NothingYet
  BY undefinedAssumption DEF TrackerInv, Counting, FirstArrives
<1>2. /\ tracker' = [latest |-> ordinal % SeqModulus, lost |-> 0, reordered |-> 0]
      /\ oldest' = ordinal /\ newest' = ordinal /\ seen' = {ordinal} /\ arrivals' = 1
  BY <1>1 DEF FirstArrives, Arrival, observe, NothingYet, FreshTracker
<1>3. ordinal % SeqModulus \in Nat
  BY Remainder
<1>4. TrackerTypes'
  BY <1>2, <1>3 DEF TrackerTypes
<1>5. Missing' = {}
  BY <1>2 DEF Missing
<1>6. LossIsBracketed'
  BY <1>2, <1>5, FS_EmptySet DEF LossIsBracketed
<1>7. LatestIsNewest' /\ CountersAddUp'
  BY <1>2 DEF LatestIsNewest, CountersAddUp
<1>8. QED
  BY <1>2, <1>4, <1>6, <1>7 DEF TrackerInv, Counting

(***************************************************************************)
(* A packet ahead of the newest skips the ordinals in between: as many as  *)
(* are added to lost.                                                      *)
(***************************************************************************)
LEMMA Ahead_Inv ==
  ASSUME TrackerTypes, Counting, NEW ordinal \in Nat, ordinal > newest, LaterArrives(ordinal)
  PROVE  TrackerTypes' /\ Counting'
<1> DEFINE skipped == newest + 1 .. ordinal - 1
<1>1. /\ ordinal - newest \in -Half .. Half - 1
      /\ newest' = ordinal /\ oldest' = oldest
      /\ seen' = seen \cup {ordinal} /\ arrivals' = arrivals + 1
      /\ tracker' = observe(tracker, ordinal % SeqModulus)
  BY DEF LaterArrives, Arrival
<1>2. newest \in Nat /\ oldest \in Nat /\ oldest <= newest /\ newest # undefined
  BY undefinedAssumption DEF Counting
<1>3. tracker' = [latest |-> ordinal % SeqModulus,
                  lost |-> tracker.lost + (ordinal - newest) - 1, reordered |-> tracker.reordered]
  BY <1>1, <1>2, ObserveCases DEF Counting
<1>4. /\ tracker.lost \in Nat /\ tracker.reordered \in Nat /\ arrivals \in Nat
      /\ tracker.lost + (arrivals - tracker.reordered) = newest - oldest + 1
      /\ Cardinality(Missing) <= tracker.lost
      /\ tracker.lost - tracker.reordered <= Cardinality(Missing)
  BY <1>2 DEF TrackerTypes, Counting, CountersAddUp, LossIsBracketed
<1>5. TrackerTypes'
  <2>1. ordinal % SeqModulus \in Nat /\ tracker.lost + (ordinal - newest) - 1 \in Nat
    BY <1>2, <1>4, Remainder
  <2>2. QED
    BY <1>1, <1>3, <1>4, <2>1 DEF TrackerTypes
<1>6. LatestIsNewest' /\ CountersAddUp'
  BY <1>1, <1>2, <1>3, <1>4 DEF LatestIsNewest, CountersAddUp
<1>7. /\ IsFiniteSet(Missing) /\ Cardinality(Missing) \in Nat
      /\ IsFiniteSet(skipped) /\ Cardinality(skipped) = ordinal - newest - 1
  <2>1. newest + 1 \in Int /\ ordinal - 1 \in Int
    BY <1>2
  <2>2. IsFiniteSet(skipped) /\ Cardinality(skipped) =
          IF newest + 1 > ordinal - 1 THEN 0 ELSE (ordinal - 1) - (newest + 1) + 1
    BY <2>1, FS_Interval
  <2> HIDE DEF skipped
  <2>3. Cardinality(skipped) = ordinal - newest - 1
    BY <1>2, <2>2
  <2>4. QED
    BY <1>2, <2>2, <2>3, MissingFinite
<1>8. Missing' = Missing \cup skipped /\ Missing \cap skipped = {}
  BY <1>1, <1>2 DEF Missing, Counting
<1>9. Cardinality(Missing') = Cardinality(Missing) + (ordinal - newest - 1)
  <2>1. Cardinality(Missing \cap skipped) = 0
    BY <1>8, FS_EmptySet
  <2> HIDE DEF skipped
  <2>2. Cardinality(Missing \cup skipped)
          = Cardinality(Missing) + Cardinality(skipped) - Cardinality(Missing \cap skipped)
    BY <1>7, FS_Union
  <2>3. QED
    BY <1>2, <1>7, <1>8, <2>1, <2>2
<1>10. LossIsBracketed'
  BY <1>2, <1>3, <1>4, <1>7, <1>9 DEF LossIsBracketed
<1>11. newest' \in Nat /\ oldest' \in 0 .. newest' /\ seen' \subseteq 0 .. newest'
  BY <1>1, <1>2 DEF Counting
<1>12. QED
  BY <1>5, <1>6, <1>10, <1>11 DEF Counting

(***************************************************************************)
(* A late or repeated packet is counted once in reordered and closes at    *)
(* most one gap.                                                           *)
(***************************************************************************)
LEMMA Late_Inv ==
  ASSUME TrackerTypes, Counting, NEW ordinal \in Nat, ~(ordinal > newest), LaterArrives(ordinal)
  PROVE  TrackerTypes' /\ Counting'
<1>1. /\ ordinal - newest \in -Half .. Half - 1
      /\ newest' = newest /\ oldest' = oldest
      /\ seen' = seen \cup {ordinal} /\ arrivals' = arrivals + 1
      /\ tracker' = observe(tracker, ordinal % SeqModulus)
  BY DEF LaterArrives, Arrival
<1>2. newest \in Nat /\ oldest \in Nat /\ oldest <= newest /\ newest # undefined
  BY undefinedAssumption DEF Counting
<1>3. tracker' = [tracker EXCEPT !.reordered = @ + 1]
  BY <1>1, <1>2, ObserveCases DEF Counting
<1>4. /\ tracker.lost \in Nat /\ tracker.reordered \in Nat /\ arrivals \in Nat
      /\ tracker.lost + (arrivals - tracker.reordered) = newest - oldest + 1
      /\ Cardinality(Missing) <= tracker.lost
      /\ tracker.lost - tracker.reordered <= Cardinality(Missing)
  BY <1>2 DEF TrackerTypes, Counting, CountersAddUp, LossIsBracketed
<1>5. /\ tracker'.latest = tracker.latest /\ tracker'.lost = tracker.lost
      /\ tracker'.reordered = tracker.reordered + 1
  BY <1>3 DEF TrackerTypes
<1>6. TrackerTypes'
  BY <1>1, <1>3 DEF TrackerTypes
<1>7. LatestIsNewest' /\ CountersAddUp'
  BY <1>1, <1>2, <1>4, <1>5 DEF LatestIsNewest, CountersAddUp, Counting
<1>8. IsFiniteSet(Missing) /\ Cardinality(Missing) \in Nat
  BY <1>2, MissingFinite
<1>9. Missing' = Missing \ {ordinal}
  BY <1>1 DEF Missing
<1>10. Cardinality(Missing') \in {Cardinality(Missing), Cardinality(Missing) - 1}
  BY <1>8, <1>9, FS_RemoveElement
<1>11. LossIsBracketed'
  BY <1>4, <1>5, <1>8, <1>10 DEF LossIsBracketed
<1>12. newest' \in Nat /\ oldest' \in 0 .. newest' /\ seen' \subseteq 0 .. newest'
  BY <1>1, <1>2 DEF Counting
<1>13. QED
  BY <1>6, <1>7, <1>11, <1>12 DEF Counting

-----------------------------------------------------------------------------
(* A new tracker, and one after reset(), satisfies the invariant.          *)
LEMMA Fresh_Inv ==
  /\ TrackerInit => TrackerInv
  /\ TrackerReset => TrackerInv'
BY DEF TrackerInit, TrackerReset, TrackerInv, TrackerTypes, NothingYet, FreshTracker

(***************************************************************************)
(* TrackerInv is an invariant, for every even modulus.                     *)
(***************************************************************************)
THEOREM TrackerInvariant == TrackerSpec => []TrackerInv
<1>1. TrackerInv /\ [TrackerNext]_trackerVars => TrackerInv'
  <2> SUFFICES ASSUME TrackerInv, [TrackerNext]_trackerVars PROVE TrackerInv'
    OBVIOUS
  <2>1. ASSUME NEW ordinal \in 0 .. MaxOrdinal, FirstArrives(ordinal) PROVE TrackerInv'
    BY <2>1, FirstArrives_Inv
  <2>2. ASSUME NEW ordinal \in 0 .. MaxOrdinal, LaterArrives(ordinal) PROVE TrackerInv'
    <3>1. Counting /\ TrackerTypes /\ ordinal \in Nat
      BY <2>2 DEF LaterArrives, TrackerInv, NothingYet
    <3>2. QED
      BY <2>2, <3>1, Ahead_Inv, Late_Inv DEF TrackerInv
  <2>3. CASE TrackerReset
    BY <2>3, Fresh_Inv
  <2>4. CASE UNCHANGED trackerVars
    BY <2>4 DEF trackerVars, TrackerInv, TrackerTypes, NothingYet, Counting, LatestIsNewest,
                CountersAddUp, LossIsBracketed, Missing
  <2>5. QED
    BY <2>1, <2>2, <2>3, <2>4 DEF TrackerNext
<1>2. QED
  BY <1>1, Fresh_Inv, PTL DEF TrackerSpec

(***************************************************************************)
(* latest is the newest packet's number, however often the numbers wrapped *)
(* and whatever came late.                                                 *)
(***************************************************************************)
THEOREM TrackerFollowsNewest == TrackerSpec => []LatestIsNewest
<1>1. TrackerInv => LatestIsNewest
  BY DEF TrackerInv, NothingYet, Counting, LatestIsNewest
<1>2. QED
  BY <1>1, TrackerInvariant, PTL

(***************************************************************************)
(* The counters never drift from the ordinals they stand for.              *)
(***************************************************************************)
THEOREM TrackerCounts == TrackerSpec => []CountersAddUp
<1>1. TrackerInv => CountersAddUp
  BY DEF TrackerInv, NothingYet, Counting, CountersAddUp
<1>2. QED
  BY <1>1, TrackerInvariant, PTL

(***************************************************************************)
(* lost bounds the packets really missing from above, lost - reordered     *)
(* from below.                                                             *)
(***************************************************************************)
THEOREM TrackerBracketsLoss == TrackerSpec => []LossIsBracketed
<1>1. TrackerInv => LossIsBracketed
  BY DEF TrackerInv, NothingYet, Counting, LossIsBracketed
<1>2. QED
  BY <1>1, TrackerInvariant, PTL

-----------------------------------------------------------------------------
(***************************************************************************)
(* The datagram.                                                           *)
(***************************************************************************)
(* Every member has one to four numbers of 1, 2, 4 or 8 bytes.             *)
LEMMA TypesShape ==
  ASSUME NEW name \in DOMAIN Types
  PROVE  /\ Types[name].components \in 1 .. 4
         /\ Types[name].width \in {1, 2, 4, 8}
         /\ SizeOf(name) \in Nat
BY DEF Types, Numeric, SizeOf

(* Where serialize writes its members: the offset after each of them.      *)
At == <<0, 4, 6, 10, 18, 19, 43, 67, 83, 87, 91, 99, 107, 111, 135, 159, 163>>

(* Every member starts where the one before ends.                          *)
LEMMA WriteSizes ==
  /\ Len(WriteOrder) = 16
  /\ \A n \in 1 .. 16 : /\ WriteOrder[n] \in DOMAIN Types
                        /\ At[n] \in Nat /\ At[n + 1] = At[n] + SizeOf(WriteOrder[n])
<1>1. Len(WriteOrder) = 16
  BY DEF WriteOrder
<1>2. ASSUME NEW n \in 1 .. 16 PROVE WriteOrder[n] \in DOMAIN Types
  BY DEF WriteOrder, Types
<1>3. ASSUME NEW n \in 1 .. 16 PROVE At[n] \in Nat /\ At[n + 1] = At[n] + SizeOf(WriteOrder[n])
  BY DEF WriteOrder, Types, At, SizeOf, Numeric
<1>4. QED
  BY <1>1, <1>2, <1>3

(* The members are read in the order they are written.                     *)
LEMMA ReadSizes ==
  /\ Len(ReadOrder) = 13
  /\ \A n \in 1 .. 13 : ReadOrder[n] \in FieldNames /\ ReadOrder[n] = WriteOrder[n + 2]
  /\ SizeOf("magic") + SizeOf("version") = At[3]
BY DEF ReadOrder, FieldNames, Types, WriteOrder, SizeOf, Numeric, At

-----------------------------------------------------------------------------
(* A byte as write_unsigned puts it there, and as it may arrive.           *)
BytesWith(damage) ==
  [name : DOMAIN Types \cup {"foreign"}, component : Nat, shift : Int, damage : damage]
WrittenBytes == BytesWith({"no"})
Bytes == BytesWith({"no", "other", "to_current"})

LEMMA ByteType ==
  ASSUME NEW name \in DOMAIN Types, NEW component \in Nat, NEW shift \in Int
  PROVE  Byte(name, component, shift) \in WrittenBytes
BY DEF Byte, WrittenBytes, BytesWith

(* The bytes of the c-th number of a member, most significant first.       *)
LEMMA MemberBytes ==
  ASSUME NEW name \in DOMAIN Types
  PROVE  /\ WriteMember(name) \in Seq(WrittenBytes)
         /\ Len(WriteMember(name)) = SizeOf(name)
         /\ \A c \in 1 .. Types[name].components, i \in 1 .. Types[name].width :
              /\ (c - 1) * Types[name].width + i \in 1 .. SizeOf(name)
              /\ WriteMember(name)[(c - 1) * Types[name].width + i]
                   = Byte(name, c, 8 * (Types[name].width - i))
<1> DEFINE w == Types[name].width
           m == Types[name].components
<1>1. m \in 1 .. 4 /\ w \in {1, 2, 4, 8} /\ SizeOf(name) = m * w /\ SizeOf(name) \in Nat
  BY TypesShape DEF SizeOf
<1> HIDE DEF w, m
<1>2. WriteMember(name) = [k \in 1 .. SizeOf(name) |->
                             write_unsigned(name, (k - 1) \div w + 1, w)[((k - 1) % w) + 1]]
  BY DEF WriteMember, w
<1>3. ASSUME NEW k \in 1 .. SizeOf(name)
      PROVE  /\ (k - 1) \div w + 1 \in Nat /\ ((k - 1) % w) + 1 \in 1 .. w
             /\ WriteMember(name)[k]
                  = Byte(name, (k - 1) \div w + 1, 8 * (w - (((k - 1) % w) + 1)))
  <2>1. (k - 1) \div w + 1 \in Nat /\ ((k - 1) % w) + 1 \in 1 .. w
    BY <1>1
  <2>2. QED
    BY <2>1, <1>2 DEF write_unsigned
<1>4. ASSUME NEW k \in 1 .. SizeOf(name) PROVE WriteMember(name)[k] \in WrittenBytes
  <2>1. 8 * (w - (((k - 1) % w) + 1)) \in Int
    BY <1>1, <1>3
  <2>2. QED
    BY <2>1, <1>3, ByteType
<1>5. ASSUME NEW c \in 1 .. m, NEW i \in 1 .. w
      PROVE  /\ (c - 1) * w + i \in 1 .. SizeOf(name)
             /\ WriteMember(name)[(c - 1) * w + i] = Byte(name, c, 8 * (w - i))
  <2> DEFINE k == (c - 1) * w + i
  <2>1. k \in 1 .. SizeOf(name) /\ (k - 1) \div w = c - 1 /\ (k - 1) % w = i - 1
    BY <1>1
  <2> HIDE DEF k
  <2>2. WriteMember(name)[k] = Byte(name, (c - 1) + 1, 8 * (w - ((i - 1) + 1)))
    BY <2>1, <1>3
  <2>3. (c - 1) + 1 = c /\ (i - 1) + 1 = i
    BY <1>1
  <2>4. QED
    BY <2>1, <2>2, <2>3 DEF k
<1>6. WriteMember(name) \in Seq(WrittenBytes) /\ Len(WriteMember(name)) = SizeOf(name)
  BY <1>1, <1>2, <1>4
<1>7. QED
  BY <1>5, <1>6 DEF w, m

-----------------------------------------------------------------------------
(***************************************************************************)
(* The recursive function Written exists: it can be given up to any n.     *)
(***************************************************************************)
WrittenTo(n) ==
  \E g \in [0 .. n -> Seq(WrittenBytes)] :
    /\ g[0] = <<>>
    /\ \A i \in 1 .. n : g[i] = g[i - 1] \o WriteMember(WriteOrder[i])

LEMMA WrittenFurther ==
  ASSUME NEW n \in 1 .. 16, WrittenTo(n - 1) PROVE WrittenTo(n)
<1>1. PICK g \in [0 .. n - 1 -> Seq(WrittenBytes)] :
        /\ g[0] = <<>>
        /\ \A i \in 1 .. n - 1 : g[i] = g[i - 1] \o WriteMember(WriteOrder[i])
  BY DEF WrittenTo
<1> DEFINE next == g[n - 1] \o WriteMember(WriteOrder[n])
           h == [i \in 0 .. n |-> IF i = n THEN next ELSE g[i]]
<1>2. next \in Seq(WrittenBytes)
  <2>1. g[n - 1] \in Seq(WrittenBytes)
    BY <1>1
  <2>2. WriteMember(WriteOrder[n]) \in Seq(WrittenBytes)
    BY WriteSizes, MemberBytes
  <2>3. QED
    BY <2>1, <2>2
<1>3. h \in [0 .. n -> Seq(WrittenBytes)]
  BY <1>1, <1>2
<1>4. h[0] = <<>> /\ \A i \in 1 .. n : h[i] = h[i - 1] \o WriteMember(WriteOrder[i])
  BY <1>1
<1>5. QED
  BY <1>3, <1>4 DEF WrittenTo

LEMMA WrittenUnfolds ==
  /\ Written[0] = <<>>
  /\ \A n \in 1 .. 16 : Written[n] = Written[n - 1] \o WriteMember(WriteOrder[n])
<1>0. WrittenTo(0)
  <2> DEFINE g == [i \in 0 .. 0 |-> <<>>]
  <2>1. g \in [0 .. 0 -> Seq(WrittenBytes)]
    OBVIOUS
  <2>2. g[0] = <<>> /\ \A i \in 1 .. 0 : g[i] = g[i - 1] \o WriteMember(WriteOrder[i])
    OBVIOUS
  <2> HIDE DEF g
  <2>3. QED
    BY <2>1, <2>2 DEF WrittenTo
<1>1. WrittenTo(4)
  BY <1>0, WrittenFurther, SMT
<1>2. WrittenTo(8)
  BY <1>1, WrittenFurther
<1>3. WrittenTo(12)
  BY <1>2, WrittenFurther
<1>4. WrittenTo(16)
  BY <1>3, WrittenFurther
<1>5. PICK g \in [0 .. 16 -> Seq(WrittenBytes)] :
        /\ g[0] = <<>>
        /\ \A i \in 1 .. 16 : g[i] = g[i - 1] \o WriteMember(WriteOrder[i])
  BY <1>4 DEF WrittenTo
<1>6. g = [n \in 0 .. 16 |-> IF n = 0 THEN <<>> ELSE g[n - 1] \o WriteMember(WriteOrder[n])]
  <2>1. \A n \in 0 .. 16 :
          g[n] = IF n = 0 THEN <<>> ELSE g[n - 1] \o WriteMember(WriteOrder[n])
    <3> SUFFICES ASSUME NEW n \in 0 .. 16
                 PROVE  g[n] = IF n = 0 THEN <<>> ELSE g[n - 1] \o WriteMember(WriteOrder[n])
      OBVIOUS
    <3>1. CASE n = 0
      BY <3>1, <1>5
    <3>2. CASE n # 0
      BY <3>2, <1>5, n \in 1 .. 16
    <3>3. QED
      BY <3>1, <3>2
  <2>2. g = [n \in 0 .. 16 |-> g[n]]
    BY <1>5
  <2>3. QED
    BY <2>1, <2>2
<1>7. Written = [n \in 0 .. 16 |->
                   IF n = 0 THEN <<>> ELSE Written[n - 1] \o WriteMember(WriteOrder[n])]
  BY <1>6, WriteSizes DEF Written
<1>8. /\ Written[0] = <<>>
      /\ \A n \in 1 .. 16 : Written[n] = Written[n - 1] \o WriteMember(WriteOrder[n])
  <2>1. \A n \in 0 .. 16 :
          Written[n] = IF n = 0 THEN <<>> ELSE Written[n - 1] \o WriteMember(WriteOrder[n])
    BY <1>7, Zenon
  <2>2. ASSUME NEW n \in 1 .. 16
        PROVE  Written[n] = Written[n - 1] \o WriteMember(WriteOrder[n])
    BY <2>1, n \in 0 .. 16, n # 0
  <2>3. 0 \in 0 .. 16
    OBVIOUS
  <2>4. QED
    BY <2>1, <2>2, <2>3
<1>9. QED
  BY <1>8

-----------------------------------------------------------------------------
LEMMA AtGrows ==
  \A m, n \in 1 .. 17 : m <= n => At[m] \in Nat /\ At[n] \in Nat /\ At[m] <= At[n]
BY DEF At

(* After n members each of them is where At says.                          *)
WrittenUpTo(n) ==
  /\ Written[n] \in Seq(WrittenBytes) /\ Len(Written[n]) = At[n + 1]
  /\ \A m \in 1 .. n, k \in Nat \ {0} :
       k <= SizeOf(WriteOrder[m])
         => Written[n][At[m] + k] = WriteMember(WriteOrder[m])[k]

LEMMA MemberWritten ==
  ASSUME NEW n \in 1 .. 16, WrittenUpTo(n - 1) PROVE WrittenUpTo(n)
<1> DEFINE before == Written[n - 1]
           member == WriteMember(WriteOrder[n])
<1>1. before \in Seq(WrittenBytes) /\ Len(before) = At[n]
  BY DEF WrittenUpTo
<1>2. /\ member \in Seq(WrittenBytes) /\ Len(member) = SizeOf(WriteOrder[n])
      /\ SizeOf(WriteOrder[n]) \in Nat
  BY WriteSizes, MemberBytes, TypesShape
<1>3. At[n] \in Nat /\ At[n + 1] = At[n] + SizeOf(WriteOrder[n])
  BY WriteSizes
<1>4. Written[n] = before \o member
  BY WrittenUnfolds
<1> HIDE DEF before, member
<1>5. Written[n] \in Seq(WrittenBytes) /\ Len(Written[n]) = At[n + 1]
  <2>1. before \o member \in Seq(WrittenBytes)
    BY <1>1, <1>2
  <2>2. Len(before \o member) = At[n] + SizeOf(WriteOrder[n])
    BY <1>1, <1>2
  <2>3. QED
    BY <1>3, <1>4, <2>1, <2>2
<1>6. ASSUME NEW m \in 1 .. n, NEW k \in Nat \ {0}, k <= SizeOf(WriteOrder[m])
      PROVE  Written[n][At[m] + k] = WriteMember(WriteOrder[m])[k]
  <2>1. CASE m = n
    <3>1. Written[n][At[n] + k] = member[k]
      BY <1>1, <1>2, <1>3, <1>4, <1>6, <2>1
    <3>2. QED
      BY <2>1, <3>1 DEF member
  <2>2. CASE m # n
    <3>1. m \in 1 .. n - 1
      BY <2>2
    <3>2. /\ At[m] \in Nat /\ At[m + 1] = At[m] + SizeOf(WriteOrder[m])
          /\ SizeOf(WriteOrder[m]) \in Nat
      BY WriteSizes, TypesShape
    <3>3. At[m + 1] <= At[n]
      BY <3>1, AtGrows
    <3>4. At[m] + k \in 1 .. Len(before)
      BY <1>1, <1>3, <1>6, <3>2, <3>3
    <3>5. Written[n][At[m] + k] = before[At[m] + k]
      BY <1>1, <1>2, <1>4, <3>4
    <3>6. QED
      BY <1>6, <3>1, <3>5 DEF before, WrittenUpTo
  <2>3. QED
    BY <2>1, <2>2
<1>7. QED
  BY <1>5, <1>6 DEF WrittenUpTo

(* serialize fills the packet: 163 bytes, every number at its place.       *)
LEMMA Layout ==
  /\ serialize \in Seq(WrittenBytes) /\ Len(serialize) = kTelemetryPacketSize
  /\ \A n \in 1 .. 16 :
       \A c \in 1 .. Types[WriteOrder[n]].components, i \in 1 .. Types[WriteOrder[n]].width :
         serialize[At[n] + (c - 1) * Types[WriteOrder[n]].width + i]
           = Byte(WriteOrder[n], c, 8 * (Types[WriteOrder[n]].width - i))
<1>0. WrittenUpTo(0)
  BY WrittenUnfolds DEF WrittenUpTo, At
<1>1. WrittenUpTo(4)
  BY <1>0, MemberWritten
<1>2. WrittenUpTo(8)
  BY <1>1, MemberWritten
<1>3. WrittenUpTo(12)
  BY <1>2, MemberWritten
<1>4. WrittenUpTo(16)
  BY <1>3, MemberWritten
<1>5. serialize = Written[16]
  BY WriteSizes DEF serialize
<1>6. serialize \in Seq(WrittenBytes) /\ Len(serialize) = kTelemetryPacketSize
  BY <1>4, <1>5 DEF WrittenUpTo, At, kTelemetryPacketSize
<1>7. ASSUME NEW n \in 1 .. 16,
             NEW c \in 1 .. Types[WriteOrder[n]].components,
             NEW i \in 1 .. Types[WriteOrder[n]].width
      PROVE  serialize[At[n] + (c - 1) * Types[WriteOrder[n]].width + i]
               = Byte(WriteOrder[n], c, 8 * (Types[WriteOrder[n]].width - i))
  <2> DEFINE name == WriteOrder[n]
             w == Types[name].width
             k == (c - 1) * w + i
  <2>1. name \in DOMAIN Types /\ At[n] \in Nat /\ SizeOf(name) \in Nat
    BY WriteSizes, TypesShape
  <2>2. k \in 1 .. SizeOf(name) /\ WriteMember(name)[k] = Byte(name, c, 8 * (w - i))
    BY <2>1, MemberBytes
  <2>3. c \in Int /\ w \in Int /\ i \in Int
    BY <2>1, TypesShape
  <2> HIDE DEF name
  <2>4. (c - 1) * w \in Int
    BY <2>3
  <2>5. At[n] + (c - 1) * w + i = At[n] + k
    BY <2>1, <2>3, <2>4
  <2> HIDE DEF k
  <2>6. serialize[At[n] + k] = WriteMember(name)[k]
    <3>1. \A m \in 1 .. 16, j \in Nat \ {0} :
            j <= SizeOf(WriteOrder[m])
              => serialize[At[m] + j] = WriteMember(WriteOrder[m])[j]
      BY <1>4, <1>5 DEF WrittenUpTo
    <3>2. k \in Nat \ {0} /\ k <= SizeOf(WriteOrder[n])
      BY <2>1, <2>2 DEF name
    <3>3. QED
      BY <3>1, <3>2 DEF name
  <2>7. QED
    BY <2>2, <2>5, <2>6 DEF name
<1>8. QED
  BY <1>6, <1>7

(* What a decoder reads at the place of a number is that number.           *)
LEMMA ReadsBack ==
  ASSUME NEW n \in 1 .. 16, NEW c \in 1 .. Types[WriteOrder[n]].components
  PROVE  read_unsigned(serialize, At[n] + (c - 1) * Types[WriteOrder[n]].width,
                       Types[WriteOrder[n]].width)
           = <<WriteOrder[n], c>>
<1> DEFINE name == WriteOrder[n]
           w == Types[name].width
           o == At[n] + (c - 1) * w
<1>1. name \in DOMAIN Types /\ w \in {1, 2, 4, 8}
  BY WriteSizes, TypesShape
<1>2. \A i \in 1 .. w : serialize[o + i] = Byte(name, c, 8 * (w - i))
  BY Layout
<1> HIDE DEF o, w, name
<1>3. serialize[o + 1] = Byte(name, c, 8 * (w - 1))
  BY <1>1, <1>2
<1>4. serialize[o + 1].name = name /\ serialize[o + 1].component = c
  BY <1>3 DEF Byte
<1>5. read_unsigned(serialize, o, w) = <<name, c>>
  BY <1>2, <1>4 DEF read_unsigned
<1>6. QED
  BY <1>5 DEF o, w, name

-----------------------------------------------------------------------------
(* The offset deserialize advances runs through the places serialize used. *)
LEMMA ReadOffsets ==
  \A n \in 1 .. 13 : ReadOffset[n] = At[n + 2]
<1> DEFINE Next1(f, n) == IF n = 1 THEN SizeOf("magic") + SizeOf("version")
                                   ELSE f[n - 1] + SizeOf(ReadOrder[n - 1])
           g == [n \in 1 .. 14 |-> At[n + 2]]
<1>1. \A n \in 2 .. 14 : At[n + 2] = At[n + 1] + SizeOf(ReadOrder[n - 1])
  <2> SUFFICES ASSUME NEW n \in 2 .. 14 PROVE At[n + 2] = At[n + 1] + SizeOf(ReadOrder[n - 1])
    OBVIOUS
  <2>1. n - 1 \in 1 .. 13 /\ n + 1 \in 1 .. 16 /\ (n - 1) + 2 = n + 1 /\ (n + 1) + 1 = n + 2
    OBVIOUS
  <2>2. ReadOrder[n - 1] = WriteOrder[(n - 1) + 2]
    BY <2>1, ReadSizes
  <2>3. At[(n + 1) + 1] = At[n + 1] + SizeOf(WriteOrder[n + 1])
    BY <2>1, WriteSizes
  <2>4. QED
    BY <2>1, <2>2, <2>3
<1>2. \A n \in 1 .. 14 : g[n] = Next1(g, n)
  <2> SUFFICES ASSUME NEW n \in 1 .. 14 PROVE g[n] = Next1(g, n)
    OBVIOUS
  <2>1. CASE n = 1
    BY <2>1, ReadSizes
  <2>2. CASE n # 1
    <3>1. n \in 2 .. 14 /\ n - 1 \in 1 .. 14 /\ (n - 1) + 2 = n + 1
      BY <2>2
    <3>2. g[n] = At[n + 2] /\ g[n - 1] = At[n + 1]
      BY <3>1
    <3>3. QED
      BY <2>2, <3>1, <3>2, <1>1
  <2>3. QED
    BY <2>1, <2>2
<1>3. g = [n \in 1 .. 14 |-> Next1(g, n)]
  BY <1>2
<1>4. Len(ReadOrder) + 1 = 14
  BY ReadSizes
<1>5. ReadOffset = [n \in 1 .. 14 |-> Next1(ReadOffset, n)]
  BY <1>3, <1>4 DEF ReadOffset
<1>6. \A n \in 1 .. 14 : ReadOffset[n] = Next1(ReadOffset, n)
  BY <1>5, Zenon
<1>7. ReadOffset[1] = At[3]
  BY <1>6, ReadSizes
<1>8. ASSUME NEW n \in 2 .. 14, ReadOffset[n - 1] = At[n + 1]
      PROVE  ReadOffset[n] = At[n + 2]
  BY <1>1, <1>6, <1>8, n # 1, n \in 1 .. 14
<1> HIDE DEF Next1, g
<1>9. ReadOffset[2] = At[4] /\ ReadOffset[3] = At[5] /\ ReadOffset[4] = At[6]
  BY <1>7, <1>8
<1>10. ReadOffset[5] = At[7] /\ ReadOffset[6] = At[8] /\ ReadOffset[7] = At[9]
  BY <1>8, <1>9
<1>11. ReadOffset[8] = At[10] /\ ReadOffset[9] = At[11] /\ ReadOffset[10] = At[12]
  BY <1>8, <1>10
<1>12. ReadOffset[11] = At[13] /\ ReadOffset[12] = At[14] /\ ReadOffset[13] = At[15]
  BY <1>8, <1>11
<1>13. QED
  BY <1>7, <1>9, <1>10, <1>11, <1>12

(* deserialize puts in every member what was serialized in it.             *)
LEMMA CppReads == ReadFields(serialize) = Serialized
<1> SUFFICES ASSUME NEW name \in FieldNames, NEW c \in 1 .. Types[name].components
             PROVE  read_unsigned(serialize,
                      ReadOffset[CHOOSE m \in DOMAIN ReadOrder : ReadOrder[m] = name]
                        + (c - 1) * Types[name].width,
                      Types[name].width) = <<name, c>>
  BY DEF ReadFields, Serialized
<1> DEFINE n == CHOOSE m \in DOMAIN ReadOrder : ReadOrder[m] = name
<1>1. \E m \in DOMAIN ReadOrder : ReadOrder[m] = name
  BY DEF ReadOrder, FieldNames, Types
<1>2. DOMAIN ReadOrder = 1 .. 13
  BY DEF ReadOrder
<1>3. n \in 1 .. 13 /\ ReadOrder[n] = name
  BY <1>1, <1>2
<1> HIDE DEF n
<1>4. n + 2 \in 1 .. 16 /\ WriteOrder[n + 2] = name
  BY <1>3, ReadSizes
<1>5. ReadOffset[n] = At[n + 2]
  BY <1>3, ReadOffsets
<1>6. read_unsigned(serialize, At[n + 2] + (c - 1) * Types[name].width, Types[name].width)
        = <<name, c>>
  BY <1>4, ReadsBack
<1>7. QED
  BY <1>5, <1>6 DEF n

(* The literal offsets of decodeTelemetry for one member.                  *)
TsReadsAt(name, at) ==
  /\ TsReads[name].width = Types[name].width
  /\ DOMAIN TsReads[name].offsets = 1 .. Types[name].components
  /\ \A c \in 1 .. Types[name].components :
       TsReads[name].offsets[c] = at + (c - 1) * Types[name].width

(* They are the places serialize used.                                     *)
LEMMA TsOffsets ==
  ASSUME NEW n \in 1 .. 13
  PROVE  TsReadsAt(ReadOrder[n], At[n + 2])
<1>1. /\ TsReads["sequence"] = Read(4, <<6>>)
      /\ TsReads["timestamp_us"] = Read(8, <<10>>)
      /\ TsReads["mission_phase"] = Read(1, <<18>>)
      /\ TsReads["position_m"] = Read(8, <<19, 27, 35>>)
      /\ TsReads["velocity_mps"] = Read(8, <<43, 51, 59>>)
      /\ TsReads["orientation_wxyz"] = Read(4, <<67, 71, 75, 79>>)
      /\ TsReads["thrust_percent"] = Read(4, <<83>>)
      /\ TsReads["chamber_pressure_mpa"] = Read(4, <<87>>)
      /\ TsReads["gimbal_command_deg"] = Read(4, <<91, 95>>)
      /\ TsReads["grid_fin_command_deg"] = Read(4, <<99, 103>>)
      /\ TsReads["fault_flags"] = Read(4, <<107>>)
      /\ TsReads["truth_position_m"] = Read(8, <<111, 119, 127>>)
      /\ TsReads["truth_velocity_mps"] = Read(8, <<135, 143, 151>>)
  BY DEF TsReads
<1>2. /\ Types["sequence"] = Numeric(1, 4)
      /\ Types["timestamp_us"] = Numeric(1, 8)
      /\ Types["mission_phase"] = Numeric(1, 1)
      /\ Types["position_m"] = Numeric(3, 8)
      /\ Types["velocity_mps"] = Numeric(3, 8)
      /\ Types["orientation_wxyz"] = Numeric(4, 4)
      /\ Types["thrust_percent"] = Numeric(1, 4)
      /\ Types["chamber_pressure_mpa"] = Numeric(1, 4)
      /\ Types["gimbal_command_deg"] = Numeric(2, 4)
      /\ Types["grid_fin_command_deg"] = Numeric(2, 4)
      /\ Types["fault_flags"] = Numeric(1, 4)
      /\ Types["truth_position_m"] = Numeric(3, 8)
      /\ Types["truth_velocity_mps"] = Numeric(3, 8)
  BY DEF Types
<1>3. TsReadsAt("sequence", 6)
  BY <1>1, <1>2 DEF TsReadsAt, Read, Numeric
<1>4. TsReadsAt("timestamp_us", 10)
  BY <1>1, <1>2 DEF TsReadsAt, Read, Numeric
<1>5. TsReadsAt("mission_phase", 18)
  BY <1>1, <1>2 DEF TsReadsAt, Read, Numeric
<1>6. TsReadsAt("position_m", 19)
  BY <1>1, <1>2 DEF TsReadsAt, Read, Numeric
<1>7. TsReadsAt("velocity_mps", 43)
  BY <1>1, <1>2 DEF TsReadsAt, Read, Numeric
<1>8. TsReadsAt("orientation_wxyz", 67)
  BY <1>1, <1>2 DEF TsReadsAt, Read, Numeric
<1>9. TsReadsAt("thrust_percent", 83)
  BY <1>1, <1>2 DEF TsReadsAt, Read, Numeric
<1>10. TsReadsAt("chamber_pressure_mpa", 87)
  BY <1>1, <1>2 DEF TsReadsAt, Read, Numeric
<1>11. TsReadsAt("gimbal_command_deg", 91)
  BY <1>1, <1>2 DEF TsReadsAt, Read, Numeric
<1>12. TsReadsAt("grid_fin_command_deg", 99)
  BY <1>1, <1>2 DEF TsReadsAt, Read, Numeric
<1>13. TsReadsAt("fault_flags", 107)
  BY <1>1, <1>2 DEF TsReadsAt, Read, Numeric
<1>14. TsReadsAt("truth_position_m", 111)
  BY <1>1, <1>2 DEF TsReadsAt, Read, Numeric
<1>15. TsReadsAt("truth_velocity_mps", 135)
  BY <1>1, <1>2 DEF TsReadsAt, Read, Numeric
<1>16. QED
  BY <1>3, <1>4, <1>5, <1>6, <1>7, <1>8, <1>9, <1>10, <1>11, <1>12, <1>13, <1>14, <1>15 DEF ReadOrder, At

LEMMA TypeScriptReads ==
  ASSUME NEW name \in FieldNames, name = "timestamp_us" => telemetry.timeFits
  PROVE  SampleRead(serialize)[name] = Serialized[name]
<1> SUFFICES [c \in DOMAIN TsReads[name].offsets |-> TsNumber(serialize, name, c)]
               = [c \in 1 .. Types[name].components |-> <<name, c>>]
  BY DEF Serialized, SampleRead
<1>0. \A c : TsNumber(serialize, name, c)
               = read_unsigned(serialize, TsReads[name].offsets[c], TsReads[name].width)
  BY DEF TsNumber
<1>1. PICK n \in 1 .. 13 : ReadOrder[n] = name
  BY DEF ReadOrder, FieldNames, Types
<1>2. n + 2 \in 1 .. 16 /\ WriteOrder[n + 2] = name
  BY <1>1, ReadSizes
<1>3. \A c \in 1 .. Types[name].components :
        read_unsigned(serialize, At[n + 2] + (c - 1) * Types[name].width, Types[name].width)
          = <<name, c>>
  BY <1>2, ReadsBack
<1>4. /\ TsReads[name].width = Types[name].width
      /\ DOMAIN TsReads[name].offsets = 1 .. Types[name].components
      /\ \A c \in 1 .. Types[name].components :
           TsReads[name].offsets[c] = At[n + 2] + (c - 1) * Types[name].width
  BY <1>1, TsOffsets DEF TsReadsAt
<1>5. QED
  BY <1>0, <1>3, <1>4

-----------------------------------------------------------------------------
(***************************************************************************)
(* The inductive invariant: the datagram is foreign, or what serialize     *)
(* wrote except where a byte is damaged, and a result is that of the       *)
(* datagram still on the table.                                            *)
(***************************************************************************)
Foreign == \A i \in DOMAIN datagram : datagram[i].name = "foreign"

Sent ==
  /\ telemetry \in Telemetries
  /\ Len(datagram) = Len(serialize)
  /\ \A i \in DOMAIN datagram : datagram[i].damage = "no" => datagram[i] = serialize[i]

WireInv ==
  /\ telemetry \in Telemetries \cup {NoTelemetry}
  /\ datagram \in Seq(Bytes)
  /\ Foreign \/ Sent
  /\ cpp # NoResult => cpp = deserialize(datagram) /\ ts = decodeTelemetry(datagram)

LEMMA WireInit_Inv == WireInit => WireInv
BY DEF WireInit, WireInv, Foreign

(* The decoders look at the datagram and at what its numbers stand for.    *)
LEMMA DecodersLook ==
  ASSUME UNCHANGED <<telemetry, datagram>>
  PROVE  /\ deserialize(datagram)' = deserialize(datagram)
         /\ decodeTelemetry(datagram)' = decodeTelemetry(datagram)
BY DEF deserialize, decodeTelemetry, MagicRead, VersionRead, ChecksumMatches, ReadFields,
       SampleRead, TsNumber, SanityError, PhaseRead, read_unsigned, Byte

LEMMA Sends_Inv ==
  ASSUME WireInv, Sends PROVE WireInv'
<1>1. /\ serialize \in Seq(WrittenBytes) /\ WrittenBytes \subseteq Bytes
  BY Layout DEF WrittenBytes, Bytes, BytesWith
<1>2. datagram' \in Seq(Bytes)
  BY <1>1 DEF Sends
<1>3. Sent'
  BY DEF Sends, Sent
<1>4. QED
  BY <1>2, <1>3 DEF Sends, WireInv, Sent

LEMMA ForeignSends_Inv ==
  ASSUME WireInv, NEW size \in Sizes, ForeignSends(size) PROVE WireInv'
<1>1. size \in Nat
  BY SizesAssumption
<1>2. Byte("foreign", 1, 0) \in Bytes /\ Byte("foreign", 1, 0).name = "foreign"
  BY DEF Byte, Bytes, BytesWith
<1>3. datagram' \in Seq(Bytes) /\ Foreign'
  BY <1>1, <1>2 DEF ForeignSends, Foreign
<1>4. QED
  BY <1>3 DEF ForeignSends, WireInv

LEMMA Damages_Inv ==
  ASSUME WireInv, NEW i \in 1 .. kTelemetryPacketSize,
         NEW damage \in {"other", "to_current"}, Damages(i, damage)
  PROVE  WireInv'
<1>1. /\ i \in DOMAIN datagram /\ datagram \in Seq(Bytes)
      /\ datagram' = [datagram EXCEPT ![i] = [datagram[i] EXCEPT !.damage = damage]]
  BY DEF Damages, WireInv
<1>2. /\ datagram[i] \in Bytes
      /\ [datagram[i] EXCEPT !.damage = damage] \in Bytes
      /\ [datagram[i] EXCEPT !.damage = damage].name = datagram[i].name
      /\ [datagram[i] EXCEPT !.damage = damage].damage # "no"
  <2>1. datagram[i] \in Bytes
    BY <1>1
  <2>2. QED
    BY <2>1 DEF Bytes, BytesWith
<1>3. /\ datagram' \in Seq(Bytes) /\ Len(datagram') = Len(datagram)
      /\ DOMAIN datagram' = DOMAIN datagram
      /\ \A j \in DOMAIN datagram :
           datagram'[j] = IF j = i THEN [datagram[i] EXCEPT !.damage = damage]
                                   ELSE datagram[j]
  BY <1>1, <1>2
<1>4. (Foreign \/ Sent)'
  <2>1. CASE Foreign
    BY <2>1, <1>2, <1>3 DEF Foreign
  <2>2. CASE Sent
    BY <2>2, <1>2, <1>3 DEF Sent, Damages
  <2>3. QED
    BY <2>1, <2>2 DEF WireInv
<1>5. QED
  BY <1>3, <1>4 DEF Damages, WireInv

LEMMA Arrives_Inv ==
  ASSUME WireInv, Arrives PROVE WireInv'
BY DecodersLook DEF Arrives, WireInv, Foreign, Sent

LEMMA WireNext_Inv ==
  ASSUME WireInv, [WireNext]_wireVars PROVE WireInv'
<1>1. CASE UNCHANGED wireVars
  BY <1>1, DecodersLook DEF wireVars, WireInv, Foreign, Sent
<1>2. QED
  BY <1>1, Sends_Inv, ForeignSends_Inv, Damages_Inv, Arrives_Inv DEF WireNext

THEOREM WireInvariant == WireSpec => []WireInv
<1>1. WireInv /\ [WireNext]_wireVars => WireInv'
  BY WireNext_Inv
<1>2. QED
  BY <1>1, WireInit_Inv, PTL DEF WireSpec

-----------------------------------------------------------------------------
(* The constants of the two receivers agree.                               *)
LEMMA OwnCopies ==
  /\ TELEMETRY_MAGIC = kTelemetryMagic /\ TELEMETRY_VERSION = kTelemetryVersion
  /\ TELEMETRY_PACKET_SIZE = kTelemetryPacketSize
  /\ CRC_OFFSET = 159 /\ kCrcOffset = 159
BY DEF TELEMETRY_MAGIC, TELEMETRY_VERSION, TELEMETRY_PACKET_SIZE, CRC_OFFSET,
       kTelemetryMagic, kTelemetryVersion, kTelemetryPacketSize, kCrcOffset

(* A datagram either decoder accepts has passed the four tests.            *)
LEMMA Accepted ==
  ASSUME NEW bytes, deserialize(bytes).error = "none" \/ decodeTelemetry(bytes).error = "none"
  PROVE  /\ Len(bytes) = kTelemetryPacketSize
         /\ MagicRead(bytes) = kTelemetryMagic
         /\ VersionRead(bytes) = kTelemetryVersion
         /\ ChecksumMatches(bytes, 159)
<1>1. CASE deserialize(bytes).error = "none"
  BY <1>1 DEF deserialize, Rejected, kCrcOffset
<1>2. CASE decodeTelemetry(bytes).error = "none"
  BY <1>2, OwnCopies DEF decodeTelemetry, Rejected
<1>3. QED
  BY <1>1, <1>2

(* Reading a number means its bytes are there, undamaged.                  *)
LEMMA NumberRead ==
  ASSUME NEW bytes, NEW offset, NEW width \in Nat, NEW name \in DOMAIN Types, NEW c,
         read_unsigned(bytes, offset, width) = <<name, c>>
  PROVE  /\ bytes[offset + 1].name = name
         /\ \A i \in 1 .. width : bytes[offset + i] = Byte(name, c, 8 * (width - i))
<1>1. name # "garbage"
  BY DEF Types
<1>2. read_unsigned(bytes, offset, width) # Garbage
  BY <1>1 DEF Garbage
<1>3. /\ <<bytes[offset + 1].name, bytes[offset + 1].component>> = <<name, c>>
      /\ \A i \in 1 .. width :
           bytes[offset + i] = Byte(bytes[offset + 1].name, bytes[offset + 1].component,
                                    8 * (width - i))
  BY <1>2 DEF read_unsigned
<1>4. QED
  BY <1>3

(***************************************************************************)
(* What either decoder accepts is an undamaged packet of this version.     *)
(***************************************************************************)
LEMMA AcceptedIsIntact ==
  ASSUME WireInv,
         deserialize(datagram).error = "none" \/ decodeTelemetry(datagram).error = "none"
  PROVE  telemetry # NoTelemetry /\ Intact /\ Current
<1>1. /\ Len(datagram) = 163
      /\ MagicRead(datagram) = kTelemetryMagic
      /\ VersionRead(datagram) = kTelemetryVersion
      /\ ChecksumMatches(datagram, 159)
  BY Accepted DEF kTelemetryPacketSize
<1>0. \A i \in 1 .. 159 : datagram[i].damage = "no"
  BY <1>1 DEF ChecksumMatches
<1>2. read_unsigned(datagram, 0, 4) = <<"magic", 1>> /\ telemetry.magic = kTelemetryMagic
  <2>1. \A i \in 1 .. 4 : datagram[i].damage # "to_current"
    BY <1>0
  <2>2. QED
    BY <1>1, <2>1 DEF MagicRead, kTelemetryMagic
<1>3. telemetry.version = kTelemetryVersion
  <2>1. \A i \in 5 .. 6 : datagram[i].damage # "to_current"
    BY <1>0
  <2>2. QED
    BY <1>1, <2>1 DEF VersionRead, kTelemetryVersion
<1>4. datagram \in Seq(Bytes) /\ DOMAIN datagram = 1 .. 163
  BY <1>1 DEF WireInv
<1>5. Sent
  <2>1. "magic" \in DOMAIN Types
    BY DEF Types
  <2>2. datagram[0 + 1].name = "magic"
    BY <1>2, <2>1, NumberRead
  <2>3. ~Foreign
    BY <2>2, <1>4, 0 + 1 \in 1 .. 163, "magic" # "foreign" DEF Foreign
  <2>4. QED
    BY <2>3 DEF WireInv
<1>6. \A i \in 1 .. 163 : datagram[i].damage = "no"
  <2>1. /\ \A i \in 1 .. 159 : datagram[i].damage = "no"
        /\ read_unsigned(datagram, 159, 4) = <<"crc32", 1>>
    BY <1>1 DEF ChecksumMatches
  <2>2. "crc32" \in DOMAIN Types
    BY DEF Types
  <2>3. \A i \in 1 .. 4 : datagram[159 + i] = Byte("crc32", 1, 8 * (4 - i))
    BY <2>1, <2>2, NumberRead
  <2>4. \A i \in 1 .. 4 : datagram[159 + i].damage = "no"
    BY <2>3 DEF Byte
  <2>5. ASSUME NEW i \in 160 .. 163 PROVE datagram[i].damage = "no"
    BY <2>4, i - 159 \in 1 .. 4, 159 + (i - 159) = i
  <2>6. \A i \in 1 .. 163 : i \in 1 .. 159 \/ i \in 160 .. 163
    OBVIOUS
  <2>7. \A i \in 160 .. 163 : datagram[i].damage = "no"
    BY <2>5
  <2>8. QED
    BY <2>1, <2>6, <2>7
<1>7. datagram = serialize
  <2>1. serialize \in Seq(WrittenBytes) /\ Len(serialize) = 163
    BY Layout DEF kTelemetryPacketSize
  <2>2. \A i \in 1 .. 163 : datagram[i] = serialize[i]
    BY <1>4, <1>5, <1>6 DEF Sent
  <2>3. /\ datagram = [i \in 1 .. 163 |-> datagram[i]]
        /\ serialize = [i \in 1 .. 163 |-> serialize[i]]
    BY <1>1, <1>4, <2>1
  <2>4. QED
    BY <2>2, <2>3
<1>8. telemetry # NoTelemetry
  BY <1>2 DEF NoTelemetry, kTelemetryMagic
<1>9. QED
  BY <1>2, <1>3, <1>7, <1>8 DEF Intact, Current

(***************************************************************************)
(* The bytes of a serialized packet pass the tests of both decoders.       *)
(***************************************************************************)
LEMMA SerializedPasses ==
  /\ MagicRead(serialize) = telemetry.magic
  /\ VersionRead(serialize) = telemetry.version
  /\ PhaseRead(serialize) = telemetry.phase
  /\ ChecksumMatches(serialize, 159)
<1>1. /\ WriteOrder[1] = "magic" /\ WriteOrder[2] = "version"
      /\ WriteOrder[5] = "mission_phase" /\ WriteOrder[16] = "crc32"
  BY DEF WriteOrder
<1>2. /\ Types["magic"].components = 1 /\ Types["magic"].width = 4
      /\ Types["version"].components = 1 /\ Types["version"].width = 2
      /\ Types["mission_phase"].components = 1 /\ Types["mission_phase"].width = 1
      /\ Types["crc32"].components = 1 /\ Types["crc32"].width = 4
  BY DEF Types, Numeric
<1>3. At[1] = 0 /\ At[2] = 4 /\ At[5] = 18 /\ At[16] = 159
  BY DEF At
<1>4. read_unsigned(serialize, 0 + (1 - 1) * 4, 4) = <<"magic", 1>>
  BY <1>1, <1>2, <1>3, ReadsBack, 1 \in 1 .. 16, 1 \in 1 .. 1
<1>5. read_unsigned(serialize, 4 + (1 - 1) * 2, 2) = <<"version", 1>>
  BY <1>1, <1>2, <1>3, ReadsBack, 2 \in 1 .. 16, 1 \in 1 .. 1
<1>6. read_unsigned(serialize, 18 + (1 - 1) * 1, 1) = <<"mission_phase", 1>>
  BY <1>1, <1>2, <1>3, ReadsBack, 5 \in 1 .. 16, 1 \in 1 .. 1
<1>7. read_unsigned(serialize, 159 + (1 - 1) * 4, 4) = <<"crc32", 1>>
  BY <1>1, <1>2, <1>3, ReadsBack, 16 \in 1 .. 16, 1 \in 1 .. 1
<1>8. \A i \in 1 .. 159 : serialize[i].damage = "no"
  <2>1. \A i \in 1 .. 159 : serialize[i] \in WrittenBytes
    <3>1. serialize \in Seq(WrittenBytes) /\ Len(serialize) = kTelemetryPacketSize
      BY Layout
    <3>2. \A i \in 1 .. 159 : i \in 1 .. Len(serialize)
      BY <3>1 DEF kTelemetryPacketSize
    <3>3. \A i \in 1 .. Len(serialize) : serialize[i] \in WrittenBytes
      BY <3>1
    <3>4. QED
      BY <3>2, <3>3
  <2>2. \A i \in 1 .. 159 : serialize[i].damage = "no"
    BY <2>1 DEF WrittenBytes, BytesWith
  <2>3. QED
    BY <2>2
<1>9. QED
  BY <1>4, <1>5, <1>6, <1>7, <1>8
     DEF MagicRead, VersionRead, PhaseRead, ChecksumMatches

(***************************************************************************)
(* For every magic number, version, phase byte and size of foreign         *)
(* datagrams: nothing but an intact packet of the current version is       *)
(* accepted by either decoder.                                             *)
(***************************************************************************)
THEOREM WireOnlyIntactAccepted == WireSpec => []OnlyIntactAccepted
<1>1. WireInv => OnlyIntactAccepted
  BY AcceptedIsIntact DEF WireInv, OnlyIntactAccepted, Run
<1>2. QED
  BY <1>1, WireInvariant, PTL

(***************************************************************************)
(* An intact packet of the current version is accepted by both, and both   *)
(* hold every number that was serialized, the streaming server a timestamp *)
(* beyond 2^53 only nearly.                                                *)
(***************************************************************************)
THEOREM WireRoundTrip == WireSpec => []RoundTrip
<1>1. WireInv => RoundTrip
  <2> DEFINE Exact == /\ ts.error = "none" /\ DOMAIN ts.fields = FieldNames
                      /\ \A name \in FieldNames :
                           (name = "timestamp_us" => telemetry.timeFits)
                             => ts.fields[name] = Serialized[name]
  <2> SUFFICES ASSUME WireInv, Run, telemetry # NoTelemetry, Intact, Current
               PROVE  /\ cpp.error = "none" /\ cpp.fields = Serialized
                      /\ IF Sane THEN Exact
                                 ELSE ts.error \in {"invalid_phase", "invalid_number"}
    BY DEF RoundTrip
  <2>1. cpp = deserialize(serialize) /\ ts = decodeTelemetry(serialize)
    BY DEF WireInv, Run, Intact
  <2>2. /\ Len(serialize) = kTelemetryPacketSize
        /\ MagicRead(serialize) = kTelemetryMagic
        /\ VersionRead(serialize) = kTelemetryVersion
        /\ ChecksumMatches(serialize, 159)
    BY Layout, SerializedPasses DEF Current
  <2>3. cpp.error = "none" /\ cpp.fields = Serialized
    BY <2>1, <2>2, CppReads DEF deserialize, kCrcOffset
  <2>4. telemetry.notFinite \in Numbers \cup {"none"} /\ "none" \notin Numbers
    BY DEF WireInv, Telemetries, Numbers, FieldNames, Types
  <2>5. SanityError(serialize) = IF telemetry.phase \notin missionPhases THEN "invalid_phase"
                                 ELSE IF telemetry.notFinite \in Numbers
                                      THEN "invalid_number" ELSE "none"
    BY SerializedPasses DEF SanityError
  <2>6. CASE Sane
    <3>1. SanityError(serialize) = "none"
      BY <2>4, <2>5, <2>6 DEF Sane
    <3>2. ts = [error |-> "none", fields |-> SampleRead(serialize)]
      BY <2>1, <2>2, <3>1, OwnCopies DEF decodeTelemetry
    <3>3. DOMAIN SampleRead(serialize) = FieldNames
      BY DEF SampleRead
    <3>4. ts.error = "none" /\ ts.fields = SampleRead(serialize)
      BY <3>2
    <3> HIDE DEF Exact
    <3>5. Exact
      BY <3>3, <3>4, TypeScriptReads DEF Exact
    <3>6. QED
      BY <2>3, <2>6, <3>5
  <2>7. CASE ~Sane
    <3>1. SanityError(serialize) \in {"invalid_phase", "invalid_number"}
      BY <2>4, <2>5, <2>7 DEF Sane
    <3>2. ts.error = SanityError(serialize)
      BY <2>1, <2>2, <3>1, OwnCopies DEF decodeTelemetry, Rejected
    <3>3. QED
      BY <2>3, <2>7, <3>1, <3>2
  <2>8. QED
    BY <2>6, <2>7
<1>2. QED
  BY <1>1, WireInvariant, PTL

(***************************************************************************)
(* The two decoders name the same reason, but for what only the streaming  *)
(* server checks.                                                          *)
(***************************************************************************)
THEOREM WireSameVerdict == WireSpec => []SameVerdict
<1>1. WireInv => SameVerdict
  <2> SUFFICES ASSUME WireInv, Run
               PROVE  \/ cpp.error = ts.error
                      \/ cpp.error = "none" /\ ts.error \in {"invalid_phase", "invalid_number"}
    BY DEF SameVerdict
  <2>1. cpp = deserialize(datagram) /\ ts = decodeTelemetry(datagram)
    BY DEF WireInv, Run
  <2>2. SanityError(datagram) \in {"invalid_phase", "invalid_number", "none"}
    BY DEF SanityError
  <2>3. QED
    BY <2>1, <2>2, OwnCopies DEF deserialize, decodeTelemetry, Rejected
<1>2. QED
  BY <1>1, WireInvariant, PTL
=============================================================================
