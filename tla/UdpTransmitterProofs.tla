------------------------ MODULE UdpTransmitterProofs ------------------------
(***************************************************************************)
(* Proofs about SpscRingBuffer and about UdpTransmitter, which extends it, *)
(* for every queue capacity, every set of values and every number of       *)
(* packets.                                                                *)
(*                                                                         *)
(* The ring: its slots are free of data races and it implements            *)
(* BoundedFifo.  The transmitter: the counters account for every accepted  *)
(* packet, a packet is dropped only when Capacity wait, and stop() returns *)
(* only when the queue is drained.                                         *)
(*                                                                         *)
(* The first part has one lemma per action of the ring, ASSUME RingInv,    *)
(* action PROVE RingInv'.  The second cites them, as the threads of the    *)
(* transmitter take the same steps.                                        *)
(***************************************************************************)
EXTENDS UdpTransmitter, TLAPS

(***************************************************************************)
(* increment() wraps from the last slot to the first (hpp:42-44).          *)
(***************************************************************************)
LEMMA IncrementWraps ==
  ASSUME NEW i \in Slots
  PROVE  /\ increment(i) \in Slots
         /\ increment(i) = IF i = Capacity THEN 0 ELSE i + 1
BY CapacityAssumption, SMTT(30) DEF increment, Slots, kStorageSize

(***************************************************************************)
(* Dist counts increments and is less than a full turn.                    *)
(***************************************************************************)
LEMMA DistRange ==
  ASSUME NEW a \in Slots, NEW b \in Slots
  PROVE  /\ Dist(a, b) \in 0 .. Capacity
         /\ Dist(a, b) = 0 <=> a = b
BY CapacityAssumption DEF Dist, Slots, kStorageSize

(***************************************************************************)
(* Advancing the far end adds one to a distance, advancing the near end    *)
(* takes one away, unless the two ends meet.                               *)
(***************************************************************************)
LEMMA DistAdvance ==
  ASSUME NEW a \in Slots, NEW b \in Slots
  PROVE  /\ increment(b) # a => Dist(a, increment(b)) = Dist(a, b) + 1
         /\ a # b => Dist(increment(a), b) = Dist(a, b) - 1
         /\ increment(b) = a => Dist(a, b) = Capacity
BY CapacityAssumption, IncrementWraps DEF Dist, Slots, kStorageSize

(* Slots equally far from a are the same slot.                             *)
LEMMA DistInjective ==
  ASSUME NEW a \in Slots, NEW b \in Slots, NEW c \in Slots, Dist(a, b) = Dist(a, c)
  PROVE  b = c
BY CapacityAssumption DEF Dist, Slots, kStorageSize

(***************************************************************************)
(* The interval of slots grows by its far end and shrinks by its near end. *)
(***************************************************************************)
LEMMA BetweenAdvance ==
  ASSUME NEW a \in Slots, NEW b \in Slots
  PROVE  /\ increment(b) # a => Between(a, increment(b)) = Between(a, b) \cup {b}
         /\ a # b => Between(increment(a), b) = Between(a, b) \ {a}
<1>1. ASSUME increment(b) # a PROVE Between(a, increment(b)) = Between(a, b) \cup {b}
  <2>1. \A s \in Slots : Dist(a, s) < Dist(a, b) + 1 <=> (Dist(a, s) < Dist(a, b) \/ s = b)
    <3> SUFFICES ASSUME NEW s \in Slots
                 PROVE  Dist(a, s) < Dist(a, b) + 1 <=> (Dist(a, s) < Dist(a, b) \/ s = b)
      OBVIOUS
    <3>1. Dist(a, s) \in Int /\ Dist(a, b) \in Int
      BY DistRange
    <3>2. Dist(a, s) = Dist(a, b) => s = b
      BY DistInjective
    <3>3. QED
      BY <3>1, <3>2
  <2>2. QED
    BY <1>1, <2>1, DistAdvance, IncrementWraps DEF Between
<1>2. ASSUME a # b PROVE Between(increment(a), b) = Between(a, b) \ {a}
  <2>1. \A s \in Slots : Dist(increment(a), s) < Dist(a, b) - 1
                           <=> (Dist(a, s) < Dist(a, b) /\ s # a)
    <3> SUFFICES ASSUME NEW s \in Slots
                 PROVE  Dist(increment(a), s) < Dist(a, b) - 1
                           <=> (Dist(a, s) < Dist(a, b) /\ s # a)
      OBVIOUS
    <3>1. Dist(a, s) \in Int /\ Dist(a, b) \in 0 .. Capacity
      BY DistRange
    <3>2. CASE s = a
      BY <3>1, <3>2, DistAdvance, IncrementWraps, CapacityAssumption
    <3>3. CASE s # a
      BY <3>1, <3>3, DistAdvance
    <3>4. QED
      BY <3>2, <3>3
  <2>2. QED
    BY <1>2, <2>1, DistAdvance, IncrementWraps DEF Between
<1>3. QED
  BY <1>1, <1>2

(***************************************************************************)
(* Two distances in a row make the whole, or overshoot it by one turn.     *)
(***************************************************************************)
LEMMA DistChain ==
  ASSUME NEW a \in Slots, NEW b \in Slots, NEW c \in Slots
  PROVE  \/ Dist(a, b) + Dist(b, c) = Dist(a, c)
         \/ Dist(a, b) + Dist(b, c) = Dist(a, c) + Capacity + 1
BY CapacityAssumption DEF Dist, Slots, kStorageSize

(***************************************************************************)
(* IndexOrder bounds what the ring holds by what the producer can see.     *)
(***************************************************************************)
LEMMA RingInv_Held ==
  ASSUME RingInv
  PROVE  /\ Dist(tail, head) \in 0 .. Capacity
         /\ Dist(tail, head) <= Dist(tailVisible, head)
         /\ Dist(tail, headVisible) <= Dist(tail, head)
<1>1. /\ Dist(tailVisible, tail) \in 0 .. Capacity
      /\ Dist(tail, headVisible) \in 0 .. Capacity
      /\ Dist(headVisible, head) \in 0 .. Capacity
      /\ Dist(tailVisible, head) \in 0 .. Capacity
      /\ Dist(tail, head) \in 0 .. Capacity
  BY DistRange DEF RingInv, RingTypeOK
<1>2. Dist(tail, headVisible) + Dist(headVisible, head) = Dist(tail, head)
  BY <1>1, DistChain, CapacityAssumption DEF RingInv, RingTypeOK, IndexOrder
<1>3. QED
  BY <1>1, <1>2 DEF RingInv, IndexOrder

(* What the consumer sees and what it does not see yet make up the ring.   *)
LEMMA HeldWhole ==
  ASSUME RingInv
  PROVE  Dist(tailVisible, tail) + Dist(tail, head) = Dist(tailVisible, head)
<1>1. /\ Dist(tailVisible, tail) \in 0 .. Capacity
      /\ Dist(tail, headVisible) \in 0 .. Capacity
      /\ Dist(headVisible, head) \in 0 .. Capacity
      /\ Dist(tailVisible, head) \in 0 .. Capacity
      /\ Dist(tail, head) \in 0 .. Capacity
  BY DistRange DEF RingInv, RingTypeOK
<1>2. Dist(tail, headVisible) + Dist(headVisible, head) = Dist(tail, head)
  BY <1>1, DistChain, CapacityAssumption DEF RingInv, RingTypeOK, IndexOrder
<1>3. QED
  BY <1>1, <1>2 DEF RingInv, IndexOrder

(* A thread inside try_pop holds an element: the ring is not empty.        *)
LEMMA PoppingHolds ==
  ASSUME RingInv PROVE popPc # "idle" => head # tail
<1> SUFFICES ASSUME popPc # "idle" PROVE head # tail
  OBVIOUS
<1>1. /\ Dist(tail, headVisible) \in 1 .. Capacity
      /\ Dist(tail, head) \in 0 .. Capacity
  BY DistRange, CapacityAssumption DEF RingInv, RingTypeOK, InsidePop
<1>2. Dist(tail, head) # 0
  BY <1>1, RingInv_Held
<1>3. QED
  BY <1>2, DistRange DEF RingInv, RingTypeOK

(* The constructed ring satisfies the invariant (hpp:46-48).               *)
LEMMA RingInit_Inv ==
  ASSUME RingInit PROVE RingInv
BY CapacityAssumption
   DEF RingInit, RingInv, RingTypeOK, IndexOrder, InsidePush, InsidePop, Filled,
       NoDataRace, Between, Dist, Slots, kStorageSize

-----------------------------------------------------------------------------
(* try_push returning false touches no slot and no index (hpp:21).         *)
LEMMA PushRefused_Inv ==
  ASSUME RingInv, PushRefused PROVE RingInv'
BY DEF PushRefused, AcquireTail, producerVars, consumerVars, RingInv, RingTypeOK,
       IndexOrder, InsidePush, InsidePop, Filled, NoDataRace, Between, Dist, Slots

(* The full test keeps a free slot in front of head_ (hpp:19-21).          *)
LEMMA PushBegin_Inv ==
  ASSUME RingInv, NEW v \in Values, PushBegin(v) PROVE RingInv'
<1>1. head \notin unorderedReads'
  <2>1. head \notin Between(tailVisible, tail)
    BY RingInv_Held, HeldWhole, DistRange DEF Between, RingInv, RingTypeOK
  <2>2. QED
    BY <2>1, PoppingHolds DEF PushBegin, AcquireTail
<1>2. QED
  BY <1>1
     DEF PushBegin, AcquireTail, consumerVars, RingInv, RingTypeOK, IndexOrder,
         InsidePush, InsidePop, Filled, NoDataRace, Between, Dist

(* The write goes to a slot outside tail_ .. head_ (hpp:22).               *)
LEMMA PushWrite_Inv ==
  ASSUME RingInv, PushWrite PROVE RingInv'
<1>1. head \notin Between(tail, head)
  BY DistRange DEF Between, RingInv, RingTypeOK
<1>2. popPc # "idle" => head # tail
  BY PoppingHolds
<1>3. RingTypeOK'
  BY DEF PushWrite, consumerVars, RingInv, RingTypeOK, InsidePush
<1>4. Filled'
  BY <1>1 DEF PushWrite, consumerVars, RingInv, RingTypeOK, Filled, InsidePush, Between, Dist, Slots
<1>5. QED
  BY <1>2, <1>3, <1>4
     DEF PushWrite, consumerVars, RingInv, RingTypeOK, IndexOrder, InsidePush,
         InsidePop, NoDataRace, Dist

(* The release store of head_ adds the slot just written (hpp:23).         *)
LEMMA PushPublish_Inv ==
  ASSUME RingInv, PushPublish PROVE RingInv'
<1>1. increment(head) \in Slots /\ increment(head) # tailVisible /\ pushValue \in Values
  BY IncrementWraps DEF RingInv, RingTypeOK, InsidePush, PushPublish
<1>2. Dist(tailVisible, head) # Capacity
  BY <1>1, CapacityAssumption, IncrementWraps
     DEF RingInv, RingTypeOK, Dist, Slots, kStorageSize
<1>3. increment(head) # tail
  BY <1>2, RingInv_Held, DistAdvance, DistRange, CapacityAssumption
     DEF RingInv, RingTypeOK
<1>4. IndexOrder'
  <2>1. increment(head) # headVisible
    <3>1. /\ Dist(tailVisible, tail) \in 0 .. Capacity
          /\ Dist(tail, headVisible) \in 0 .. Capacity
          /\ Dist(headVisible, head) \in 0 .. Capacity
          /\ Dist(tailVisible, head) \in 0 .. Capacity
      BY DistRange DEF RingInv, RingTypeOK
    <3>2. QED
      BY <1>2, <3>1, DistAdvance, CapacityAssumption DEF RingInv, RingTypeOK, IndexOrder
  <2>2. QED
    BY <1>1, <1>3, <2>1, DistAdvance, DistRange
       DEF PushPublish, consumerVars, RingInv, RingTypeOK, IndexOrder
<1>5. Between(tail, increment(head)) = Between(tail, head) \cup {head}
  BY <1>3, BetweenAdvance DEF RingInv, RingTypeOK
<1>6. Filled'
  BY <1>1, <1>5 DEF PushPublish, consumerVars, RingInv, RingTypeOK, Filled, Between, Dist
<1>7. QED
  BY <1>1, <1>4, <1>6
     DEF PushPublish, consumerVars, RingInv, RingTypeOK, InsidePush, InsidePop, NoDataRace

-----------------------------------------------------------------------------
(* try_pop returning nullopt touches no slot and no index (hpp:29).        *)
LEMMA PopNothing_Inv ==
  ASSUME RingInv, PopNothing PROVE RingInv'
BY DEF PopNothing, AcquireHead, producerVars, consumerVars, RingInv, RingTypeOK,
       IndexOrder, InsidePush, InsidePop, Filled, NoDataRace, Between, Dist, Slots

(* The empty test keeps a filled slot at tail_ (hpp:28-29).                *)
LEMMA PopBegin_Inv ==
  ASSUME RingInv, PopBegin PROVE RingInv'
<1>1. tail \notin unorderedWrites'
  <2>1. tail # headVisible
    BY DEF PopBegin
  <2>2. tail \notin Between(headVisible, head)
    <3>1. /\ Dist(tail, headVisible) \in 1 .. Capacity
          /\ Dist(headVisible, head) \in 0 .. Capacity
          /\ Dist(tail, head) \in 0 .. Capacity
          /\ Dist(tail, headVisible) + Dist(headVisible, head) = Dist(tail, head)
      BY <2>1, DistRange, RingInv_Held, HeldWhole, CapacityAssumption
         DEF RingInv, RingTypeOK, IndexOrder
    <3>2. ~(Dist(headVisible, tail) < Dist(headVisible, head))
      BY <3>1, CapacityAssumption DEF RingInv, RingTypeOK, Dist, Slots, kStorageSize
    <3>3. QED
      BY <3>2 DEF Between
  <2>3. tail # head
    BY <2>1, DistRange, RingInv_Held, HeldWhole DEF RingInv, RingTypeOK, IndexOrder
  <2>4. QED
    BY <2>2, <2>3 DEF PopBegin, AcquireHead
<1>2. QED
  BY <1>1
     DEF PopBegin, AcquireHead, producerVars, RingInv, RingTypeOK, IndexOrder,
         InsidePush, InsidePop, Filled, NoDataRace, Between, Dist

(* The move reads the slot the producer filled (hpp:30).                   *)
LEMMA PopRead_Inv ==
  ASSUME RingInv, PopRead PROVE RingInv'
<1>1. tail # head
  BY PoppingHolds DEF PopRead
<1>2. QED
  BY <1>1
     DEF PopRead, producerVars, RingInv, RingTypeOK, IndexOrder, InsidePush, InsidePop,
         Filled, NoDataRace, Between, Dist

(* The release store of tail_ frees the slot just read (hpp:31).           *)
LEMMA PopRelease_Inv ==
  ASSUME RingInv, PopRelease PROVE RingInv'
<1>1. increment(tail) \in Slots /\ tail # headVisible /\ popValue \in Values \cup {NoValue}
  BY IncrementWraps DEF RingInv, RingTypeOK, InsidePop, PopRelease
<1>2. /\ IndexOrder'
      /\ Between(increment(tail), head) \subseteq Between(tail, head)
  <2>1. Dist(tail, headVisible) >= 1 /\ Dist(tail, headVisible) \in Nat
    BY <1>1, DistRange DEF RingInv, RingTypeOK
  <2>2. tailVisible # increment(tail)
    <3>1. /\ Dist(tailVisible, tail) \in Nat
          /\ Dist(headVisible, head) \in Nat
          /\ Dist(tailVisible, head) \in 0 .. Capacity
      BY DistRange DEF RingInv, RingTypeOK
    <3>2. Dist(tailVisible, tail) # Capacity
      BY <2>1, <3>1, CapacityAssumption DEF RingInv, IndexOrder
    <3>3. QED
      BY <3>2, DistAdvance DEF RingInv, RingTypeOK
  <2>3. IndexOrder'
    BY <1>1, <2>2, DistAdvance, DistRange
       DEF PopRelease, producerVars, RingInv, RingTypeOK, IndexOrder
  <2>4. head # tail
    BY <2>1, DistRange DEF RingInv, RingTypeOK, IndexOrder
  <2>5. Between(increment(tail), head) \subseteq Between(tail, head)
    BY <2>4, BetweenAdvance DEF RingInv, RingTypeOK
  <2>6. QED
    BY <2>3, <2>5
<1>3. Filled'
  BY <1>1, <1>2 DEF PopRelease, producerVars, RingInv, RingTypeOK, Filled, Between, Dist
<1>4. QED
  BY <1>1, <1>2, <1>3
     DEF PopRelease, producerVars, RingInv, RingTypeOK, InsidePush, InsidePop, NoDataRace

-----------------------------------------------------------------------------
(* A newer head_ becoming visible keeps the cyclic order.                  *)
LEMMA HeadReachesConsumer_Inv ==
  ASSUME RingInv, HeadReachesConsumer PROVE RingInv'
<1>1. increment(headVisible) # tail
  <2>1. /\ Dist(tailVisible, tail) \in 0 .. Capacity
        /\ Dist(tail, headVisible) \in 0 .. Capacity
        /\ Dist(headVisible, head) \in 1 .. Capacity
        /\ Dist(tailVisible, head) \in 0 .. Capacity
    BY DistRange, CapacityAssumption DEF HeadReachesConsumer, RingInv, RingTypeOK
  <2>2. Dist(tail, headVisible) # Capacity
    BY <2>1, CapacityAssumption DEF RingInv, IndexOrder
  <2>3. QED
    BY <2>2, DistAdvance DEF RingInv, RingTypeOK
<1>2. IndexOrder' /\ headVisible' \in Slots
  BY <1>1, IncrementWraps, DistAdvance, DistRange
     DEF HeadReachesConsumer, producerVars, RingInv, RingTypeOK, IndexOrder
<1>3. QED
  BY <1>1, <1>2
     DEF HeadReachesConsumer, producerVars, RingInv, RingTypeOK, InsidePush, InsidePop,
         Filled, NoDataRace, Between, Dist

(* A newer tail_ becoming visible keeps the cyclic order.                  *)
LEMMA TailReachesProducer_Inv ==
  ASSUME RingInv, TailReachesProducer PROVE RingInv'
<1>1. tailVisible # head
  BY DistRange DEF TailReachesProducer, RingInv, RingTypeOK, IndexOrder
<1>2. IndexOrder' /\ tailVisible' \in Slots
  BY <1>1, IncrementWraps, DistAdvance, DistRange
     DEF TailReachesProducer, consumerVars, RingInv, RingTypeOK, IndexOrder
<1>3. increment(head) # tailVisible'
  <2>1. increment(head) # increment(tailVisible)
    BY <1>1, IncrementWraps, CapacityAssumption
       DEF RingInv, RingTypeOK, Slots, kStorageSize
  <2>2. QED
    BY <2>1 DEF TailReachesProducer
<1>4. QED
  BY <1>2, <1>3
     DEF TailReachesProducer, consumerVars, RingInv, RingTypeOK, InsidePush, InsidePop,
         Filled, NoDataRace, Between, Dist

-----------------------------------------------------------------------------
(***************************************************************************)
(* Every step of the ring keeps its invariant.                             *)
(***************************************************************************)
LEMMA RingNext_Inv ==
  ASSUME RingInv, [RingNext]_ringVars PROVE RingInv'
<1>1. CASE Producer
  BY <1>1, PushRefused_Inv, PushBegin_Inv, PushWrite_Inv, PushPublish_Inv DEF Producer
<1>2. CASE Consumer
  BY <1>2, PopNothing_Inv, PopBegin_Inv, PopRead_Inv, PopRelease_Inv DEF Consumer
<1>3. CASE Memory
  BY <1>3, HeadReachesConsumer_Inv, TailReachesProducer_Inv DEF Memory
<1>4. CASE UNCHANGED ringVars
  BY <1>4
     DEF ringVars, RingInv, RingTypeOK, IndexOrder, InsidePush, InsidePop, Filled,
         NoDataRace, Between, Dist, Slots
<1>5. QED
  BY <1>1, <1>2, <1>3, <1>4 DEF RingNext

(* The inductive invariant holds for every capacity and set of values.     *)
THEOREM RingInvariant == RingSpec => []RingInv
<1>1. RingInit => RingInv
  BY RingInit_Inv
<1>2. RingInv /\ [RingNext]_ringVars => RingInv'
  BY RingNext_Inv
<1>3. QED
  BY <1>1, <1>2, PTL DEF RingSpec

(***************************************************************************)
(* For every Capacity and every interleaving of the two threads, whatever  *)
(* old index an acquire load returns, the plain slot accesses of try_push  *)
(* and try_pop never race.                                                 *)
(***************************************************************************)
THEOREM RingHasNoDataRace == RingSpec => []NoDataRace
BY RingInvariant, PTL DEF RingInv

-----------------------------------------------------------------------------
(***************************************************************************)
(* The i-th slot of an interval, for the refinement mapping Contents.      *)
(***************************************************************************)
LEMMA NthWraps ==
  ASSUME NEW a \in Slots, NEW i \in 1 .. kStorageSize
  PROVE  Nth(a, i) = IF a + i - 1 <= Capacity THEN a + i - 1 ELSE a + i - 1 - kStorageSize
<1>1. CASE a + i - 1 <= Capacity
  BY <1>1, CapacityAssumption, SMTT(30) DEF Nth, Slots, kStorageSize
<1>2. CASE a + i - 1 > Capacity
  <2> DEFINE x == a + i - 1
             n == Capacity + 1
  <2>1. x \in Int /\ n \in Nat /\ n > 0 /\ n <= x /\ x < 2 * n
    BY <1>2, CapacityAssumption DEF Slots, kStorageSize
  <2> HIDE DEF x, n
  <2>2. x % n = x - n
    BY <2>1, SMTT(30)
  <2>3. Nth(a, i) = x % n /\ kStorageSize = n /\ n = Capacity + 1 /\ x = a + i - 1
    BY DEF Nth, kStorageSize, x, n
  <2>4. QED
    BY <1>2, <2>2, <2>3, CapacityAssumption DEF Slots
<1>3. QED
  BY <1>1, <1>2, CapacityAssumption DEF Slots, kStorageSize

(* The i-th slot of an interval is i - 1 increments from its near end.     *)
LEMMA NthSlot ==
  ASSUME NEW a \in Slots, NEW i \in 1 .. kStorageSize
  PROVE  /\ Nth(a, i) \in Slots
         /\ Dist(a, Nth(a, i)) = i - 1
BY NthWraps, CapacityAssumption DEF Dist, Slots, kStorageSize

(* The i-th slot after the next one is the (i + 1)-th.                     *)
LEMMA NthNext ==
  ASSUME NEW a \in Slots, NEW i \in 1 .. Capacity
  PROVE  Nth(increment(a), i) = Nth(a, i + 1)
<1>1. i \in 1 .. kStorageSize /\ i + 1 \in 1 .. kStorageSize
  BY CapacityAssumption DEF kStorageSize
<1>2. increment(a) \in Slots /\ increment(a) = IF a = Capacity THEN 0 ELSE a + 1
  BY IncrementWraps
<1>3. Nth(increment(a), i) = IF increment(a) + i - 1 <= Capacity
                             THEN increment(a) + i - 1
                             ELSE increment(a) + i - 1 - kStorageSize
  BY <1>1, <1>2, NthWraps
<1>4. Nth(a, i + 1) = IF a + (i + 1) - 1 <= Capacity THEN a + (i + 1) - 1
                      ELSE a + (i + 1) - 1 - kStorageSize
  BY <1>1, NthWraps
<1>5. QED
  BY <1>2, <1>3, <1>4, CapacityAssumption DEF Slots, kStorageSize

(* Contents is a sequence as long as the ring is full.                     *)
LEMMA ContentsIsSeq ==
  ASSUME RingInv
  PROVE  /\ Contents \in Seq(Values)
         /\ Len(Contents) = Dist(tail, head)
<1>1. Dist(tail, head) \in 0 .. Capacity
  BY RingInv_Held
<1>2. \A i \in 1 .. Dist(tail, head) : storage[Nth(tail, i)] \in Values
  <2> SUFFICES ASSUME NEW i \in 1 .. Dist(tail, head) PROVE storage[Nth(tail, i)] \in Values
    OBVIOUS
  <2>1. i \in 1 .. kStorageSize /\ i - 1 < Dist(tail, head)
    BY <1>1, CapacityAssumption DEF kStorageSize
  <2>2. Nth(tail, i) \in Between(tail, head)
    BY <2>1, NthSlot DEF RingInv, RingTypeOK, Between
  <2>3. QED
    BY <2>2 DEF RingInv, Filled
<1>3. QED
  BY <1>1, <1>2 DEF Contents

-----------------------------------------------------------------------------
(* How a push and a pop change the number of elements held.                *)
LEMMA PushPublish_Dist ==
  ASSUME RingInv, PushPublish
  PROVE  /\ Dist(tail, head) \in 0 .. Capacity - 1
         /\ Dist(tail, head)' = Dist(tail, head) + 1
         /\ Dist(tail, increment(head)) = Dist(tail, head) + 1
<1>1. Dist(tailVisible, head) # Capacity
  BY CapacityAssumption, IncrementWraps
     DEF PushPublish, InsidePush, RingInv, RingTypeOK, Dist, Slots, kStorageSize
<1>2. Dist(tail, head) \in 0 .. Capacity /\ Dist(tail, head) # Capacity
  BY <1>1, RingInv_Held, DistRange, CapacityAssumption DEF RingInv, RingTypeOK
<1>3. Dist(tail, increment(head)) = Dist(tail, head) + 1
  BY <1>2, DistAdvance DEF RingInv, RingTypeOK
<1>4. Dist(tail, head)' = Dist(tail, increment(head))
  BY DEF PushPublish, consumerVars, Dist, kStorageSize
<1>5. QED
  BY <1>2, <1>3, <1>4, CapacityAssumption

(* A pop takes one element (hpp:31).                                       *)
LEMMA PopRelease_Dist ==
  ASSUME RingInv, PopRelease
  PROVE  /\ Dist(tail, head) \in 1 .. Capacity
         /\ Dist(tail, head)' = Dist(tail, head) - 1
         /\ Dist(increment(tail), head) = Dist(tail, head) - 1
<1>1. Dist(tail, headVisible) \in 1 .. Capacity
  BY DistRange DEF PopRelease, InsidePop, RingInv, RingTypeOK
<1>2. Dist(tail, head) \in 1 .. Capacity
  BY <1>1, RingInv_Held, CapacityAssumption
<1>3. Dist(increment(tail), head) = Dist(tail, head) - 1
  BY <1>2, DistRange, DistAdvance DEF RingInv, RingTypeOK
<1>4. Dist(tail, head)' = Dist(increment(tail), head)
  BY DEF PopRelease, producerVars, Dist, kStorageSize
<1>5. QED
  BY <1>2, <1>3, <1>4

(* Steps that leave head_, tail_ and storage_ alone leave the queue alone. *)
LEMMA QueueKept ==
  ASSUME UNCHANGED <<storage, head, tail>> PROVE Contents' = Contents
BY DEF Contents, Dist, Nth, kStorageSize

(* Writing the slot at head_ is not yet visible in the queue (hpp:22).     *)
LEMMA PushWrite_Stutters ==
  ASSUME RingInv, PushWrite PROVE Contents' = Contents
<1>1. Dist(tail, head) \in 0 .. Capacity /\ UNCHANGED <<tail, head>>
  BY RingInv_Held DEF PushWrite, consumerVars
<1>2. \A i \in 1 .. Dist(tail, head) : storage'[Nth(tail, i)] = storage[Nth(tail, i)]
  <2> SUFFICES ASSUME NEW i \in 1 .. Dist(tail, head)
               PROVE  storage'[Nth(tail, i)] = storage[Nth(tail, i)]
    OBVIOUS
  <2>1. i \in 1 .. kStorageSize
    BY <1>1, CapacityAssumption DEF kStorageSize
  <2>2. Nth(tail, i) # head
    BY <1>1, <2>1, NthSlot DEF RingInv, RingTypeOK
  <2>3. Nth(tail, i) \in Slots
    BY <2>1, NthSlot DEF RingInv, RingTypeOK
  <2>4. QED
    BY <2>2, <2>3 DEF PushWrite, RingInv, RingTypeOK
<1>3. Dist(tail, head)' = Dist(tail, head) /\ \A i : Nth(tail, i)' = Nth(tail, i)
  BY <1>1 DEF Dist, Nth, kStorageSize
<1>4. QED
  BY <1>1, <1>2, <1>3 DEF Contents

(* The release store of head_ is a Put (hpp:23).                           *)
LEMMA PushPublish_Puts ==
  ASSUME RingInv, PushPublish
  PROVE  /\ Len(Contents) < Capacity
         /\ Contents' = Append(Contents, pushValue)
         /\ pushValue \in Values
         /\ popped' = popped
<1> DEFINE D == Dist(tail, head)
<1>1. /\ D \in 0 .. Capacity /\ D # Capacity
      /\ Dist(tail, increment(head)) = D + 1
  BY PushPublish_Dist, CapacityAssumption
<1>2. Nth(tail, D + 1) = head
  <2>1. D + 1 \in 1 .. kStorageSize
    BY <1>1, CapacityAssumption DEF kStorageSize
  <2>2. Dist(tail, Nth(tail, D + 1)) = D /\ Nth(tail, D + 1) \in Slots
    BY <1>1, <2>1, NthSlot DEF RingInv, RingTypeOK
  <2>3. QED
    BY <2>2, DistInjective DEF RingInv, RingTypeOK
<1>3. storage[head] = pushValue /\ pushValue \in Values
  BY DEF PushPublish, RingInv, Filled, InsidePush
<1>4. Contents' = [i \in 1 .. D + 1 |-> storage[Nth(tail, i)]]
  BY <1>1 DEF PushPublish, consumerVars, Contents, Dist, Nth, kStorageSize
<1>5. Contents \in Seq(Values) /\ Len(Contents) = D
  BY ContentsIsSeq
<1>6. Contents = [i \in 1 .. D |-> storage[Nth(tail, i)]]
  BY DEF Contents
<1> HIDE DEF D
<1>7. Append(Contents, pushValue) = [i \in 1 .. D + 1 |-> storage[Nth(tail, i)]]
  BY <1>1, <1>2, <1>3, <1>5, <1>6
<1>8. QED
  BY <1>1, <1>3, <1>4, <1>5, <1>7, CapacityAssumption DEF PushPublish, consumerVars

(* The release store of tail_ is a Get (hpp:31).                           *)
LEMMA PopRelease_Gets ==
  ASSUME RingInv, PopRelease
  PROVE  /\ Contents # <<>>
         /\ popped' = Head(Contents)
         /\ Contents' = Tail(Contents)
<1> DEFINE D == Dist(tail, head)
<1>1. /\ D \in 1 .. Capacity
      /\ Dist(increment(tail), head) = D - 1
  BY PopRelease_Dist
<1>2. Nth(tail, 1) = tail
  BY NthWraps, CapacityAssumption DEF RingInv, RingTypeOK, Slots, kStorageSize
<1>3. Contents' = [i \in 1 .. D - 1 |-> storage[Nth(increment(tail), i)]]
  BY <1>1 DEF PopRelease, producerVars, Contents, Dist, Nth, kStorageSize
<1>4. \A i \in 1 .. D - 1 : Nth(increment(tail), i) = Nth(tail, i + 1)
  BY <1>1, NthNext, CapacityAssumption DEF RingInv, RingTypeOK
<1>5. Contents \in Seq(Values) /\ Len(Contents) = D
  BY ContentsIsSeq
<1>6. Contents = [i \in 1 .. D |-> storage[Nth(tail, i)]]
  BY DEF Contents
<1> HIDE DEF D
<1>7. Tail(Contents) = [i \in 1 .. D - 1 |-> storage[Nth(tail, i + 1)]]
  BY <1>1, <1>5, <1>6
<1>8. Head(Contents) = storage[tail] /\ Contents # <<>>
  BY <1>1, <1>2, <1>5, <1>6
<1>9. QED
  BY <1>3, <1>4, <1>7, <1>8 DEF PopRelease, RingInv, InsidePop

-----------------------------------------------------------------------------
(* Each step of the ring is a step of BoundedFifo or leaves it unchanged.  *)
LEMMA RingNext_Refines ==
  ASSUME RingInv, [RingNext]_ringVars
  PROVE  [Fifo!FifoNext]_(Fifo!fifoVars)
<1>1. CASE PushWrite
  BY <1>1, PushWrite_Stutters DEF PushWrite, consumerVars, Fifo!fifoVars
<1>2. CASE PushPublish
  BY <1>2, PushPublish_Puts DEF Fifo!FifoNext, Fifo!Put
<1>3. CASE PopRelease
  BY <1>3, PopRelease_Gets DEF Fifo!FifoNext, Fifo!Get
<1>4. CASE PushRefused \/ (\E v \in Values : PushBegin(v)) \/ PopNothing \/ PopBegin
           \/ PopRead \/ Memory \/ UNCHANGED ringVars
  <2>1. UNCHANGED <<storage, head, tail>> /\ popped' = popped
    BY <1>4
       DEF PushRefused, PushBegin, PopNothing, PopBegin, PopRead, Memory, ringVars,
           HeadReachesConsumer, TailReachesProducer, producerVars, consumerVars
  <2>2. QED
    BY <2>1, QueueKept DEF Fifo!fifoVars
<1>5. QED
  BY <1>1, <1>2, <1>3, <1>4 DEF RingNext, Producer, Consumer

(***************************************************************************)
(* The two-index ring is a bounded first-in first-out queue: what try_pop  *)
(* returns is what try_push accepted, each value once and in order, though *)
(* each thread decides from an index of the other that may be old.         *)
(***************************************************************************)
THEOREM RingImplementsFifo == RingSpec => ImplementsFifo
<1>1. RingInit => Fifo!FifoInit
  BY DEF RingInit, Fifo!FifoInit, Contents, Dist
<1>2. RingInv /\ [RingNext]_ringVars => [Fifo!FifoNext]_(Fifo!fifoVars)
  BY RingNext_Refines
<1>3. QED
  BY <1>1, <1>2, RingInvariant, PTL DEF RingSpec, ImplementsFifo, Fifo!FifoSpec

-----------------------------------------------------------------------------
(***************************************************************************)
(* The transmitter.                                                        *)
(***************************************************************************)
(* The constructed transmitter satisfies the invariant.                    *)
LEMMA UdpInit_Inv ==
  ASSUME UdpInit PROVE UdpInv
<1>1. RingInv
  BY RingInit_Inv DEF UdpInit
<1>2. Dist(tail, head) = 0
  BY DEF UdpInit, RingInit, Dist
<1>3. UdpTypeOK
  <2>1. /\ running \in BOOLEAN /\ runningVisible \in BOOLEAN
        /\ socketOpen \in BOOLEAN /\ startFailed \in BOOLEAN
    BY Zenon DEF UdpInit
  <2>2. /\ offered \in 0 .. MaxOffers
        /\ queued \in Nat /\ queue_dropped \in Nat /\ sent \in Nat /\ send_errors \in Nat
    BY PacketsAssumption DEF UdpInit
  <2>3. QED
    BY <1>1, <2>1, <2>2 DEF UdpInit, UdpTypeOK, RingInv
<1>4. CallerShape /\ WorkerShape /\ SocketOutlivesWorker
  BY DEF UdpInit, RingInit, CallerShape, WorkerShape, SocketOutlivesWorker
<1>5. Conservation
  BY <1>2 DEF UdpInit, Conservation, InFlight
<1>6. QED
  BY <1>1, <1>3, <1>4, <1>5 DEF UdpInv

(***************************************************************************)
(* Steps that touch no variable of the ring.                               *)
(***************************************************************************)
LEMMA RingKept ==
  ASSUME UNCHANGED ringVars
  PROVE  /\ RingInv => RingInv'
         /\ Dist(tail, head)' = Dist(tail, head)
BY DEF ringVars, RingInv, RingTypeOK, IndexOrder, InsidePush, InsidePop, Filled, NoDataRace,
       Between, Dist, Slots, kStorageSize

(* A start() that fails leaves nothing open (cpp:22-31).                   *)
LEMMA StartFails_Inv ==
  ASSUME UdpInv, StartFails PROVE UdpInv'
<1>1. UNCHANGED ringVars
  BY DEF StartFails
<1>2. RingInv' /\ Dist(tail, head)' = Dist(tail, head) /\ Dist(tail, head) \in Nat
  BY <1>1, RingKept, RingInv_Held DEF UdpInv
<1>3. QED
  BY <1>1, <1>2, PacketsAssumption
     DEF StartFails, ringVars, counters, threadVars, RingInv, UdpInv, UdpTypeOK, CallerShape, WorkerShape, Conservation, InFlight,
         SocketOutlivesWorker

(* try_send returns early when not running (cpp:40).                       *)
LEMMA TrySendIgnored_Inv ==
  ASSUME UdpInv, TrySendIgnored PROVE UdpInv'
<1>1. UNCHANGED ringVars
  BY DEF TrySendIgnored
<1>2. RingInv' /\ Dist(tail, head)' = Dist(tail, head) /\ Dist(tail, head) \in Nat
  BY <1>1, RingKept, RingInv_Held DEF UdpInv
<1>3. QED
  BY <1>1, <1>2, PacketsAssumption
     DEF TrySendIgnored, ringVars, counters, threadVars, RingInv, UdpInv, UdpTypeOK, CallerShape, WorkerShape, Conservation, InFlight,
         SocketOutlivesWorker

(* try_send goes on to try_push while running (cpp:40-41).                 *)
LEMMA TrySendCalls_Inv ==
  ASSUME UdpInv, TrySendCalls PROVE UdpInv'
<1>1. UNCHANGED ringVars
  BY DEF TrySendCalls
<1>2. RingInv' /\ Dist(tail, head)' = Dist(tail, head) /\ Dist(tail, head) \in Nat
  BY <1>1, RingKept, RingInv_Held DEF UdpInv
<1>3. QED
  BY <1>1, <1>2, PacketsAssumption
     DEF TrySendCalls, ringVars, counters, threadVars, RingInv, UdpInv, UdpTypeOK, CallerShape, WorkerShape, Conservation, InFlight,
         SocketOutlivesWorker

(* queued_ catches up with the published packet (cpp:45).                  *)
LEMMA TrySendCounts_Inv ==
  ASSUME UdpInv, TrySendCounts PROVE UdpInv'
<1>1. UNCHANGED ringVars
  BY DEF TrySendCounts
<1>2. RingInv' /\ Dist(tail, head)' = Dist(tail, head) /\ Dist(tail, head) \in Nat
  BY <1>1, RingKept, RingInv_Held DEF UdpInv
<1>3. QED
  BY <1>1, <1>2, PacketsAssumption
     DEF TrySendCounts, ringVars, counters, threadVars, RingInv, UdpInv, UdpTypeOK, CallerShape, WorkerShape, Conservation, InFlight,
         SocketOutlivesWorker

(* stop() clears running_ and leaves the socket open (cpp:73).             *)
LEMMA StopBegins_Inv ==
  ASSUME UdpInv, StopBegins PROVE UdpInv'
<1>1. UNCHANGED ringVars
  BY DEF StopBegins
<1>2. RingInv' /\ Dist(tail, head)' = Dist(tail, head) /\ Dist(tail, head) \in Nat
  BY <1>1, RingKept, RingInv_Held DEF UdpInv
<1>3. QED
  BY <1>1, <1>2, PacketsAssumption
     DEF StopBegins, ringVars, counters, threadVars, RingInv, UdpInv, UdpTypeOK, CallerShape, WorkerShape, Conservation, InFlight,
         SocketOutlivesWorker

(* Each sendto is counted once, as sent or as an error (cpp:61-67).        *)
LEMMA Sends_Inv ==
  ASSUME UdpInv, Sends PROVE UdpInv'
<1>1. UNCHANGED ringVars
  BY DEF Sends
<1>2. RingInv' /\ Dist(tail, head)' = Dist(tail, head) /\ Dist(tail, head) \in Nat
  BY <1>1, RingKept, RingInv_Held DEF UdpInv
<1>3. QED
  BY <1>1, <1>2, PacketsAssumption
     DEF Sends, ringVars, counters, threadVars, RingInv, UdpInv, UdpTypeOK, CallerShape, WorkerShape, Conservation, InFlight,
         SocketOutlivesWorker

(* The worker learning of stop() changes nothing else.                     *)
LEMMA RunningReachesWorker_Inv ==
  ASSUME UdpInv, RunningReachesWorker PROVE UdpInv'
<1>1. UNCHANGED ringVars
  BY DEF RunningReachesWorker
<1>2. RingInv' /\ Dist(tail, head)' = Dist(tail, head) /\ Dist(tail, head) \in Nat
  BY <1>1, RingKept, RingInv_Held DEF UdpInv
<1>3. QED
  BY <1>1, <1>2, PacketsAssumption
     DEF RunningReachesWorker, ringVars, counters, threadVars, RingInv, UdpInv, UdpTypeOK, CallerShape, WorkerShape, Conservation, InFlight,
         SocketOutlivesWorker

(***************************************************************************)
(* start() and join() make everything the other thread did visible.        *)
(***************************************************************************)
LEMMA Start_Inv ==
  ASSUME UdpInv, Start PROVE UdpInv'
<1>1. RingInv' /\ Dist(tail, head)' = Dist(tail, head) /\ Dist(tail, head) \in Nat
  <2>1. Dist(tail, head) \in Nat /\ Dist(head, head) = 0
    BY RingInv_Held, DistRange DEF UdpInv, RingInv, RingTypeOK
  <2>2. IndexOrder'
    BY <2>1, DistChain, DistRange
       DEF Start, producerVars, UdpInv, WorkerShape, CallerShape, UdpTypeOK, RingInv,
           RingTypeOK, IndexOrder, Dist, kStorageSize
  <2>3. QED
    BY <2>1, <2>2
       DEF Start, producerVars, UdpInv, WorkerShape, CallerShape, UdpTypeOK, RingInv,
           RingTypeOK, InsidePush, InsidePop, Filled, NoDataRace, Between, Dist, Slots,
           kStorageSize
<1>2. QED
  BY <1>1
     DEF Start, producerVars, counters, RingInv, UdpInv, UdpTypeOK, CallerShape,
         WorkerShape, Conservation, InFlight, SocketOutlivesWorker

(* join() has waited for the worker; the socket closes after it            *)
(* (cpp:74-78).                                                            *)
LEMMA StopReturns_Inv ==
  ASSUME UdpInv, StopReturns PROVE UdpInv'
<1>1. RingInv' /\ Dist(tail, head)' = Dist(tail, head) /\ Dist(tail, head) \in Nat
  <2>1. Dist(tail, head) \in Nat /\ Dist(tail, tail) = 0 /\ tail = head
    BY RingInv_Held, DistRange
       DEF StopReturns, UdpInv, WorkerShape, RingInv, RingTypeOK
  <2>2. headVisible = head
    <3>1. Dist(tail, headVisible) <= 0 /\ Dist(tail, headVisible) \in Nat
      BY <2>1, RingInv_Held, DistRange DEF UdpInv, RingInv, RingTypeOK
    <3>2. QED
      BY <2>1, <3>1, DistRange DEF UdpInv, RingInv, RingTypeOK
  <2>3. QED
    BY <2>1, <2>2
       DEF StopReturns, consumerVars, UdpInv, WorkerShape, CallerShape, UdpTypeOK, RingInv,
           RingTypeOK, IndexOrder, InsidePush, InsidePop, Filled, NoDataRace, Between,
           Dist, Slots, kStorageSize
<1>2. QED
  BY <1>1
     DEF StopReturns, consumerVars, counters, RingInv, UdpInv, UdpTypeOK, CallerShape,
         WorkerShape, Conservation, InFlight, SocketOutlivesWorker

(***************************************************************************)
(* The caller inside try_push.                                             *)
(***************************************************************************)
LEMMA TrySendDrops_Inv ==
  ASSUME UdpInv, TrySendDrops PROVE UdpInv'
<1>1. RingInv' /\ UNCHANGED <<head, tail>>
  BY PushRefused_Inv DEF TrySendDrops, UdpInv, PushRefused, producerVars, consumerVars
<1>2. Dist(tail, head)' = Dist(tail, head) /\ Dist(tail, head) \in Nat
  BY <1>1, RingInv_Held DEF UdpInv, Dist, kStorageSize
<1>3. QED
  BY <1>1, <1>2
     DEF TrySendDrops, PushRefused, producerVars, consumerVars, RingInv, UdpInv, UdpTypeOK,
         CallerShape, WorkerShape, Conservation, InFlight, SocketOutlivesWorker

(* try_push inside try_send keeps the ring invariant (cpp:41).             *)
LEMMA TrySendPushes_Inv ==
  ASSUME UdpInv, TrySendPushes PROVE UdpInv'
<1>1. RingInv' /\ UNCHANGED <<head, tail, popPc, headVisible>>
  BY PushBegin_Inv, PushWrite_Inv
     DEF TrySendPushes, UdpInv, CallerShape, PushBegin, PushWrite, consumerVars
<1>2. Dist(tail, head)' = Dist(tail, head) /\ Dist(tail, head) \in Nat
  BY <1>1, RingInv_Held DEF UdpInv, Dist, kStorageSize
<1>3. QED
  BY <1>1, <1>2
     DEF TrySendPushes, threadVars, counters, RingInv, UdpInv, UdpTypeOK, CallerShape,
         WorkerShape, Conservation, InFlight, SocketOutlivesWorker

(* A published packet is not in queued_ yet (cpp:41-45).                   *)
LEMMA TrySendPublishes_Inv ==
  ASSUME UdpInv, TrySendPublishes PROVE UdpInv'
<1>1. RingInv' /\ UNCHANGED <<tail, popPc, headVisible>> /\ pushPc' = "idle"
  BY PushPublish_Inv DEF TrySendPublishes, UdpInv, PushPublish, consumerVars
<1>2. Dist(tail, head)' = Dist(tail, head) + 1 /\ Dist(tail, head) \in Nat
  BY PushPublish_Dist DEF TrySendPublishes, UdpInv
<1>3. QED
  BY <1>1, <1>2
     DEF TrySendPublishes, counters, RingInv, UdpInv, UdpTypeOK, CallerShape,
         WorkerShape, Conservation, InFlight, SocketOutlivesWorker

(***************************************************************************)
(* The worker.                                                             *)
(***************************************************************************)
LEMMA TestRunning_Inv ==
  ASSUME UdpInv, TestRunning PROVE UdpInv'
<1>1. CASE runningVisible
  <2>1. UNCHANGED ringVars
    BY <1>1 DEF TestRunning, ringVars, producerVars
  <2>2. RingInv' /\ Dist(tail, head)' = Dist(tail, head) /\ Dist(tail, head) \in Nat
    BY <2>1, RingKept, RingInv_Held DEF UdpInv
  <2>3. QED
    BY <1>1, <2>1, <2>2
       DEF TestRunning, ringVars, counters, RingInv, UdpInv, UdpTypeOK, CallerShape, WorkerShape,
           Conservation, InFlight, SocketOutlivesWorker
<1>2. CASE ~runningVisible
  <2>1. /\ RingInv' /\ Dist(tail, head)' = Dist(tail, head)
        /\ Dist(tail, head) \in Nat
    <3>1. Dist(tail, head) \in Nat /\ Dist(head, head) = 0
      BY RingInv_Held, DistRange DEF UdpInv, RingInv, RingTypeOK
    <3>2. Dist(tailVisible, tail) + Dist(tail, head) = Dist(tailVisible, head)
      BY HeldWhole DEF UdpInv
    <3>3. IndexOrder'
      BY <1>2, <3>1, <3>2, DistRange
         DEF TestRunning, producerVars, UdpInv, RingInv, RingTypeOK, IndexOrder, Dist,
             kStorageSize
    <3>4. QED
      BY <1>2, <3>1, <3>3
         DEF TestRunning, producerVars, UdpInv, WorkerShape, UdpTypeOK, RingInv,
             RingTypeOK, InsidePush, InsidePop, Filled, NoDataRace, Between, Dist, Slots,
             kStorageSize
  <2>2. QED
    BY <1>2, <2>1
       DEF TestRunning, producerVars, counters, RingInv, UdpInv, UdpTypeOK, CallerShape,
           WorkerShape, Conservation, InFlight, SocketOutlivesWorker
<1>3. QED
  BY <1>1, <1>2

(* The worker leaves only from an empty ring (cpp:55).                     *)
LEMMA TestEmpty_Inv ==
  ASSUME UdpInv, TestEmpty PROVE UdpInv'
<1>1. /\ RingInv' /\ UNCHANGED <<head, tail, pushPc, popPc, headVisible>>
  BY DEF TestEmpty, AcquireHead, producerVars, consumerVars, UdpInv, WorkerShape, UdpTypeOK, RingInv,
         RingTypeOK, IndexOrder, InsidePush, InsidePop, Filled, NoDataRace, Between, Dist, Slots,
         kStorageSize
<1>2. Dist(tail, head)' = Dist(tail, head) /\ Dist(tail, head) \in Nat
  BY <1>1, RingInv_Held DEF UdpInv, Dist, kStorageSize
<1>3. QED
  BY <1>1, <1>2
     DEF TestEmpty, empty, producerVars, consumerVars, counters, RingInv, UdpInv,
         UdpTypeOK, CallerShape, WorkerShape, Conservation, InFlight, SocketOutlivesWorker

(* An unsuccessful try_pop in run() (cpp:56-60).                           *)
LEMMA PopsNothing_Inv ==
  ASSUME UdpInv, PopsNothing PROVE UdpInv'
<1>1. RingInv' /\ UNCHANGED <<head, tail, pushPc, popPc, headVisible>>
  BY PopNothing_Inv DEF PopsNothing, UdpInv, PopNothing, producerVars, consumerVars
<1>2. Dist(tail, head)' = Dist(tail, head) /\ Dist(tail, head) \in Nat
  BY <1>1, RingInv_Held DEF UdpInv, Dist, kStorageSize
<1>3. QED
  BY <1>1, <1>2
     DEF PopsNothing, PopNothing, counters, RingInv, UdpInv, UdpTypeOK, CallerShape, WorkerShape,
         Conservation, InFlight, SocketOutlivesWorker

(* try_pop inside run() (cpp:56).                                          *)
LEMMA Pops_Inv ==
  ASSUME UdpInv, Pops PROVE UdpInv'
<1>1. RingInv' /\ UNCHANGED <<head, tail, pushPc, headVisible>>
  BY PopBegin_Inv, PopRead_Inv DEF Pops, UdpInv, PopBegin, PopRead, producerVars
<1>2. Dist(tail, head)' = Dist(tail, head) /\ Dist(tail, head) \in Nat
  BY <1>1, RingInv_Held DEF UdpInv, Dist, kStorageSize
<1>3. QED
  BY <1>1, <1>2
     DEF Pops, threadVars, counters, RingInv, UdpInv, UdpTypeOK, CallerShape, WorkerShape,
         Conservation, InFlight, SocketOutlivesWorker

(* The packet leaves the ring and the worker holds it (cpp:56).            *)
LEMMA PopReturns_Inv ==
  ASSUME UdpInv, PopReturns PROVE UdpInv'
<1>1. RingInv' /\ UNCHANGED <<head, pushPc, headVisible>> /\ popPc' = "idle"
  BY PopRelease_Inv DEF PopReturns, UdpInv, PopRelease, producerVars
<1>2. Dist(tail, head)' = Dist(tail, head) - 1 /\ Dist(tail, head) \in Nat
  BY PopRelease_Dist DEF PopReturns, UdpInv
<1>3. QED
  BY <1>1, <1>2
     DEF PopReturns, counters, RingInv, UdpInv, UdpTypeOK, CallerShape, WorkerShape,
         Conservation, InFlight, SocketOutlivesWorker

(* An index becoming visible changes no count.                             *)
LEMMA IndexReachesThread_Inv ==
  ASSUME UdpInv, IndexReachesThread PROVE UdpInv'
<1>1. RingInv' /\ UNCHANGED <<head, tail, pushPc, popPc>>
  BY HeadReachesConsumer_Inv, TailReachesProducer_Inv
     DEF IndexReachesThread, Memory, UdpInv, HeadReachesConsumer, TailReachesProducer,
         producerVars, consumerVars
<1>2. Dist(tail, head)' = Dist(tail, head) /\ Dist(tail, head) \in Nat
  BY <1>1, RingInv_Held DEF UdpInv, Dist, kStorageSize
<1>3. workerPc = "test_empty" => headVisible' = head
  BY DEF IndexReachesThread, Memory, HeadReachesConsumer, TailReachesProducer, consumerVars,
         UdpInv, WorkerShape
<1>4. QED
  BY <1>1, <1>2, <1>3
     DEF IndexReachesThread, threadVars, counters, RingInv, UdpInv, UdpTypeOK,
         CallerShape, WorkerShape, Conservation, InFlight, SocketOutlivesWorker

-----------------------------------------------------------------------------
(* Every step of either thread keeps the invariant.                        *)
LEMMA UdpNext_Inv ==
  ASSUME UdpInv, [UdpNext]_udpVars PROVE UdpInv'
<1>1. CASE CallerCalls
  BY <1>1, StartFails_Inv, Start_Inv, TrySendIgnored_Inv, TrySendCalls_Inv, StopBegins_Inv
     DEF CallerCalls
<1>2. CASE CallerFinishes
  BY <1>2, TrySendDrops_Inv, TrySendPushes_Inv, TrySendPublishes_Inv, TrySendCounts_Inv,
     StopReturns_Inv DEF CallerFinishes
<1>3. CASE Worker
  BY <1>3, TestRunning_Inv, TestEmpty_Inv, PopsNothing_Inv, Pops_Inv, PopReturns_Inv,
     Sends_Inv DEF Worker
<1>4. CASE Visibility
  BY <1>4, RunningReachesWorker_Inv, IndexReachesThread_Inv DEF Visibility
<1>5. CASE UNCHANGED udpVars
  <2>1. RingInv' /\ Dist(tail, head)' = Dist(tail, head)
    BY <1>5, RingKept DEF udpVars, UdpInv
  <2>2. QED
    BY <1>5, <2>1
       DEF udpVars, ringVars, threadVars, counters, RingInv, UdpInv, UdpTypeOK, CallerShape,
           WorkerShape, Conservation, InFlight, SocketOutlivesWorker
<1>6. QED
  BY <1>1, <1>2, <1>3, <1>4, <1>5 DEF UdpNext

(* The inductive invariant holds for every capacity and number of packets. *)
THEOREM UdpInvariant == UdpSafetySpec => []UdpInv
<1>1. UdpInit => UdpInv
  BY UdpInit_Inv
<1>2. UdpInv /\ [UdpNext]_udpVars => UdpInv'
  BY UdpNext_Inv
<1>3. QED
  BY <1>1, <1>2, PTL DEF UdpSafetySpec

(***************************************************************************)
(* Packets are conserved between the simulation thread and the worker.     *)
(***************************************************************************)
THEOREM UdpConservation == UdpSafetySpec => []Conservation
BY UdpInvariant, PTL DEF UdpInv

(***************************************************************************)
(* The plain slot accesses of the simulation thread and the worker never   *)
(* race, although Start and StopReturns and the test of running_ order     *)
(* accesses in ways the two functions of the ring alone do not.            *)
(***************************************************************************)
THEOREM UdpHasNoDataRace == UdpSafetySpec => []NoDataRace
BY UdpInvariant, PTL DEF UdpInv, RingInv

(* The counters agree with the ring about how many packets wait.           *)
LEMMA WaitingIsHeld ==
  ASSUME UdpInv PROVE Waiting = Dist(tail, head)
<1>1. Dist(tail, head) \in Nat
  BY RingInv_Held DEF UdpInv
<1>2. QED
  BY <1>1 DEF Waiting, UdpInv, UdpTypeOK, Conservation, InFlight

(* Only TrySendDrops counts a drop and only PopsNothing goes back to the   *)
(* loop condition from try_pop.                                            *)
LEMMA RefusalsAre ==
  ASSUME UdpInv, [UdpNext]_udpVars
  PROVE  /\ queue_dropped' # queue_dropped => TrySendDrops
         /\ workerPc = "pop" /\ workerPc' = "test_running" => PopsNothing
<1>1. queue_dropped' # queue_dropped => TrySendDrops
  BY DEF UdpNext, udpVars, threadVars, counters, CallerCalls, CallerFinishes, Worker,
         Visibility, StartFails, Start, TrySendIgnored, TrySendCalls, TrySendPushes,
         TrySendPublishes, TrySendCounts, StopBegins, StopReturns, TestRunning, TestEmpty,
         Pops, PopReturns, Sends, RunningReachesWorker, IndexReachesThread,
         PopsNothing
<1>2. workerPc = "pop" /\ workerPc' = "test_running" => PopsNothing
  BY DEF UdpInv, CallerShape, TrySendDrops, UdpNext, udpVars, threadVars, counters, CallerCalls, CallerFinishes, Worker,
         Visibility, StartFails, Start, TrySendIgnored, TrySendCalls, TrySendPushes,
         TrySendPublishes, TrySendCounts, StopBegins, StopReturns, TestRunning, TestEmpty,
         Pops, PopReturns, Sends, RunningReachesWorker, IndexReachesThread
<1>3. QED
  BY <1>1, <1>2

(***************************************************************************)
(* For every capacity: a drop is counted only when Capacity packets wait,  *)
(* the worker gives up only when it can see none, and no more than         *)
(* Capacity ever wait, before as well as after a restart of the            *)
(* transmitter.                                                            *)
(***************************************************************************)
THEOREM UdpCapacity == UdpSafetySpec => UsableCapacity
<1>1. UdpInv => Waiting <= Capacity
  BY WaitingIsHeld, DistRange DEF UdpInv, RingInv, RingTypeOK
<1>2. UdpInv /\ (Waiting <= Capacity)' /\ [UdpNext]_udpVars =>
        [/\ queue_dropped' # queue_dropped => Waiting + Dist(tailVisible, tail) = Capacity
         /\ workerPc = "pop" /\ workerPc' = "test_running"
              => Waiting = Dist(headVisible, head)
         /\ Waiting' <= Capacity]_udpVars
  <2> SUFFICES ASSUME UdpInv, [UdpNext]_udpVars
               PROVE  /\ TrySendDrops => Waiting + Dist(tailVisible, tail) = Capacity
                      /\ PopsNothing => Waiting = Dist(headVisible, head)
    BY RefusalsAre
  <2>1. /\ Waiting = Dist(tail, head)
        /\ Dist(tail, head) \in Nat /\ Dist(tailVisible, tail) \in Nat
        /\ tail \in Slots /\ head \in Slots /\ tailVisible \in Slots
    BY WaitingIsHeld, RingInv_Held, DistRange DEF UdpInv, RingInv, RingTypeOK
  <2>2. ASSUME TrySendDrops PROVE Waiting + Dist(tailVisible, tail) = Capacity
    <3>1. Dist(tailVisible, head) = Capacity
      BY <2>1, <2>2, DistAdvance DEF TrySendDrops, PushRefused
    <3>2. Dist(tailVisible, tail) + Dist(tail, head) = Dist(tailVisible, head)
      BY HeldWhole DEF UdpInv
    <3>3. QED
      BY <2>1, <3>1, <3>2
  <2>3. ASSUME PopsNothing PROVE Waiting = Dist(headVisible, head)
    BY <2>1, <2>3 DEF PopsNothing, PopNothing
  <2>4. QED
    BY <2>2, <2>3
<1>3. QED
  BY <1>1, <1>2, UdpInvariant, PTL DEF UdpSafetySpec, UsableCapacity

(***************************************************************************)
(* When stop() has returned, every queued packet was handed to sendto: the *)
(* acquire load that reads running_ = false also brings the last head_.    *)
(***************************************************************************)
THEOREM UdpDrains == UdpSafetySpec => []DrainedWhenStopped
<1>1. UdpInv => DrainedWhenStopped
  <2> SUFFICES ASSUME UdpInv, workerPc = "none"
               PROVE  tail = head /\ queued = sent + send_errors
    BY DEF DrainedWhenStopped
  <2>1. tail = head /\ callerPc = "outside"
    BY DEF UdpInv, CallerShape, WorkerShape, UdpTypeOK
  <2>2. Dist(tail, head) = 0
    BY <2>1, DistRange DEF UdpInv, RingInv, RingTypeOK
  <2>3. QED
    BY <2>1, <2>2 DEF UdpInv, UdpTypeOK, Conservation, InFlight
<1>2. QED
  BY <1>1, UdpInvariant, PTL

-----------------------------------------------------------------------------
(***************************************************************************)
(* The transmitter's steps as steps of a queue: only TrySendPublishes puts *)
(* and only PopReturns takes.                                              *)
(***************************************************************************)
LEMMA QueueUntouched ==
  ASSUME UdpInv, [UdpNext]_udpVars, ~TrySendPublishes, ~PopReturns
  PROVE  Contents' = Contents /\ popped' = popped
<1>1. CASE TrySendPushes /\ PushWrite
  BY <1>1, PushWrite_Stutters DEF UdpInv, PushWrite, consumerVars
<1>2. CASE ~(TrySendPushes /\ PushWrite)
  <2>1. UNCHANGED <<storage, head, tail>> /\ popped' = popped
    BY <1>2
       DEF UdpNext, udpVars, ringVars, threadVars, CallerCalls, CallerFinishes, Worker,
           Visibility, StartFails, Start, TrySendIgnored, TrySendCalls, TrySendDrops,
           TrySendPushes, TrySendPublishes, TrySendCounts, StopBegins, StopReturns,
           TestRunning, TestEmpty, PopsNothing, Pops, PopReturns, Sends,
           RunningReachesWorker, IndexReachesThread, Memory, HeadReachesConsumer,
           TailReachesProducer, PushRefused, PushBegin, PopNothing, PopBegin, PopRead,
           producerVars, consumerVars
  <2>2. QED
    BY <2>1, QueueKept
<1>3. QED
  BY <1>1, <1>2

(* Every step of the transmitter is a step of BoundedFifo or leaves it     *)
(* unchanged, whatever start() and stop() do in between.                   *)
LEMMA UdpNext_Refines ==
  ASSUME UdpInv, [UdpNext]_udpVars
  PROVE  [Fifo!FifoNext]_(Fifo!fifoVars)
<1>1. CASE TrySendPublishes
  BY <1>1, PushPublish_Puts DEF TrySendPublishes, UdpInv, Fifo!FifoNext, Fifo!Put
<1>2. CASE PopReturns
  BY <1>2, PopRelease_Gets DEF PopReturns, UdpInv, Fifo!FifoNext, Fifo!Get
<1>3. CASE ~TrySendPublishes /\ ~PopReturns
  BY <1>3, QueueUntouched DEF Fifo!fifoVars
<1>4. QED
  BY <1>1, <1>2, <1>3

(***************************************************************************)
(* Between the two calls of try_send and sendto the packets pass through a *)
(* bounded first-in first-out queue, also across any number of stop() and  *)
(* start(): the ring is not reset by either, and the order in which join() *)
(* and the thread's start make an index visible skips no value of it.      *)
(***************************************************************************)
THEOREM UdpImplementsFifo == UdpSafetySpec => ImplementsFifo
<1>1. UdpInit => Fifo!FifoInit
  BY DEF UdpInit, RingInit, Fifo!FifoInit, Contents, Dist
<1>2. UdpInv /\ [UdpNext]_udpVars => [Fifo!FifoNext]_(Fifo!fifoVars)
  BY UdpNext_Refines
<1>3. QED
  BY <1>1, <1>2, UdpInvariant, PTL DEF UdpSafetySpec, ImplementsFifo, Fifo!FifoSpec

(* What the other steps do to the packet numbers.                          *)
LEMMA NumbersElsewhere ==
  ASSUME UdpInv, [UdpNext]_udpVars, ~TrySendPublishes, ~PopReturns
  PROVE  /\ \/ offered' = offered /\ (callerPc' = "pushing" => callerPc = "pushing")
            \/ offered' = offered + 1 /\ callerPc = "outside"
         /\ pushPc' # "idle" =>
              \/ offered' = offered /\ pushPc # "idle" /\ pushValue' = pushValue
              \/ offered' = offered /\ pushValue' = offered
BY DEF UdpInv, CallerShape,
       UdpNext, udpVars, ringVars, threadVars, CallerCalls, CallerFinishes, Worker,
       Visibility, StartFails, Start, TrySendIgnored, TrySendCalls, TrySendDrops,
       TrySendPushes, TrySendPublishes, TrySendCounts, StopBegins, StopReturns,
       TestRunning, TestEmpty, PopsNothing, Pops, PopReturns, Sends,
       RunningReachesWorker, IndexReachesThread, Memory, HeadReachesConsumer,
       TailReachesProducer, PushRefused, PushBegin, PushWrite, PopNothing, PopBegin, PopRead,
       producerVars, consumerVars

(* Packets in the ring are numbers of try_send calls.                      *)
LEMMA ValuesAreNumbers ==
  ASSUME UdpInv
  PROVE  /\ Contents \in Seq(Values) /\ Values \subseteq Nat
         /\ \A i \in 1 .. Len(Contents) : Contents[i] \in Nat
         /\ popped # NoValue => popped \in Nat
         /\ offered \in Nat
         /\ Len(Contents) \in Nat
<1>1. Contents \in Seq(Values)
  BY ContentsIsSeq DEF UdpInv
<1>2. Values \subseteq Nat /\ offered \in Nat
  BY PacketsAssumption DEF UdpInv, UdpTypeOK
<1>3. popped # NoValue => popped \in Values
  BY DEF UdpInv, RingInv, RingTypeOK
<1>4. /\ Len(Contents) \in Nat
      /\ \A i \in 1 .. Len(Contents) : Contents[i] \in Values
  BY <1>1
<1>5. QED
  BY <1>1, <1>2, <1>3, <1>4

(* Every step keeps the packet numbers increasing from the last one sent   *)
(* to the newest.                                                          *)
LEMMA Ordered_Step ==
  ASSUME UdpInv, Ordered, [UdpNext]_udpVars PROVE Ordered'
<1>1. CASE TrySendPublishes
  <2>1. /\ Contents' = Append(Contents, pushValue)
        /\ popped' = popped
    BY <1>1, PushPublish_Puts DEF TrySendPublishes, UdpInv
  <2>2. /\ pushValue = offered /\ offered' = offered /\ callerPc = "pushing"
        /\ callerPc' # "pushing" /\ pushPc' = "idle"
    BY <1>1 DEF TrySendPublishes, PushPublish, Ordered
  <2>3. Contents \in Seq(Nat) /\ offered \in Nat /\ (popped # NoValue => popped \in Nat)
    BY ValuesAreNumbers
  <2>4. /\ Len(Contents') = Len(Contents) + 1
        /\ \A i \in 1 .. Len(Contents) : Contents'[i] = Contents[i]
        /\ Contents'[Len(Contents) + 1] = offered
    BY <2>1, <2>2, <2>3
  <2>5. /\ \A i \in 1 .. Len(Contents) : Contents[i] \in Nat /\ Contents[i] < offered
        /\ \A i, j \in 1 .. Len(Contents) : i < j => Contents[i] < Contents[j]
        /\ popped # NoValue => /\ \A i \in 1 .. Len(Contents) : popped < Contents[i]
                               /\ popped < offered
        /\ Len(Contents) \in Nat
    BY <2>2, <2>3 DEF Ordered
  <2>6. \A i, j \in 1 .. Len(Contents') : i < j => Contents'[i] < Contents'[j]
    <3> SUFFICES ASSUME NEW i \in 1 .. Len(Contents'), NEW j \in 1 .. Len(Contents'), i < j
                 PROVE  Contents'[i] < Contents'[j]
      OBVIOUS
    <3>1. i \in 1 .. Len(Contents) /\ (j \in 1 .. Len(Contents) \/ j = Len(Contents) + 1)
      BY <2>4, <2>5
    <3>2. QED
      BY <3>1, <2>4, <2>5
  <2>7. \A i \in 1 .. Len(Contents') :
          /\ Contents'[i] <= offered'
          /\ popped' # NoValue => popped' < Contents'[i]
    <3> SUFFICES ASSUME NEW i \in 1 .. Len(Contents')
                 PROVE  /\ Contents'[i] <= offered'
                        /\ popped' # NoValue => popped' < Contents'[i]
      OBVIOUS
    <3>1. i \in 1 .. Len(Contents) \/ i = Len(Contents) + 1
      BY <2>4, <2>5
    <3>2. QED
      BY <3>1, <2>1, <2>2, <2>3, <2>4, <2>5
  <2>8. popped' # NoValue => popped' <= offered'
    BY <2>1, <2>2, <2>3, <2>5
  <2>9. QED
    BY <2>2, <2>6, <2>7, <2>8 DEF Ordered
<1>2. CASE PopReturns
  <2>1. Contents # <<>> /\ popped' = Head(Contents) /\ Contents' = Tail(Contents)
    BY <1>2, PopRelease_Gets DEF PopReturns, UdpInv
  <2>2. offered' = offered /\ callerPc' = callerPc /\ pushPc' = pushPc /\ pushValue' = pushValue
    BY <1>2 DEF PopReturns, PopRelease, producerVars
  <2>3. Contents \in Seq(Nat) /\ offered \in Nat
    BY ValuesAreNumbers
  <2>4. /\ Len(Contents') = Len(Contents) - 1 /\ Len(Contents) >= 1
        /\ \A i \in 1 .. Len(Contents) - 1 : Contents'[i] = Contents[i + 1]
        /\ popped' = Contents[1]
    BY <2>1, <2>3
  <2>5. /\ \A i \in 1 .. Len(Contents) : Contents[i] \in Nat /\ Contents[i] <= offered
        /\ \A i, j \in 1 .. Len(Contents) : i < j => Contents[i] < Contents[j]
        /\ callerPc = "pushing" => \A i \in 1 .. Len(Contents) : Contents[i] < offered
        /\ Len(Contents) \in Nat
    BY <2>3 DEF Ordered
  <2>6. \A i \in 1 .. Len(Contents') : i \in 1 .. Len(Contents) /\ i + 1 \in 1 .. Len(Contents)
                                      /\ Contents'[i] = Contents[i + 1] /\ 1 < i + 1
    BY <2>4, <2>5
  <2>7. 1 \in 1 .. Len(Contents)
    BY <2>4, <2>5
  <2>8. \A i, j \in 1 .. Len(Contents') : i < j => Contents'[i] < Contents'[j]
    BY <2>5, <2>6
  <2>9. /\ \A i \in 1 .. Len(Contents') : Contents'[i] <= offered'
        /\ callerPc' = "pushing" => \A i \in 1 .. Len(Contents') : Contents'[i] < offered'
    BY <2>2, <2>5, <2>6
  <2>10. /\ \A i \in 1 .. Len(Contents') : popped' < Contents'[i]
         /\ popped' <= offered'
         /\ callerPc' = "pushing" => popped' < offered'
    BY <2>2, <2>4, <2>5, <2>6, <2>7
  <2>11. pushPc' # "idle" => pushValue' = offered'
    BY <2>2 DEF Ordered
  <2>12. QED
    BY <2>8, <2>9, <2>10, <2>11 DEF Ordered
<1>3. CASE ~TrySendPublishes /\ ~PopReturns
  <2>1. Contents' = Contents /\ popped' = popped
    BY <1>3, QueueUntouched
  <2>2. /\ \/ offered' = offered /\ (callerPc' = "pushing" => callerPc = "pushing")
           \/ offered' = offered + 1 /\ callerPc = "outside"
        /\ pushPc' # "idle" =>
             \/ offered' = offered /\ pushPc # "idle" /\ pushValue' = pushValue
             \/ offered' = offered /\ pushValue' = offered
    BY <1>3, NumbersElsewhere
  <2>3. /\ \A i \in 1 .. Len(Contents) : Contents[i] \in Nat
        /\ popped # NoValue => popped \in Nat
        /\ offered \in Nat /\ Len(Contents) \in Nat
    BY ValuesAreNumbers
  <2>4. QED
    BY <2>1, <2>2, <2>3 DEF Ordered
<1>4. QED
  BY <1>1, <1>2, <1>3

(***************************************************************************)
(* For every capacity and number of packets: the worker sends in order and *)
(* never the same packet twice.                                            *)
(***************************************************************************)
THEOREM UdpSendsInOrder == UdpSafetySpec => SendsInOrder
<1>1. UdpInit => Ordered
  BY DEF UdpInit, RingInit, Ordered, Contents, Dist
<1>2. Ordered /\ UdpInv /\ [UdpNext]_udpVars => Ordered'
  BY Ordered_Step
<1>3. Ordered /\ UdpInv /\ [UdpNext]_udpVars
        => [workerPc # "send" /\ workerPc' = "send"
              => popped' \in Values /\ (popped # NoValue => popped' > popped)]_udpVars
  <2> SUFFICES ASSUME Ordered, UdpInv, [UdpNext]_udpVars,
                      workerPc # "send", workerPc' = "send"
               PROVE  popped' \in Values /\ (popped # NoValue => popped' > popped)
    OBVIOUS
  <2>1. PopReturns
    BY DEF UdpNext, udpVars, threadVars, CallerCalls, CallerFinishes, Worker,
           Visibility, StartFails, Start, TrySendIgnored, TrySendCalls, TrySendDrops,
           TrySendPushes, TrySendPublishes, TrySendCounts, StopBegins, StopReturns,
           TestRunning, TestEmpty, PopsNothing, Pops, Sends,
           RunningReachesWorker, IndexReachesThread
  <2>2. Contents # <<>> /\ popped' = Head(Contents)
    BY <2>1, PopRelease_Gets DEF PopReturns, UdpInv
  <2>3. Contents \in Seq(Values) /\ Values \subseteq Nat /\ (popped # NoValue => popped \in Nat)
    BY ValuesAreNumbers
  <2>4. popped' = Contents[1] /\ 1 \in 1 .. Len(Contents) /\ Contents[1] \in Values
    BY <2>2, <2>3
  <2>5. QED
    BY <2>3, <2>4 DEF Ordered
<1>4. QED
  BY <1>1, <1>2, <1>3, UdpInvariant, PTL DEF UdpSafetySpec, SendsInOrder
=============================================================================
