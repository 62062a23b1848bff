--------------------------- MODULE SpscRingBuffer ---------------------------
(***************************************************************************)
(* SpscRingBuffer<T, Capacity> of the generator, one step per shared       *)
(* memory access that the other thread can observe.                        *)
(*                                                                         *)
(* One thread calls try_push and one calls try_pop.  An index is written   *)
(* by its owner with a release store and read by the other thread with an  *)
(* acquire load, so the other thread may still read an earlier value:      *)
(* tailVisible is the value of tail_ the producer's next acquire load      *)
(* returns, headVisible the value of head_ the consumer's does.  They      *)
(* follow tail_ and head_ through every value these indices took.          *)
(*                                                                         *)
(* storage_ is not atomic.  A slot access that the C++ memory model does   *)
(* not order before the other thread's next access is remembered in        *)
(* unorderedWrites (by the producer) or unorderedReads (by the consumer)   *)
(* until an acquire load of the other thread orders it.                    *)
(*                                                                         *)
(* A definition named X_What is definition X with one plausible mistake;   *)
(* no specification uses it.  With X replaced by it, TLC finds the         *)
(* property that PROJECT.json names violated.                              *)
(***************************************************************************)
EXTENDS Integers, Sequences

CONSTANTS
  Values,    \* what a slot can hold
  Capacity,  \* template parameter Capacity
  NoValue    \* a default-constructed slot; no value popped yet

ASSUME CapacityAssumption == Capacity \in Nat \ {0}
ASSUME NoValueAssumption == NoValue \notin Values

VARIABLES
  storage,          \* storage_
  head,             \* head_, written by the producer
  tail,             \* tail_, written by the consumer
  tailVisible,      \* the tail_ the producer can read
  headVisible,      \* the head_ the consumer can read
  pushPc,           \* where the producer is inside try_push
  pushValue,        \* the argument of try_push
  popPc,            \* where the consumer is inside try_pop
  popValue,         \* the local `value' of try_pop
  popped,           \* the value try_pop returned last
  unorderedWrites,  \* slots written, write not ordered before the consumer
  unorderedReads    \* slots read, read not ordered before the producer

producerVars == <<storage, head, tailVisible, pushPc, pushValue>>
consumerVars == <<tail, headVisible, popPc, popValue, popped>>
ringVars == <<storage, head, tail, tailVisible, headVisible, pushPc, pushValue,
              popPc, popValue, popped, unorderedWrites, unorderedReads>>

kStorageSize == Capacity + 1
Slots == 0 .. kStorageSize - 1

increment_NoWrap(index) == index + 1
increment(index) == (index + 1) % kStorageSize

(***************************************************************************)
(* How many increments lead from slot a to slot b.                         *)
(***************************************************************************)
Dist(a, b) == IF a <= b THEN b - a ELSE b - a + kStorageSize

(***************************************************************************)
(* The slots from a up to, not including, b.                               *)
(***************************************************************************)
Between(a, b) == {s \in Slots : Dist(a, s) < Dist(a, b)}

RingInit ==
  /\ storage = [s \in Slots |-> NoValue]
  /\ head = 0 /\ tail = 0
  /\ tailVisible = 0 /\ headVisible = 0
  /\ pushPc = "idle" /\ pushValue = NoValue
  /\ popPc = "idle" /\ popValue = NoValue
  /\ popped = NoValue
  /\ unorderedWrites = {} /\ unorderedReads = {}

-----------------------------------------------------------------------------
(***************************************************************************)
(* The producer: try_push(v).                                              *)
(***************************************************************************)

(* Acquiring tailVisible orders every read the consumer made before it     *)
(* stored that index; its later reads, of the slots from there to tail_    *)
(* and of the one it is about to release, stay unordered.                  *)
AcquireTail ==
  unorderedReads' = unorderedReads \cap
    (Between(tailVisible, tail) \cup (IF popPc = "release" THEN {tail} ELSE {}))

(* The two index loads and the test; full: return false.                   *)
PushRefused_OneEarly ==
  /\ pushPc = "idle"
  /\ tailVisible \in {increment(head), increment(increment(head))}
  /\ AcquireTail
  /\ UNCHANGED <<producerVars, consumerVars, unorderedWrites>>

PushRefused ==
  /\ pushPc = "idle"
  /\ increment(head) = tailVisible
  /\ AcquireTail
  /\ UNCHANGED <<producerVars, consumerVars, unorderedWrites>>

PushBegin_NoFullTest(v) ==
  /\ pushPc = "idle"
  /\ AcquireTail
  /\ pushPc' = "write"
  /\ pushValue' = v
  /\ UNCHANGED <<storage, head, tailVisible, consumerVars, unorderedWrites>>

PushBegin(v) ==
  /\ pushPc = "idle"
  /\ increment(head) # tailVisible
  /\ AcquireTail
  /\ pushPc' = "write"
  /\ pushValue' = v
  /\ UNCHANGED <<storage, head, tailVisible, consumerVars, unorderedWrites>>

(* storage_[head] = value                                                  *)
PushWrite ==
  /\ pushPc = "write"
  /\ storage' = [storage EXCEPT ![head] = pushValue]
  /\ unorderedWrites' = unorderedWrites \cup {head}
  /\ pushPc' = "publish"
  /\ UNCHANGED <<head, tailVisible, pushValue, consumerVars, unorderedReads>>

(* head_.store(next, release); return true                                 *)
PushPublish ==
  /\ pushPc = "publish"
  /\ head' = increment(head)
  /\ pushPc' = "idle"
  /\ UNCHANGED <<storage, tailVisible, pushValue, consumerVars,
                 unorderedWrites, unorderedReads>>

-----------------------------------------------------------------------------
(***************************************************************************)
(* The consumer: try_pop().                                                *)
(***************************************************************************)

(* Acquiring headVisible orders every write the producer made before it    *)
(* stored that index.                                                      *)
AcquireHead_Relaxed == UNCHANGED unorderedWrites
AcquireHead ==
  unorderedWrites' = unorderedWrites \cap
    (Between(headVisible, head) \cup (IF pushPc = "publish" THEN {head} ELSE {}))

(* The two index loads and the test; empty: return nullopt.                *)
PopNothing ==
  /\ popPc = "idle"
  /\ tail = headVisible
  /\ AcquireHead
  /\ UNCHANGED <<producerVars, consumerVars, unorderedReads>>

PopBegin ==
  /\ popPc = "idle"
  /\ tail # headVisible
  /\ AcquireHead
  /\ popPc' = "read"
  /\ UNCHANGED <<producerVars, tail, headVisible, popValue, popped, unorderedReads>>

(* T value = std::move(storage_[tail])                                     *)
PopRead ==
  /\ popPc = "read"
  /\ popValue' = storage[tail]
  /\ unorderedReads' = unorderedReads \cup {tail}
  /\ popPc' = "release"
  /\ UNCHANGED <<producerVars, tail, headVisible, popped, unorderedWrites>>

(* tail_.store(increment(tail), release); return value                     *)
PopRelease_KeepsSlot ==
  /\ popPc = "release"
  /\ popped' = popValue
  /\ popPc' = "idle"
  /\ UNCHANGED <<producerVars, tail, headVisible, popValue, unorderedWrites,
                 unorderedReads>>

PopRelease ==
  /\ popPc = "release"
  /\ tail' = increment(tail)
  /\ popped' = popValue
  /\ popPc' = "idle"
  /\ UNCHANGED <<producerVars, headVisible, popValue, unorderedWrites, unorderedReads>>

-----------------------------------------------------------------------------
(***************************************************************************)
(* A store to an index reaches the other thread some time after it is made *)
(* and in the order the stores were made.                                  *)
(***************************************************************************)
HeadReachesConsumer ==
  /\ headVisible # head
  /\ headVisible' = increment(headVisible)
  /\ UNCHANGED <<producerVars, tail, popPc, popValue, popped,
                 unorderedWrites, unorderedReads>>

TailReachesProducer ==
  /\ tailVisible # tail
  /\ tailVisible' = increment(tailVisible)
  /\ UNCHANGED <<storage, head, pushPc, pushValue, consumerVars,
                 unorderedWrites, unorderedReads>>

(***************************************************************************)
(* empty(), called by the consumer: its own tail_, the head_ it can see.   *)
(***************************************************************************)
empty == headVisible = tail

Producer == PushRefused \/ (\E v \in Values : PushBegin(v)) \/ PushWrite \/ PushPublish
Consumer == PopNothing \/ PopBegin \/ PopRead \/ PopRelease
Memory   == HeadReachesConsumer \/ TailReachesProducer

RingNext == Producer \/ Consumer \/ Memory

RingSpec == RingInit /\ [][RingNext]_ringVars

-----------------------------------------------------------------------------
RingTypeOK ==
  /\ storage \in [Slots -> Values \cup {NoValue}]
  /\ head \in Slots /\ tail \in Slots
  /\ tailVisible \in Slots /\ headVisible \in Slots
  /\ pushPc \in {"idle", "write", "publish"}
  /\ pushValue \in Values \cup {NoValue}
  /\ popPc \in {"idle", "read", "release"}
  /\ popValue \in Values \cup {NoValue}
  /\ popped \in Values \cup {NoValue}
  /\ unorderedWrites \subseteq Slots
  /\ unorderedReads \subseteq Slots

(***************************************************************************)
(* No data race on storage_: when the producer is about to write a slot,   *)
(* or the consumer to read one, the other thread's accesses to that slot   *)
(* have all been ordered before by an acquire load.  This is what makes    *)
(* the plain storage_[head] = value and std::move(storage_[tail]) defined. *)
(***************************************************************************)
NoDataRace ==
  /\ pushPc = "write" => head \notin unorderedReads
  /\ popPc = "read" => tail \notin unorderedWrites

(***************************************************************************)
(* The four views of the two indices keep their cyclic order: going round  *)
(* from the tail_ the producer sees one meets the real tail_, then the     *)
(* head_ the consumer sees, then the real head_, without a full turn.      *)
(***************************************************************************)
IndexOrder ==
  Dist(tailVisible, tail) + Dist(tail, headVisible) + Dist(headVisible, head)
    = Dist(tailVisible, head)

(***************************************************************************)
(* The inductive invariant of the ring.  Inside try_push the tested slot   *)
(* stays free and inside try_pop it stays taken, because an index only     *)
(* moves away from the other thread; what a slot holds between tail_ and   *)
(* head_ was put there by the producer.                                    *)
(***************************************************************************)
InsidePush ==
  pushPc # "idle" => increment(head) # tailVisible /\ pushValue \in Values

InsidePop ==
  /\ popPc # "idle" => tail # headVisible
  /\ popPc = "release" => popValue = storage[tail]

Filled ==
  /\ \A s \in Between(tail, head) : storage[s] \in Values
  /\ pushPc = "publish" => storage[head] = pushValue

RingInv ==
  /\ RingTypeOK
  /\ IndexOrder
  /\ InsidePush
  /\ InsidePop
  /\ Filled
  /\ NoDataRace

(***************************************************************************)
(* The ring implements BoundedFifo: its queue is the slots from tail_ to   *)
(* head_, a push takes effect at the release store of head_ and a pop at   *)
(* that of tail_.  So nothing is lost, duplicated, reordered or returned   *)
(* before it was written, whatever stale index a thread reads.             *)
(***************************************************************************)
Nth(first, i) == (first + i - 1) % kStorageSize
Contents == [i \in 1 .. Dist(tail, head) |-> storage[Nth(tail, i)]]

Fifo == INSTANCE BoundedFifo WITH queue <- Contents

ImplementsFifo == Fifo!FifoSpec
=============================================================================
