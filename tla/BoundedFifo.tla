---------------------------- MODULE BoundedFifo ----------------------------
(***************************************************************************)
(* What the single-producer single-consumer queue of the generator         *)
(* (src/generator/include/flightdeck/spsc_ring_buffer.hpp) promises to its *)
(* two callers: a first-in first-out queue of at most Capacity elements    *)
(* whose Put and Get take effect in one step.  It says nothing of slots,   *)
(* indices or memory order; SpscRingBuffer implements it.                  *)
(***************************************************************************)
EXTENDS Naturals, Sequences

CONSTANTS
  Values,    \* what the queue carries
  Capacity,  \* the number of usable elements
  NoValue    \* "nothing has been taken out yet"

VARIABLES
  queue,     \* the elements accepted and not yet taken, oldest first
  popped     \* the element the latest Get returned

fifoVars == <<queue, popped>>

FifoInit ==
  /\ queue = <<>>
  /\ popped = NoValue

Put(v) ==
  /\ Len(queue) < Capacity
  /\ queue' = Append(queue, v)
  /\ UNCHANGED popped

Get ==
  /\ queue # <<>>
  /\ popped' = Head(queue)
  /\ queue' = Tail(queue)

FifoNext == Get \/ \E v \in Values : Put(v)

FifoSpec == FifoInit /\ [][FifoNext]_fifoVars
=============================================================================
