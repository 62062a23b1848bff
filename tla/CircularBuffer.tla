--------------------------- MODULE CircularBuffer ---------------------------
(***************************************************************************)
(* CircularBuffer of the server: a fixed array of `capacity' items, the    *)
(* index of the oldest and how many are in use.  It implements             *)
(* RecentWindow.                                                           *)
(***************************************************************************)
EXTENDS Integers, Sequences

CONSTANTS
  Samples,    \* what is pushed
  capacity,   \* the constructor rejects what is not a positive integer
  unused   \* an unused item

ASSUME capacityAssumption == capacity \in Nat \ {0}
ASSUME unusedAssumption == unused \notin Samples

VARIABLES items, start, length

bufferVars == <<items, start, length>>

Indices == 0 .. capacity - 1

BufferInit ==
  /\ items = [i \in Indices |-> unused]
  /\ start = 0
  /\ length = 0

clear ==
  /\ items' = [i \in Indices |-> unused]
  /\ start' = 0
  /\ length' = 0

push_NeverMovesStart(value) ==
  /\ items' = [items EXCEPT ![(start + length) % capacity] = value]
  /\ length' = IF length < capacity THEN length + 1 ELSE length
  /\ start' = start
push(value) ==
  /\ items' = [items EXCEPT ![(start + length) % capacity] = value]
  /\ IF length < capacity
       THEN length' = length + 1 /\ start' = start
       ELSE length' = length /\ start' = (start + 1) % capacity

BufferNext == clear \/ \E v \in Samples : push(v)
BufferSpec == BufferInit /\ [][BufferNext]_bufferVars

IndexOf(i) == (start + i - 1) % capacity
toArray == [i \in 1 .. length |-> items[IndexOf(i)]]

BufferTypeOK ==
  /\ items \in [Indices -> Samples \cup {unused}]
  /\ start \in Indices
  /\ length \in 0 .. capacity

(***************************************************************************)
(* toArray() is the latest `capacity' pushes in order, after any sequence  *)
(* of pushes and clears, however often the array has wrapped.              *)
(***************************************************************************)
Window == INSTANCE RecentWindow WITH window <- toArray
ImplementsWindow == Window!WindowSpec

(***************************************************************************)
(* The indices stay inside the array and toArray() never returns an unused *)
(* item, which its cast to T would hide.                                   *)
(***************************************************************************)
BufferInv ==
  /\ BufferTypeOK
  /\ \A i \in 1 .. length : toArray[i] \in Samples
=============================================================================
