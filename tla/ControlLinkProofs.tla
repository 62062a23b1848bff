-------------------------- MODULE ControlLinkProofs -------------------------
(***************************************************************************)
(* Proofs about ControlLink, for any faults, any number of commands, and   *)
(* any number of broken connections and exits: no command is lost while    *)
(* the relay runs, the flags settle on the newest command, and relay and   *)
(* simulator together are a CommandService.                                *)
(***************************************************************************)
EXTENDS ControlLink, SequenceTheorems, TLAPS

Queue(n) == backlog[n].toSimulator

LinkTypes ==
  /\ accepted \in Seq(Commands) /\ Len(accepted) <= MaxCommands
  /\ pending \in Seq(Ids)
  /\ connected \in BOOLEAN /\ simulatorUp \in BOOLEAN
  /\ toRelay \in Seq(Acks)
  /\ flags \subseteq Faults
  /\ backlog \in Seq(Connections)
  /\ applied \in [Ids -> Nat]
  /\ newestApplied \in [Faults -> 0 .. Len(accepted)]
  /\ acknowledged \subseteq Issued /\ flightAcks \subseteq acknowledged
  /\ forgotten \subseteq Issued

(* #pending holds issued commands in the order of their ids, all newer     *)
(* than any that was acknowledged.                                         *)
PendingOrdered ==
  /\ \A i \in 1 .. Len(pending) : pending[i] \in Issued
  /\ \A i, j \in 1 .. Len(pending) : i < j => pending[i] < pending[j]
  /\ \A i \in 1 .. Len(pending) : \A a \in acknowledged : a < pending[i]

(* The answers on the way are to the oldest pending commands, in order.    *)
AnswersInOrder ==
  /\ Len(toRelay) <= Len(pending)
  /\ \A i \in 1 .. Len(toRelay) : toRelay[i].id = pending[i] /\ applied[pending[i]] > 0

(* Only the newest connection can be open, and what is pending is what has *)
(* been answered over it and what is still on the way to the simulator.    *)
OpenQueue ==
  \A n \in 1 .. Len(backlog) : backlog[n].open =>
    /\ n = Len(backlog) /\ connected
    /\ Len(pending) = Len(toRelay) + Len(Queue(n))
    /\ \A i \in 1 .. Len(Queue(n)) : Queue(n)[i] = pending[Len(toRelay) + i]

(* Answers are on the way only over the connection the simulator serves.   *)
AnswersFromOpen ==
  toRelay # <<>> =>
    /\ connected
    /\ Len(backlog) <= 1
    /\ \A n \in 1 .. Len(backlog) : backlog[n].open

(* No connection holds a command that was acknowledged, or an older one.   *)
QueuesUnacknowledged ==
  \A n \in 1 .. Len(backlog) : \A i \in 1 .. Len(Queue(n)) :
    Queue(n)[i] \in Issued /\ \A a \in acknowledged : a < Queue(n)[i]

(* An answer of a process that has exited arrives before a new one applies *)
(* anything.                                                               *)
DeadAnswers ==
  (\E i \in 1 .. Len(toRelay) : ~toRelay[i].live) =>
    backlog = <<>> /\ \A f \in Faults : newestApplied[f] = 0

Answered(id) == id \in acknowledged \/ \E i \in 1 .. Len(toRelay) : toRelay[i].id = id

(* Of each fault: the newest command the process applied, once answered,   *)
(* is what the flag shows, and no answered command is newer.               *)
NewestHolds ==
  /\ \A f \in Faults : newestApplied[f] # 0 =>
       /\ accepted[newestApplied[f]].fault = f
       /\ Answered(newestApplied[f]) => (f \in flags <=> accepted[newestApplied[f]].enabled)
       /\ newestApplied[f] \in acknowledged => newestApplied[f] \in flightAcks
  /\ \A id \in flightAcks : id <= newestApplied[accepted[id].fault]
  /\ \A i \in 1 .. Len(toRelay) : toRelay[i].live =>
       toRelay[i].id <= newestApplied[accepted[toRelay[i].id].fault]

LinkInv ==
  /\ LinkTypes
  /\ RetainedUntilApplied
  /\ PendingOrdered /\ AnswersInOrder
  /\ OpenQueue /\ AnswersFromOpen /\ QueuesUnacknowledged
  /\ DeadAnswers /\ NewestHolds

-----------------------------------------------------------------------------
(* Facts about sequences.                                                  *)
LEMMA RangeOfAppend ==
  ASSUME NEW S, NEW s \in Seq(S), NEW e \in S
  PROVE  Range(Append(s, e)) = Range(s) \cup {e}
<1>1. Append(s, e) = s \o <<e>> /\ <<e>> \in Seq(S)
  BY AppendIsConcat
<1>2. Range(<<e>>) = {e}
  BY DEF Range
<1>3. Range(s \o <<e>>) = Range(s) \cup Range(<<e>>)
  BY <1>1, RangeConcatenation
<1>4. QED
  BY <1>1, <1>2, <1>3

LEMMA AppendCases ==
  ASSUME NEW S, NEW s \in Seq(S), NEW e \in S, NEW i \in 1 .. Len(Append(s, e))
  PROVE  \/ i \in 1 .. Len(s) /\ Append(s, e)[i] = s[i]
         \/ i = Len(s) + 1 /\ Append(s, e)[i] = e
<1>1. Len(s) \in Nat /\ Len(Append(s, e)) = Len(s) + 1
  BY AppendProperties
<1>2. i \in 1 .. Len(s) \/ i = Len(s) + 1
  BY <1>1
<1>3. QED
  BY <1>2, AppendProperties

LEMMA TailProperties ==
  ASSUME NEW S, NEW s \in Seq(S), s # <<>>
  PROVE  /\ Len(s) \in Nat \ {0} /\ Head(s) = s[1] /\ s[1] \in S
         /\ Tail(s) \in Seq(S) /\ Len(Tail(s)) = Len(s) - 1
         /\ \A i \in 1 .. Len(s) - 1 : Tail(s)[i] = s[i + 1]
BY EmptySeq, HeadTailProperties, ElementOfSeq

(* Removing what is at the head of a sequence is taking its tail.          *)
LEMMA RemoveHead ==
  ASSUME NEW S, NEW s \in Seq(S), s # <<>>
  PROVE  RemoveFirst(s, s[1]) = Tail(s)
<1> DEFINE I == {i \in 1 .. Len(s) : s[i] = s[1]}
<1>1. Len(s) \in Nat \ {0}
  BY EmptySeq
<1>2. 1 \in I /\ \A i \in I : 1 <= i /\ i \in Nat
  BY <1>1
<1>3. Min(I) = 1
  <2>1. \A x \in I : (\A y \in I : x <= y) => x = 1
    BY <1>2
  <2>2. \E x \in I : \A y \in I : x <= y
    BY <1>2
  <2> HIDE DEF I
  <2>3. QED
    BY <2>1, <2>2 DEF Min
<1>4. RemoveFirst(s, s[1]) = SubSeq(s, 1, 0) \o SubSeq(s, 2, Len(s))
  <2>1. RemoveFirst(s, s[1]) = RemoveAt(s, SelectInSeq(s, LAMBDA v : v = s[1]))
    BY <1>1, <1>2 DEF RemoveFirst
  <2>2. SelectInSeq(s, LAMBDA v : v = s[1]) = 1
    BY <1>2, <1>3 DEF SelectInSeq
  <2>3. RemoveAt(s, 1) = SubSeq(s, 1, 0) \o SubSeq(s, 2, Len(s))
    <3>1. 1 - 1 = 0 /\ 1 + 1 = 2
      OBVIOUS
    <3>2. QED
      BY <3>1, Zenon DEF RemoveAt
  <2>4. QED
    BY <2>1, <2>2, <2>3, Zenon
<1>5. SubSeq(s, 1, 0) = <<>> /\ SubSeq(s, 2, Len(s)) = Tail(s) /\ Tail(s) \in Seq(S)
  BY SubSeqEmpty, TailIsSubSeq, HeadTailProperties
<1>6. QED
  BY <1>4, <1>5, ConcatEmptySeq

LEMMA RangeOfTail ==
  ASSUME NEW S, NEW s \in Seq(S), s # <<>>
  PROVE  Range(s) = {s[1]} \cup Range(Tail(s))
<1>1. /\ Len(s) \in Nat \ {0} /\ DOMAIN s = 1 .. Len(s)
      /\ DOMAIN Tail(s) = 1 .. Len(s) - 1
      /\ \A i \in 1 .. Len(s) - 1 : Tail(s)[i] = s[i + 1]
  BY TailProperties, LenProperties
<1>2. ASSUME NEW i \in 1 .. Len(s) PROVE s[i] \in {s[1]} \cup Range(Tail(s))
  <2>1. CASE i = 1
    BY <2>1
  <2>2. CASE i # 1
    <3>1. i - 1 \in 1 .. Len(s) - 1 /\ Tail(s)[i - 1] = s[i]
      BY <1>1, <2>2
    <3>2. QED
      BY <1>1, <3>1 DEF Range
  <2>3. QED
    BY <2>1, <2>2
<1>3. ASSUME NEW i \in 1 .. Len(s) - 1 PROVE Tail(s)[i] \in Range(s)
  BY <1>1 DEF Range
<1>4. s[1] \in Range(s)
  BY <1>1 DEF Range
<1>5. QED
  BY <1>1, <1>2, <1>3, <1>4 DEF Range

-----------------------------------------------------------------------------
(* Nothing has happened yet.                                               *)
LEMMA Init_Inv == ASSUME Init PROVE LinkInv
<1>1. accepted = <<>> /\ pending = <<>> /\ toRelay = <<>> /\ backlog = <<>>
      /\ acknowledged = {} /\ flightAcks = {} /\ forgotten = {} /\ flags = {}
  BY DEF Init
<1>2. Len(<<>>) = 0 /\ <<>> \in Seq(Commands) /\ <<>> \in Seq(Ids) /\ <<>> \in Seq(Acks)
      /\ <<>> \in Seq(Connections)
  OBVIOUS
<1>3. LinkTypes
  <2>1. newestApplied \in [Faults -> 0 .. Len(accepted)] /\ applied \in [Ids -> Nat]
    BY <1>1, <1>2 DEF Init
  <2>2. connected \in BOOLEAN /\ simulatorUp \in BOOLEAN
    BY DEF Init
  <2>3. QED
    BY <1>1, <1>2, <2>1, <2>2, MaxCommandsAssumption DEF LinkTypes
<1>4. RetainedUntilApplied
  BY <1>1, <1>2 DEF RetainedUntilApplied, Issued, Range
<1>5. PendingOrdered /\ AnswersInOrder /\ OpenQueue /\ AnswersFromOpen /\ QueuesUnacknowledged
  BY <1>1, <1>2 DEF PendingOrdered, AnswersInOrder, OpenQueue, AnswersFromOpen,
                    QueuesUnacknowledged, Queue
<1>6. DeadAnswers /\ NewestHolds
  BY <1>1, <1>2 DEF Init, DeadAnswers, NewestHolds
<1>7. QED
  BY <1>3, <1>4, <1>5, <1>6 DEF LinkInv

linkVars == <<accepted, pending, connected, forgotten, toRelay, flags, applied, newestApplied,
              backlog, acknowledged, flightAcks>>

(* A refused command, a simulator that starts, and stuttering.             *)
LEMMA Unchanged_Inv ==
  ASSUME LinkInv, UNCHANGED linkVars, simulatorUp' \in BOOLEAN PROVE LinkInv'
<1>1. LinkTypes'
  BY DEF LinkInv, linkVars, LinkTypes, Issued
<1>2. RetainedUntilApplied' /\ PendingOrdered' /\ AnswersInOrder'
  BY DEF LinkInv, linkVars, RetainedUntilApplied, PendingOrdered, AnswersInOrder, Issued, Range
<1>3. OpenQueue' /\ AnswersFromOpen' /\ QueuesUnacknowledged' /\ DeadAnswers'
  BY DEF LinkInv, linkVars, OpenQueue, AnswersFromOpen, QueuesUnacknowledged, DeadAnswers,
         Queue, Issued
<1>4. NewestHolds'
  BY DEF LinkInv, linkVars, NewestHolds, Answered
<1>5. QED
  BY <1>1, <1>2, <1>3, <1>4 DEF LinkInv

(***************************************************************************)
(* What is written goes to the end of the open connection's queue.         *)
(***************************************************************************)
LEMMA WriteAppends ==
  ASSUME backlog \in Seq(Connections), OpenQueue, NEW id \in Ids, write(<<id>>)
  PROVE  /\ backlog' \in Seq(Connections) /\ Len(backlog') = Len(backlog)
         /\ \A n \in 1 .. Len(backlog) :
              /\ backlog'[n].open = backlog[n].open
              /\ Queue(n)' = IF backlog[n].open THEN Append(Queue(n), id) ELSE Queue(n)
              /\ Queue(n) \in Seq(Ids)
<1> DEFINE last == Len(backlog)
<1>1. ASSUME NEW n \in 1 .. last PROVE backlog[n] \in Connections /\ Queue(n) \in Seq(Ids)
  <2>1. backlog[n] \in Connections
    BY ElementOfSeq
  <2>2. QED
    BY <2>1 DEF Connections, Queue
<1>2. Attached <=> last # 0 /\ backlog[last].open
  BY DEF Attached, Last
<1>3. CASE ~Attached
  BY <1>1, <1>2, <1>3 DEF write, OpenQueue, Queue
<1>4. CASE Attached
  <2>1. last \in 1 .. last /\ last \in Nat
    BY <1>2, <1>4
  <2>2. backlog' = [backlog EXCEPT ![last] =
                      [backlog[last] EXCEPT !.toSimulator = Queue(last) \o <<id>>]]
    BY <1>4 DEF write, Queue
  <2>3. Queue(last) \o <<id>> = Append(Queue(last), id) /\ Append(Queue(last), id) \in Seq(Ids)
    BY <1>1, <2>1, AppendIsConcat
  <2> DEFINE entry == [backlog[last] EXCEPT !.toSimulator = Queue(last) \o <<id>>]
  <2>4. entry \in Connections /\ entry.open = backlog[last].open
        /\ entry.toSimulator = Append(Queue(last), id)
    BY <1>1, <2>1, <2>3 DEF Connections
  <2> HIDE DEF entry
  <2>5. backlog' = [backlog EXCEPT ![last] = entry]
    BY <2>2 DEF entry
  <2>6. backlog' \in Seq(Connections) /\ Len(backlog') = last
        /\ \A n \in 1 .. last : backlog'[n] = IF n = last THEN entry ELSE backlog[n]
    BY <2>1, <2>4, <2>5, ExceptSeq
  <2>7. ASSUME NEW n \in 1 .. last
        PROVE  /\ backlog'[n].open = backlog[n].open
               /\ Queue(n)' = IF backlog[n].open THEN Append(Queue(n), id) ELSE Queue(n)
    BY <1>2, <1>4, <2>4, <2>6, <2>7 DEF OpenQueue, Queue
  <2>8. QED
    BY <1>1, <2>6, <2>7
<1>5. QED
  BY <1>3, <1>4

(***************************************************************************)
(* A new command is newer than everything, is kept, and goes to the end of *)
(* the open connection (send).                                             *)
(***************************************************************************)
LEMMA CommandAccepted_Inv ==
  ASSUME LinkInv, NEW command \in Commands, CommandAccepted(command) PROVE LinkInv'
<1> DEFINE id == Len(accepted) + 1
<1> USE DEF LinkInv
<1>1. /\ connected /\ connected' = connected /\ id \in Ids /\ id \notin Issued
      /\ accepted' = Append(accepted, command)
      /\ pending' = Append(pending, id)
      /\ write(<<id>>)
      /\ UNCHANGED <<forgotten, toRelay, simulatorVars, ackVars>>
  BY MaxCommandsAssumption DEF CommandAccepted, LinkTypes, Ids, Issued
<1>2. /\ accepted' \in Seq(Commands) /\ Len(accepted') = id
      /\ \A i \in Issued : accepted'[i] = accepted[i]
      /\ Issued' = Issued \cup {id}
  BY <1>1 DEF LinkTypes, Issued
<1>3. /\ pending' \in Seq(Ids) /\ Len(pending') = Len(pending) + 1
      /\ \A i \in 1 .. Len(pending) : pending'[i] = pending[i]
      /\ pending'[Len(pending) + 1] = id
      /\ Len(pending) \in Nat
  BY <1>1 DEF LinkTypes
<1>4. /\ backlog' \in Seq(Connections) /\ Len(backlog') = Len(backlog)
      /\ \A n \in 1 .. Len(backlog) :
           /\ backlog'[n].open = backlog[n].open
           /\ Queue(n)' = IF backlog[n].open THEN Append(Queue(n), id) ELSE Queue(n)
           /\ Queue(n) \in Seq(Ids)
  BY <1>1, WriteAppends DEF LinkTypes
<1> HIDE DEF id
<1>5. \A i \in Issued : i < id
  BY <1>2 DEF Issued, LinkTypes, id
<1>6. LinkTypes'
  <2>1. newestApplied' \in [Faults -> 0 .. Len(accepted')]
    BY <1>1, <1>2 DEF LinkTypes, simulatorVars, id
  <2>2. Len(accepted') <= MaxCommands
    BY <1>1, <1>2 DEF Ids
  <2>3. acknowledged' \subseteq Issued' /\ flightAcks' \subseteq acknowledged'
        /\ forgotten' \subseteq Issued'
    BY <1>1, <1>2 DEF LinkTypes, ackVars
  <2>4. QED
    BY <1>1, <1>2, <1>3, <1>4, <2>1, <2>2, <2>3 DEF LinkTypes, simulatorVars
<1>7. RetainedUntilApplied'
  <2>1. Range(pending') = Range(pending) \cup {id}
    BY <1>1, RangeOfAppend DEF LinkTypes
  <2>2. QED
    BY <1>1, <1>2, <2>1 DEF RetainedUntilApplied, LinkTypes, ackVars, simulatorVars
<1>8. PendingOrdered'
  <2>1. Len(pending') = Len(pending) + 1 /\ Len(pending) \in Nat
    BY <1>1, <1>3 DEF LinkTypes
  <2>2. \A i \in 1 .. Len(pending') : i \in 1 .. Len(pending) \/ i = Len(pending) + 1
    BY <2>1
  <2>3. \A i \in 1 .. Len(pending) : pending'[i] = pending[i] /\ pending[i] \in Issued
    BY <1>3 DEF PendingOrdered
  <2>4. pending'[Len(pending) + 1] = id
    BY <1>3
  <2>5. \A a \in Issued : a < id /\ a \in Issued' /\ a \in Nat
    BY <1>1, <1>2, <1>5 DEF Issued, LinkTypes
  <2>6. id \in Issued'
    BY <1>1, <1>2, <1>5 DEF Issued, LinkTypes
  <2>7. \A i \in 1 .. Len(pending') : pending'[i] \in Issued'
    BY <2>2, <2>3, <2>4, <2>5, <2>6
  <2>8. ASSUME NEW i \in 1 .. Len(pending'), NEW j \in 1 .. Len(pending'), i < j
        PROVE  pending'[i] < pending'[j]
    <3>1. i \in 1 .. Len(pending)
      BY <2>1, <2>8
    <3>2. QED
      BY <2>2, <2>3, <2>4, <2>5, <2>8, <3>1 DEF PendingOrdered
  <2>9. \A i \in 1 .. Len(pending') : \A a \in acknowledged' : a < pending'[i]
    BY <1>1, <2>2, <2>3, <2>4, <2>5 DEF PendingOrdered, LinkTypes, ackVars
  <2>10. QED
    BY <2>7, <2>8, <2>9 DEF PendingOrdered
<1>9. AnswersInOrder'
  BY <1>1, <1>3 DEF AnswersInOrder, LinkTypes, simulatorVars
<1>10. OpenQueue'
  <2> SUFFICES ASSUME NEW n \in 1 .. Len(backlog), backlog[n].open
               PROVE  /\ n = Len(backlog) /\ connected
                      /\ Len(pending') = Len(toRelay) + Len(Queue(n)')
                      /\ \A i \in 1 .. Len(Queue(n)') : Queue(n)'[i] = pending'[Len(toRelay) + i]
    BY <1>1, <1>4 DEF OpenQueue
  <2>1. /\ n = Len(backlog) /\ connected
        /\ Len(pending) = Len(toRelay) + Len(Queue(n))
        /\ \A i \in 1 .. Len(Queue(n)) : Queue(n)[i] = pending[Len(toRelay) + i]
    BY DEF OpenQueue
  <2>2. Queue(n)' = Append(Queue(n), id) /\ Queue(n) \in Seq(Ids)
    BY <1>4
  <2>3. Len(toRelay) \in Nat /\ Len(Queue(n)) \in Nat
    BY <2>2 DEF LinkTypes
  <2>4. /\ Len(Queue(n)') = Len(Queue(n)) + 1
        /\ \A i \in 1 .. Len(Queue(n)) : Queue(n)'[i] = Queue(n)[i]
        /\ Queue(n)'[Len(Queue(n)) + 1] = id
    BY <1>1, <2>2
  <2>5. ASSUME NEW i \in 1 .. Len(Queue(n)) + 1
        PROVE  Queue(n)'[i] = pending'[Len(toRelay) + i]
    <3>1. CASE i = Len(Queue(n)) + 1
      <4>1. Len(toRelay) + i = Len(pending) + 1
        BY <2>1, <2>3, <3>1
      <4>2. QED
        BY <1>3, <2>4, <3>1, <4>1
    <3>2. CASE i \in 1 .. Len(Queue(n))
      <4>1. Len(toRelay) + i \in 1 .. Len(pending)
        BY <2>1, <2>3, <3>2
      <4>2. QED
        BY <1>3, <2>1, <2>4, <3>2, <4>1
    <3>3. QED
      BY <2>3, <3>1, <3>2
  <2>6. \A i \in 1 .. Len(Queue(n)') : Queue(n)'[i] = pending'[Len(toRelay) + i]
    BY <2>4, <2>5
  <2>7. Len(pending') = Len(toRelay) + Len(Queue(n)')
    BY <1>3, <2>1, <2>3, <2>4
  <2>8. QED
    BY <2>1, <2>6, <2>7
<1>11. AnswersFromOpen'
  BY <1>1, <1>4 DEF AnswersFromOpen
<1>12. QueuesUnacknowledged'
  <2> SUFFICES ASSUME NEW n \in 1 .. Len(backlog), NEW i \in 1 .. Len(Queue(n)')
               PROVE  Queue(n)'[i] \in Issued' /\ \A a \in acknowledged : a < Queue(n)'[i]
    BY <1>1, <1>4 DEF QueuesUnacknowledged, ackVars
  <2>1. \/ i \in 1 .. Len(Queue(n)) /\ Queue(n)'[i] = Queue(n)[i]
        \/ Queue(n)'[i] = id
    <3>1. Queue(n) \in Seq(Ids)
      BY <1>4
    <3>2. CASE backlog[n].open
      <4>1. Queue(n)' = Append(Queue(n), id)
        BY <1>4, <3>2
      <4>2. i \in 1 .. Len(Append(Queue(n), id))
        BY <4>1
      <4>3. QED
        BY <1>1, <3>1, <4>1, <4>2, AppendCases
    <3>3. CASE ~backlog[n].open
      BY <1>4, <3>3
    <3>4. QED
      BY <3>2, <3>3
  <2>2. QED
    BY <1>2, <1>5, <2>1 DEF QueuesUnacknowledged, LinkTypes
<1>13. DeadAnswers'
  <2>1. backlog = <<>> => backlog' = <<>>
    BY <1>4
  <2>2. QED
    BY <1>1, <2>1 DEF DeadAnswers, simulatorVars
<1>14. NewestHolds'
  <2>1. \A f \in Faults : newestApplied[f] # 0 => newestApplied[f] \in Issued
    BY DEF LinkTypes, Issued
  <2>2. \A i \in 1 .. Len(toRelay) : toRelay[i].id \in Issued
    BY DEF LinkTypes, AnswersInOrder, PendingOrdered
  <2>3. \A a \in flightAcks : a \in Issued
    BY DEF LinkTypes
  <2>4. QED
    BY <1>1, <1>2, <2>1, <2>2, <2>3 DEF NewestHolds, Answered, simulatorVars, ackVars
<1>15. QED
  BY <1>6, <1>7, <1>8, <1>9, <1>10, <1>11, <1>12, <1>13, <1>14

(***************************************************************************)
(* A new connection carries everything that is pending, and nothing has    *)
(* been answered over it (the "connect" listener).                         *)
(***************************************************************************)
LEMMA Connects_Inv == ASSUME LinkInv, Connects PROVE LinkInv'
<1> DEFINE entry == [toSimulator |-> pending, open |-> TRUE]
           last == Len(backlog)
<1> USE DEF LinkInv
<1>1. /\ ~connected /\ connected' = TRUE
      /\ backlog' = Append(backlog, entry)
      /\ UNCHANGED <<accepted, pending, forgotten, toRelay, simulatorVars, ackVars>>
  BY DEF Connects
<1>2. toRelay = <<>> /\ Len(toRelay) = 0
  BY <1>1 DEF AnswersFromOpen
<1>3. entry \in Connections /\ entry.open /\ entry.toSimulator = pending
  BY DEF LinkTypes, Connections
<1> HIDE DEF entry
<1>4. /\ backlog' \in Seq(Connections) /\ Len(backlog') = last + 1 /\ last \in Nat
      /\ \A n \in 1 .. last : backlog'[n] = backlog[n]
      /\ backlog'[last + 1] = entry
  BY <1>1, <1>3, AppendProperties DEF LinkTypes
<1>5. \A n \in 1 .. last : ~backlog[n].open
  BY <1>1 DEF OpenQueue
<1>6. LinkTypes'
  BY <1>1, <1>4 DEF LinkTypes, Issued, simulatorVars, ackVars
<1>7. RetainedUntilApplied' /\ PendingOrdered' /\ AnswersInOrder'
  BY <1>1 DEF RetainedUntilApplied, PendingOrdered, AnswersInOrder, Issued, Range,
              simulatorVars, ackVars
<1>8. OpenQueue'
  <2> SUFFICES ASSUME NEW n \in 1 .. last + 1, backlog'[n].open
               PROVE  /\ n = last + 1
                      /\ Len(pending) = Len(Queue(n)')
                      /\ \A i \in 1 .. Len(Queue(n)') : Queue(n)'[i] = pending[i]
    <3>1. Len(pending) \in Nat
      BY DEF LinkTypes
    <3>2. QED
      BY <1>1, <1>2, <1>4, <3>1 DEF OpenQueue
  <2>1. n = last + 1
    BY <1>4, <1>5
  <2>2. Queue(n)' = pending
    BY <1>3, <1>4, <2>1 DEF Queue
  <2>3. QED
    BY <2>1, <2>2
<1>9. AnswersFromOpen' /\ DeadAnswers'
  BY <1>1, <1>2 DEF AnswersFromOpen, DeadAnswers
<1>10. QueuesUnacknowledged'
  <2> SUFFICES ASSUME NEW n \in 1 .. last + 1, NEW i \in 1 .. Len(Queue(n)')
               PROVE  Queue(n)'[i] \in Issued /\ \A a \in acknowledged : a < Queue(n)'[i]
    BY <1>1, <1>4 DEF QueuesUnacknowledged, Issued, ackVars
  <2>1. CASE n \in 1 .. last
    BY <1>4, <2>1 DEF QueuesUnacknowledged, Queue
  <2>2. CASE n = last + 1
    <3>1. Queue(n)' = pending
      BY <1>3, <1>4, <2>2 DEF Queue
    <3>2. QED
      BY <3>1 DEF PendingOrdered
  <2>3. QED
    BY <1>4, <2>1, <2>2
<1>11. NewestHolds'
  BY <1>1 DEF NewestHolds, Answered, simulatorVars, ackVars
<1>12. QED
  BY <1>6, <1>7, <1>8, <1>9, <1>10, <1>11

(***************************************************************************)
(* An acknowledgement is of the oldest pending command (#acceptData).      *)
(***************************************************************************)
LEMMA TakesAckFacts ==
  ASSUME LinkInv, TakesAck
  PROVE  /\ connected /\ toRelay # <<>> /\ pending # <<>>
         /\ toRelay[1].id = pending[1] /\ pending[1] \in Ids
         /\ toRelay' = Tail(toRelay) /\ pending' = Tail(pending)
         /\ acknowledged' = acknowledged \cup {pending[1]}
         /\ flightAcks' = IF toRelay[1].live THEN flightAcks \cup {pending[1]} ELSE flightAcks
<1>1. connected /\ toRelay # <<>> /\ toRelay \in Seq(Acks) /\ pending \in Seq(Ids)
  BY DEF LinkInv, LinkTypes, TakesAck
<1>2. Len(toRelay) \in Nat \ {0} /\ Head(toRelay) = toRelay[1]
  BY <1>1, TailProperties
<1>3. pending # <<>> /\ toRelay[1].id = pending[1]
  BY <1>1, <1>2 DEF LinkInv, AnswersInOrder
<1>4. pending[1] \in Ids /\ RemoveFirst(pending, pending[1]) = Tail(pending)
  BY <1>1, <1>3, TailProperties, RemoveHead
<1>5. QED
  BY <1>1, <1>2, <1>3, <1>4 DEF TakesAck

LEMMA TakesAck_Inv == ASSUME LinkInv, TakesAck PROVE LinkInv'
<1> DEFINE id == pending[1]
<1>1. /\ connected /\ toRelay # <<>> /\ pending # <<>>
      /\ toRelay[1].id = id /\ id \in Ids
      /\ toRelay' = Tail(toRelay) /\ pending' = Tail(pending)
      /\ acknowledged' = acknowledged \cup {id}
      /\ flightAcks' = IF toRelay[1].live THEN flightAcks \cup {id} ELSE flightAcks
      /\ UNCHANGED <<accepted, connected, forgotten, simulatorVars, backlog>>
  BY TakesAckFacts DEF TakesAck
<1> USE DEF LinkInv
<1>2. /\ pending \in Seq(Ids) /\ Len(pending) \in Nat \ {0}
      /\ pending' \in Seq(Ids) /\ Len(pending') = Len(pending) - 1
      /\ \A i \in 1 .. Len(pending) - 1 : pending'[i] = pending[i + 1]
  BY <1>1, TailProperties DEF LinkTypes
<1>3. /\ toRelay \in Seq(Acks) /\ Len(toRelay) \in Nat \ {0}
      /\ toRelay' \in Seq(Acks) /\ Len(toRelay') = Len(toRelay) - 1
      /\ \A i \in 1 .. Len(toRelay) - 1 : toRelay'[i] = toRelay[i + 1]
  BY <1>1, TailProperties DEF LinkTypes
<1>4. id \in Issued /\ \A i \in 2 .. Len(pending) : id < pending[i]
  BY <1>2 DEF PendingOrdered
<1>5. applied[id] > 0
  BY <1>2, <1>3 DEF AnswersInOrder
<1> HIDE DEF id
<1>6. LinkTypes'
  <2>1. acknowledged' \subseteq Issued /\ flightAcks' \subseteq acknowledged'
    BY <1>1, <1>4 DEF LinkTypes
  <2>2. QED
    BY <1>1, <1>2, <1>3, <2>1 DEF LinkTypes, Issued, simulatorVars
<1>7. RetainedUntilApplied'
  <2>1. Range(pending) = {id} \cup Range(pending')
    BY <1>1, <1>2, RangeOfTail DEF id
  <2>2. id \notin Range(pending')
    <3>1. \A i \in 1 .. Len(pending) - 1 : pending'[i] # id
      BY <1>2, <1>4 DEF Issued
    <3>2. DOMAIN pending' = 1 .. Len(pending) - 1
      BY <1>2, LenProperties
    <3>3. QED
      BY <3>1, <3>2 DEF Range
  <2>3. QED
    BY <1>1, <1>5, <2>1, <2>2 DEF RetainedUntilApplied, Issued, simulatorVars
<1>8. PendingOrdered'
  <2>1. \A i \in 1 .. Len(pending') : i + 1 \in 2 .. Len(pending) /\ pending'[i] = pending[i + 1]
    BY <1>2
  <2>2. QED
    BY <1>1, <1>2, <1>4, <2>1 DEF PendingOrdered, Issued
<1>9. AnswersInOrder'
  BY <1>1, <1>2, <1>3 DEF AnswersInOrder, simulatorVars
<1>10. OpenQueue'
  <2> SUFFICES ASSUME NEW n \in 1 .. Len(backlog), backlog[n].open
               PROVE  /\ Len(pending') = Len(toRelay') + Len(Queue(n))
                      /\ \A i \in 1 .. Len(Queue(n)) : Queue(n)[i] = pending'[Len(toRelay') + i]
    BY <1>1 DEF OpenQueue, Queue
  <2>1. /\ Len(pending) = Len(toRelay) + Len(Queue(n))
        /\ \A i \in 1 .. Len(Queue(n)) : Queue(n)[i] = pending[Len(toRelay) + i]
    BY DEF OpenQueue
  <2>2. Len(Queue(n)) \in Nat
    BY ElementOfSeq DEF LinkTypes, Connections, Queue
  <2>3. ASSUME NEW i \in 1 .. Len(Queue(n))
        PROVE  /\ Len(toRelay') + i \in 1 .. Len(pending) - 1
               /\ Len(toRelay') + i + 1 = Len(toRelay) + i
    BY <1>2, <1>3, <2>1, <2>2
  <2>4. \A i \in 1 .. Len(Queue(n)) : Queue(n)[i] = pending'[Len(toRelay') + i]
    BY <1>2, <2>1, <2>3
  <2>5. QED
    BY <1>2, <1>3, <2>1, <2>2, <2>4
<1>11. AnswersFromOpen'
  BY <1>1 DEF AnswersFromOpen
<1>12. QueuesUnacknowledged'
  <2> SUFFICES ASSUME NEW n \in 1 .. Len(backlog), NEW i \in 1 .. Len(Queue(n))
               PROVE  id < Queue(n)[i]
    BY <1>1 DEF QueuesUnacknowledged, Queue, Issued
  <2>1. /\ Len(pending) = Len(toRelay) + Len(Queue(n))
        /\ Queue(n)[i] = pending[Len(toRelay) + i]
    BY <1>1 DEF AnswersFromOpen, OpenQueue
  <2>2. Len(Queue(n)) \in Nat
    BY ElementOfSeq DEF LinkTypes, Connections, Queue
  <2>3. Len(toRelay) + i \in 2 .. Len(pending)
    BY <1>3, <2>1, <2>2
  <2>4. QED
    BY <1>4, <2>1, <2>3
<1>13. DeadAnswers'
  BY <1>1, <1>3 DEF DeadAnswers, simulatorVars
<1>14. NewestHolds'
  <2>1. ~toRelay[1].live => \A f \in Faults : newestApplied[f] = 0
    BY <1>3 DEF DeadAnswers
  <2>3. ASSUME NEW f \in Faults, newestApplied[f] # 0
        PROVE  /\ accepted[newestApplied[f]].fault = f
               /\ Answered(newestApplied[f])' =>
                    (f \in flags <=> accepted[newestApplied[f]].enabled)
               /\ newestApplied[f] \in acknowledged' => newestApplied[f] \in flightAcks'
    <3>1. newestApplied[f] \in acknowledged => newestApplied[f] \in flightAcks
      BY <2>3 DEF NewestHolds
    <3>2. toRelay[1].live
      BY <2>1, <2>3
    <3>3. newestApplied[f] \in acknowledged' => newestApplied[f] \in flightAcks'
      BY <1>1, <3>1, <3>2, Zenon
    <3>4. Answered(newestApplied[f])' => Answered(newestApplied[f])
      <4>1. newestApplied' = newestApplied
        BY <1>1 DEF simulatorVars
      <4>2. ASSUME NEW i \in 1 .. Len(toRelay'), toRelay'[i].id = newestApplied[f]
            PROVE  \E j \in 1 .. Len(toRelay) : toRelay[j].id = newestApplied[f]
        BY <1>3, <4>2
      <4>3. id = newestApplied[f] => \E j \in 1 .. Len(toRelay) : toRelay[j].id = newestApplied[f]
        BY <1>1, <1>3
      <4>4. QED
        BY <1>1, <4>1, <4>2, <4>3 DEF Answered
    <3>5. QED
      BY <2>3, <3>3, <3>4, Zenon DEF NewestHolds
  <2>4. toRelay[1].live => id <= newestApplied[accepted[id].fault]
    BY <1>1, <1>3 DEF NewestHolds
  <2>5. \A x \in flightAcks' : x <= newestApplied[accepted[x].fault]
    BY <1>1, <2>4 DEF NewestHolds
  <2>6. \A i \in 1 .. Len(toRelay') : toRelay'[i].live =>
          toRelay'[i].id <= newestApplied[accepted[toRelay'[i].id].fault]
    BY <1>3 DEF NewestHolds
  <2>7. UNCHANGED <<accepted, newestApplied, flags>>
    BY <1>1 DEF simulatorVars
  <2> HIDE DEF LinkInv
  <2>8. QED
    BY <2>3, <2>5, <2>6, <2>7 DEF NewestHolds, Answered
<1>15. QED
  BY <1>6, <1>7, <1>8, <1>9, <1>10, <1>11, <1>12, <1>13, <1>14

(***************************************************************************)
(* The relay's end of the connection is gone: every queue keeps a prefix,  *)
(* none is open.                                                           *)
(***************************************************************************)
OnlyPrefixes ==
  /\ backlog' \in Seq(Connections) /\ Len(backlog') = Len(backlog)
  /\ \A n \in 1 .. Len(backlog) :
       /\ ~backlog'[n].open
       /\ Len(Queue(n)') <= Len(Queue(n))
       /\ \A i \in 1 .. Len(Queue(n)') : Queue(n)'[i] = Queue(n)[i]

LEMMA CutOffPrefixes ==
  ASSUME backlog \in Seq(Connections), OpenQueue, NEW kept \in Nat, CutOff(kept)
  PROVE  OnlyPrefixes
<1> DEFINE last == Len(backlog)
<1>1. ASSUME NEW n \in 1 .. last
      PROVE  backlog[n] \in Connections /\ Queue(n) \in Seq(Ids) /\ Len(Queue(n)) \in Nat
  <2>1. backlog[n] \in Connections
    BY ElementOfSeq
  <2>2. QED
    BY <2>1 DEF Connections, Queue
<1>2. Attached <=> last # 0 /\ backlog[last].open
  BY DEF Attached, Last
<1>3. CASE ~Attached
  <2>1. backlog' = backlog /\ \A n \in 1 .. last : ~backlog[n].open
    BY <1>2, <1>3 DEF CutOff, OpenQueue
  <2>2. QED
    BY <1>1, <2>1 DEF OnlyPrefixes, Queue
<1>4. CASE Attached
  <2> DEFINE entry == [toSimulator |-> SubSeq(Queue(last), 1, kept), open |-> FALSE]
  <2>1. last \in 1 .. last /\ last \in Nat
    BY <1>2, <1>4
  <2>2. kept <= Len(Queue(last)) /\ backlog' = [backlog EXCEPT ![last] = entry]
    BY <1>4 DEF CutOff, Queue, Last
  <2>3. /\ SubSeq(Queue(last), 1, kept) \in Seq(Ids)
        /\ Len(SubSeq(Queue(last), 1, kept)) = kept
        /\ \A i \in 1 .. kept : SubSeq(Queue(last), 1, kept)[i] = Queue(last)[i]
    BY <1>1, <2>1, <2>2
  <2>4. /\ entry \in Connections /\ ~entry.open
        /\ entry.toSimulator = SubSeq(Queue(last), 1, kept)
    BY <2>3 DEF Connections
  <2> HIDE DEF entry
  <2>5. /\ backlog' \in Seq(Connections) /\ Len(backlog') = last
        /\ \A n \in 1 .. last : backlog'[n] = IF n = last THEN entry ELSE backlog[n]
    BY <2>1, <2>2, <2>4, ExceptSeq
  <2>6. ASSUME NEW n \in 1 .. last
        PROVE  /\ ~backlog'[n].open
               /\ Len(Queue(n)') <= Len(Queue(n))
               /\ \A i \in 1 .. Len(Queue(n)') : Queue(n)'[i] = Queue(n)[i]
    <3>1. CASE n = last
      <4>1. Queue(n)' = SubSeq(Queue(last), 1, kept)
        BY <2>4, <2>5, <3>1 DEF Queue
      <4>2. QED
        BY <2>2, <2>3, <2>4, <2>5, <3>1, <4>1
    <3>2. CASE n # last
      <4>1. backlog'[n] = backlog[n] /\ ~backlog[n].open
        BY <2>5, <3>2 DEF OpenQueue
      <4>2. QED
        BY <1>1, <4>1 DEF Queue
    <3>3. QED
      BY <3>1, <3>2
  <2>7. QED
    BY <2>5, <2>6 DEF OnlyPrefixes
<1>5. QED
  BY <1>3, <1>4

(***************************************************************************)
(* "close": what was on the way to the relay is gone.  A relay that        *)
(* restarted forgets what was pending.                                     *)
(***************************************************************************)
LinkLost ==
  /\ connected' = FALSE /\ toRelay' = <<>>
  /\ OnlyPrefixes
  /\ \/ UNCHANGED <<pending, forgotten>>
     \/ pending' = <<>> /\ forgotten' = forgotten \cup Range(pending)
  /\ UNCHANGED <<accepted, simulatorVars, ackVars>>

LEMMA LinkLost_Inv == ASSUME LinkInv, LinkLost PROVE LinkInv'
<1> USE DEF LinkInv
<1>1. /\ connected' = FALSE /\ toRelay' = <<>> /\ Len(toRelay') = 0 /\ toRelay' \in Seq(Acks)
      /\ UNCHANGED <<accepted, simulatorVars, ackVars>>
  BY DEF LinkLost
<1>2. pending \in Seq(Ids) /\ Len(pending) \in Nat /\ Range(pending) \subseteq Issued
  <2>1. pending \in Seq(Ids)
    BY DEF LinkTypes
  <2>2. QED
    BY <2>1, LenProperties DEF PendingOrdered, Range
<1>4. ASSUME pending' = <<>>, forgotten' = forgotten \cup Range(pending)
      PROVE  LinkTypes' /\ RetainedUntilApplied' /\ PendingOrdered' /\ AnswersInOrder'
  <2>1. pending' \in Seq(Ids) /\ Len(pending') = 0 /\ Range(pending') = {}
    BY <1>4 DEF Range
  <2>2. LinkTypes'
    BY <1>1, <1>2, <1>4, <2>1 DEF LinkTypes, LinkLost, OnlyPrefixes, Issued, simulatorVars, ackVars
  <2>3. RetainedUntilApplied'
    BY <1>1, <1>4, <2>1 DEF RetainedUntilApplied, Issued, simulatorVars, ackVars
  <2>4. QED
    BY <1>1, <2>1, <2>2, <2>3 DEF PendingOrdered, AnswersInOrder
<1>5. LinkTypes' /\ RetainedUntilApplied' /\ PendingOrdered' /\ AnswersInOrder'
  <2>1. CASE UNCHANGED <<pending, forgotten>>
    <3>1. LinkTypes'
      BY <1>1, <2>1 DEF LinkTypes, LinkLost, OnlyPrefixes, Issued, simulatorVars, ackVars
    <3>2. RetainedUntilApplied' /\ PendingOrdered' /\ AnswersInOrder'
      BY <1>1, <1>2, <2>1 DEF RetainedUntilApplied, PendingOrdered, AnswersInOrder,
                              Issued, Range, simulatorVars, ackVars
    <3>3. QED
      BY <3>1, <3>2
  <2>2. QED
    BY <1>4, <2>1 DEF LinkLost
<1>6. OpenQueue' /\ AnswersFromOpen' /\ DeadAnswers'
  BY <1>1 DEF LinkLost, OnlyPrefixes, OpenQueue, AnswersFromOpen, DeadAnswers
<1>7. QueuesUnacknowledged'
  <2> SUFFICES ASSUME NEW n \in 1 .. Len(backlog), NEW i \in 1 .. Len(Queue(n)')
               PROVE  Queue(n)'[i] \in Issued /\ \A a \in acknowledged : a < Queue(n)'[i]
    BY <1>1 DEF LinkLost, OnlyPrefixes, QueuesUnacknowledged, Issued, ackVars
  <2>1. Len(Queue(n)) \in Nat
    BY ElementOfSeq DEF LinkTypes, Connections, Queue
  <2>2. Len(Queue(n)') \in Nat
    BY ElementOfSeq DEF LinkLost, OnlyPrefixes, Connections, Queue
  <2>3. i \in 1 .. Len(Queue(n)) /\ Queue(n)'[i] = Queue(n)[i]
    BY <2>1, <2>2 DEF LinkLost, OnlyPrefixes
  <2>4. QED
    BY <2>3 DEF QueuesUnacknowledged
<1>8. NewestHolds'
  BY <1>1 DEF NewestHolds, Answered, simulatorVars, ackVars
<1>9. QED
  BY <1>5, <1>6, <1>7, <1>8

LEMMA Disconnects_Inv ==
  ASSUME LinkInv, NEW kept \in 0 .. MaxCommands,
         SeesClose \/ ConnectionBreaks(kept) \/ ServerRestarts(kept)
  PROVE  LinkInv'
<1>1. backlog \in Seq(Connections) /\ OpenQueue /\ kept \in Nat
  BY MaxCommandsAssumption DEF LinkInv, LinkTypes
<1>2. CASE SeesClose
  <2>1. CutOff(0)
    BY <1>2 DEF SeesClose, CutOff
  <2>2. LinkLost
    BY <1>1, <1>2, <2>1, CutOffPrefixes DEF SeesClose, LinkLost
  <2>3. QED
    BY <2>2, LinkLost_Inv
<1>3. CASE ConnectionBreaks(kept)
  <2>1. LinkLost
    BY <1>1, <1>3, CutOffPrefixes DEF ConnectionBreaks, LinkLost
  <2>2. QED
    BY <2>1, LinkLost_Inv
<1>4. CASE ServerRestarts(kept)
  <2>1. LinkLost
    BY <1>1, <1>4, CutOffPrefixes DEF ServerRestarts, LinkLost
  <2>2. QED
    BY <2>1, LinkLost_Inv
<1>5. QED
  BY <1>2, <1>3, <1>4

(***************************************************************************)
(* The simulator turns to the next connection after an empty, closed one.  *)
(***************************************************************************)
LEMMA AcceptsNext_Inv == ASSUME LinkInv, AcceptsNext PROVE LinkInv'
<1> USE DEF LinkInv
<1>1. /\ backlog # <<>> /\ ~backlog[1].open
      /\ backlog' = Tail(backlog)
      /\ UNCHANGED <<accepted, pending, connected, forgotten, toRelay, simulatorVars, ackVars>>
  BY DEF AcceptsNext, relayVars
<1>2. /\ Len(backlog) \in Nat \ {0}
      /\ backlog' \in Seq(Connections) /\ Len(backlog') = Len(backlog) - 1
      /\ \A n \in 1 .. Len(backlog) - 1 : backlog'[n] = backlog[n + 1]
  BY <1>1, TailProperties DEF LinkTypes
<1>3. toRelay = <<>> /\ Len(toRelay) = 0
  BY <1>1, <1>2 DEF AnswersFromOpen
<1>4. \A n \in 1 .. Len(backlog') : n + 1 \in 1 .. Len(backlog) /\ Queue(n)' = Queue(n + 1)
                                   /\ backlog'[n].open = backlog[n + 1].open
  BY <1>2 DEF Queue
<1>5. LinkTypes'
  BY <1>1, <1>2 DEF LinkTypes, Issued, simulatorVars, ackVars
<1>6. RetainedUntilApplied' /\ PendingOrdered' /\ AnswersInOrder'
  BY <1>1 DEF RetainedUntilApplied, PendingOrdered, AnswersInOrder, Issued, Range,
              simulatorVars, ackVars
<1>7. OpenQueue'
  <2> SUFFICES ASSUME NEW n \in 1 .. Len(backlog'), backlog'[n].open
               PROVE  /\ n = Len(backlog') /\ connected
                      /\ Len(pending) = Len(toRelay) + Len(Queue(n)')
                      /\ \A i \in 1 .. Len(Queue(n)') : Queue(n)'[i] = pending[Len(toRelay) + i]
    BY <1>1 DEF OpenQueue
  <2>1. n + 1 = Len(backlog) /\ connected
        /\ Len(pending) = Len(toRelay) + Len(Queue(n + 1))
        /\ \A i \in 1 .. Len(Queue(n + 1)) : Queue(n + 1)[i] = pending[Len(toRelay) + i]
    BY <1>4 DEF OpenQueue
  <2>2. QED
    BY <1>2, <1>4, <2>1
<1>8. AnswersFromOpen' /\ DeadAnswers'
  BY <1>1, <1>3 DEF AnswersFromOpen, DeadAnswers
<1>9. QueuesUnacknowledged'
  BY <1>1, <1>4 DEF QueuesUnacknowledged, Issued, ackVars
<1>10. NewestHolds'
  BY <1>1 DEF NewestHolds, Answered, simulatorVars, ackVars
<1>11. QED
  BY <1>5, <1>6, <1>7, <1>8, <1>9, <1>10

(***************************************************************************)
(* A prefix of a dead process's answers is still read; nothing else of it  *)
(* remains.                                                                *)
(***************************************************************************)
LEMMA SimulatorExits_Inv ==
  ASSUME LinkInv, NEW kept \in 0 .. MaxCommands, SimulatorExits(kept)
  PROVE  LinkInv'
<1> USE DEF LinkInv
<1>1. /\ simulatorUp' = FALSE /\ flags' = {} /\ backlog' = <<>>
      /\ newestApplied' = [f \in Faults |-> 0]
      /\ kept <= Len(toRelay) /\ kept \in Nat /\ flightAcks' = {}
      /\ toRelay' = [i \in 1 .. kept |-> [toRelay[i] EXCEPT !.live = FALSE]]
      /\ UNCHANGED <<accepted, pending, connected, forgotten, applied, acknowledged>>
  BY MaxCommandsAssumption DEF SimulatorExits, relayVars
<1>2. toRelay \in Seq(Acks) /\ Len(toRelay) \in Nat
  BY DEF LinkTypes
<1>3. ASSUME NEW i \in 1 .. kept
      PROVE  i \in 1 .. Len(toRelay) /\ toRelay'[i] \in Acks
             /\ toRelay'[i].id = toRelay[i].id /\ ~toRelay'[i].live
  <2>1. i \in 1 .. Len(toRelay) /\ toRelay[i] \in Acks
    BY <1>1, <1>2, ElementOfSeq
  <2>2. toRelay'[i] = [toRelay[i] EXCEPT !.live = FALSE]
    BY <1>1
  <2>3. QED
    BY <2>1, <2>2 DEF Acks
<1>4. toRelay' \in Seq(Acks) /\ Len(toRelay') = kept
  BY <1>1, <1>3
<1>5. LinkTypes'
  <2>1. newestApplied' \in [Faults -> 0 .. Len(accepted)]
    <3>1. Len(accepted) \in Nat
      BY DEF LinkTypes
    <3>2. QED
      BY <1>1, <3>1
  <2>2. backlog' \in Seq(Connections)
    BY <1>1
  <2>3. QED
    BY <1>1, <1>4, <2>1, <2>2 DEF LinkTypes, Issued
<1>6. RetainedUntilApplied' /\ PendingOrdered'
  BY <1>1 DEF RetainedUntilApplied, PendingOrdered, Issued, Range
<1>7. AnswersInOrder'
  <2>1. Len(pending) \in Nat /\ Len(toRelay) <= Len(pending)
    BY DEF LinkTypes, AnswersInOrder
  <2>2. QED
    BY <1>1, <1>2, <1>3, <1>4, <2>1 DEF AnswersInOrder
<1>8. Len(backlog') = 0
  BY <1>1
<1>9. OpenQueue' /\ AnswersFromOpen' /\ QueuesUnacknowledged' /\ DeadAnswers'
  <2>1. toRelay' # <<>> => connected'
    BY <1>1, <1>2, <1>4 DEF AnswersFromOpen
  <2>2. QED
    BY <1>1, <1>8, <2>1 DEF OpenQueue, AnswersFromOpen, QueuesUnacknowledged, DeadAnswers
<1>10. NewestHolds'
  BY <1>1, <1>3, <1>4 DEF NewestHolds
<1>11. QED
  BY <1>5, <1>6, <1>7, <1>9, <1>10

(***************************************************************************)
(* The simulator takes the oldest command of the connection it serves.     *)
(***************************************************************************)
LEMMA ServesFacts ==
  ASSUME LinkInv, Serves(1), NEW id, id = Queue(1)[1]
  PROVE  /\ Len(backlog) \in Nat \ {0} /\ id \in Issued /\ id \in Ids
         /\ accepted[id].fault \in Faults
         /\ flags' = IF accepted[id].enabled THEN flags \cup {accepted[id].fault}
                     ELSE flags \ {accepted[id].fault}
         /\ applied' = [applied EXCEPT ![id] = @ + 1]
         /\ newestApplied' = [newestApplied EXCEPT ![accepted[id].fault] =
                                IF id > @ THEN id ELSE @]
         /\ toRelay' = IF backlog[1].open THEN Append(toRelay, [id |-> id, live |-> TRUE])
                       ELSE toRelay
         /\ backlog' \in Seq(Connections) /\ Len(backlog') = Len(backlog)
         /\ \A n \in 1 .. Len(backlog) :
              /\ backlog'[n].open = backlog[n].open
              /\ n # 1 => Queue(n)' = Queue(n)
         /\ Len(Queue(1)) \in Nat \ {0} /\ Len(Queue(1)') = Len(Queue(1)) - 1
         /\ \A i \in 1 .. Len(Queue(1)) - 1 : Queue(1)'[i] = Queue(1)[i + 1]
         /\ UNCHANGED <<accepted, pending, connected, forgotten, simulatorUp,
                        acknowledged, flightAcks>>
<1> USE DEF LinkInv
<1>1. backlog \in Seq(Connections) /\ 1 \in 1 .. Len(backlog) /\ Len(backlog) \in Nat \ {0}
  BY DEF LinkTypes, Serves
<1>2. backlog[1] \in Connections /\ Queue(1) \in Seq(Ids) /\ Queue(1) # <<>>
  <2>1. backlog[1] \in Connections
    BY <1>1, ElementOfSeq
  <2>2. QED
    BY <2>1 DEF Connections, Queue, Serves
<1>3. /\ Head(Queue(1)) = id /\ id \in Ids
      /\ Len(Queue(1)) \in Nat \ {0}
      /\ Tail(Queue(1)) \in Seq(Ids) /\ Len(Tail(Queue(1))) = Len(Queue(1)) - 1
      /\ \A i \in 1 .. Len(Queue(1)) - 1 : Tail(Queue(1))[i] = Queue(1)[i + 1]
  BY <1>2, TailProperties
<1>4. id \in Issued
  BY <1>1, <1>3 DEF QueuesUnacknowledged
<1>5. accepted[id].fault \in Faults
  <2>1. accepted[id] \in Commands
    BY <1>4, ElementOfSeq DEF LinkTypes, Issued
  <2>2. QED
    BY <2>1 DEF Commands
<1> DEFINE entry == [backlog[1] EXCEPT !.toSimulator = Tail(Queue(1))]
<1>6. entry \in Connections /\ entry.open = backlog[1].open /\ entry.toSimulator = Tail(Queue(1))
  BY <1>2, <1>3 DEF Connections
<1>7. backlog' = [backlog EXCEPT ![1] = entry]
  BY DEF Serves, Queue
<1> HIDE DEF entry
<1>8. /\ backlog' \in Seq(Connections) /\ Len(backlog') = Len(backlog)
      /\ \A n \in 1 .. Len(backlog) : backlog'[n] = IF n = 1 THEN entry ELSE backlog[n]
  BY <1>1, <1>6, <1>7, ExceptSeq
<1>9. \A n \in 1 .. Len(backlog) :
        /\ backlog'[n].open = backlog[n].open
        /\ n # 1 => Queue(n)' = Queue(n)
  BY <1>6, <1>8 DEF Queue
<1>10. Queue(1)' = Tail(Queue(1))
  BY <1>1, <1>6, <1>8 DEF Queue
<1>11. Head(backlog[1].toSimulator) = id
  BY <1>3 DEF Queue
<1>12. QED
  BY <1>1, <1>3, <1>4, <1>5, <1>8, <1>9, <1>10, <1>11 DEF Serves, Flag, relayVars, ackVars

LEMMA HandlesCommand_Inv == ASSUME LinkInv, HandlesCommand PROVE LinkInv'
<1> DEFINE id == Queue(1)[1]
           fault == accepted[id].fault
           ack == [id |-> id, live |-> TRUE]
<1>1. Serves(1)
  BY DEF HandlesCommand
<1>2. /\ Len(backlog) \in Nat \ {0} /\ id \in Issued /\ id \in Ids
      /\ fault \in Faults
      /\ flags' = IF accepted[id].enabled THEN flags \cup {fault} ELSE flags \ {fault}
      /\ applied' = [applied EXCEPT ![id] = @ + 1]
      /\ newestApplied' = [newestApplied EXCEPT ![fault] = IF id > @ THEN id ELSE @]
      /\ toRelay' = IF backlog[1].open THEN Append(toRelay, ack) ELSE toRelay
      /\ backlog' \in Seq(Connections) /\ Len(backlog') = Len(backlog)
      /\ \A n \in 1 .. Len(backlog) :
           /\ backlog'[n].open = backlog[n].open
           /\ n # 1 => Queue(n)' = Queue(n)
      /\ Len(Queue(1)) \in Nat \ {0} /\ Len(Queue(1)') = Len(Queue(1)) - 1
      /\ \A i \in 1 .. Len(Queue(1)) - 1 : Queue(1)'[i] = Queue(1)[i + 1]
      /\ UNCHANGED <<accepted, pending, connected, forgotten, simulatorUp,
                     acknowledged, flightAcks>>
  BY <1>1, ServesFacts
<1>3. ack \in Acks /\ ack.id = id /\ ack.live
  BY <1>2 DEF Acks
<1>4. \A a \in acknowledged : a < id
  BY <1>2 DEF LinkInv, QueuesUnacknowledged
<1>5. /\ toRelay \in Seq(Acks) /\ Len(toRelay) \in Nat
      /\ pending \in Seq(Ids) /\ Len(pending) \in Nat
      /\ applied \in [Ids -> Nat] /\ newestApplied \in [Faults -> 0 .. Len(accepted)]
      /\ accepted \in Seq(Commands) /\ Len(accepted) \in Nat
  BY DEF LinkInv, LinkTypes
<1>6. backlog[1].open =>
        /\ Len(backlog) = 1 /\ connected
        /\ Len(pending) = Len(toRelay) + Len(Queue(1))
        /\ \A i \in 1 .. Len(Queue(1)) : Queue(1)[i] = pending[Len(toRelay) + i]
  BY <1>2 DEF LinkInv, OpenQueue
<1>7. ~backlog[1].open => toRelay = <<>>
  BY <1>2 DEF LinkInv, AnswersFromOpen
<1>8. backlog[1].open => id = pending[Len(toRelay) + 1]
  BY <1>2, <1>6
<1> HIDE DEF id, fault, ack
<1>9. /\ toRelay' \in Seq(Acks)
      /\ \A i \in 1 .. Len(toRelay') :
           \/ i \in 1 .. Len(toRelay) /\ toRelay'[i] = toRelay[i]
           \/ i = Len(toRelay) + 1 /\ toRelay'[i] = ack /\ backlog[1].open
  <2>1. CASE backlog[1].open
    BY <1>2, <1>3, <1>5, <2>1, AppendProperties, AppendCases
  <2>2. CASE ~backlog[1].open
    BY <1>2, <1>5, <2>2
  <2>3. QED
    BY <2>1, <2>2
<1>10. applied' \in [Ids -> Nat] /\ applied'[id] > 0
       /\ \A x \in Ids : applied[x] > 0 => applied'[x] > 0
  BY <1>2, <1>5
<1>11. /\ newestApplied' \in [Faults -> 0 .. Len(accepted)]
       /\ newestApplied'[fault] = IF id > newestApplied[fault] THEN id ELSE newestApplied[fault]
       /\ \A f \in Faults \ {fault} : newestApplied'[f] = newestApplied[f]
  BY <1>2, <1>5 DEF Issued
<1>12. LinkTypes'
  <2>1. flags' \subseteq Faults
    BY <1>2 DEF LinkInv, LinkTypes
  <2>2. QED
    BY <1>2, <1>9, <1>10, <1>11, <2>1 DEF LinkInv, LinkTypes, Issued
<1>13. RetainedUntilApplied'
  <2>1. acknowledged \subseteq Ids
    BY <1>5, MaxCommandsAssumption DEF LinkInv, LinkTypes, Issued, Ids
  <2>2. QED
    BY <1>2, <1>10, <2>1 DEF LinkInv, RetainedUntilApplied, Issued, Range
<1>14. PendingOrdered'
  BY <1>2 DEF LinkInv, PendingOrdered, Issued
<1>15. AnswersInOrder'
  <2>1. Len(toRelay') <= Len(pending)
    BY <1>2, <1>3, <1>5, <1>6 DEF LinkInv, AnswersInOrder
  <2>2. ASSUME NEW i \in 1 .. Len(toRelay')
        PROVE  toRelay'[i].id = pending[i] /\ applied'[pending[i]] > 0
    <3>1. CASE i \in 1 .. Len(toRelay) /\ toRelay'[i] = toRelay[i]
      <4>1. toRelay[i].id = pending[i] /\ applied[pending[i]] > 0
        BY <3>1 DEF LinkInv, AnswersInOrder
      <4>2. pending[i] \in Ids
        BY <1>5, <3>1, ElementOfSeq DEF LinkInv, AnswersInOrder
      <4>3. QED
        BY <1>10, <3>1, <4>1, <4>2
    <3>2. CASE i = Len(toRelay) + 1 /\ toRelay'[i] = ack /\ backlog[1].open
      BY <1>3, <1>8, <1>10, <3>2
    <3>3. QED
      BY <1>9, <3>1, <3>2
  <2>3. QED
    BY <1>2, <2>1, <2>2 DEF AnswersInOrder
<1>16. OpenQueue'
  <2> SUFFICES ASSUME NEW n \in 1 .. Len(backlog), backlog[n].open
               PROVE  /\ n = Len(backlog) /\ connected
                      /\ Len(pending) = Len(toRelay') + Len(Queue(n)')
                      /\ \A i \in 1 .. Len(Queue(n)') : Queue(n)'[i] = pending[Len(toRelay') + i]
    BY <1>2 DEF OpenQueue
  <2>1. CASE n = 1
    <3>1. Len(toRelay') = Len(toRelay) + 1
      BY <1>2, <1>3, <1>5, <2>1
    <3>2. ASSUME NEW i \in 1 .. Len(Queue(1)) - 1
          PROVE  i + 1 \in 1 .. Len(Queue(1)) /\ Len(toRelay) + (i + 1) = Len(toRelay') + i
      BY <1>2, <1>5, <3>1
    <3>3. \A i \in 1 .. Len(Queue(1)) - 1 : Queue(1)'[i] = pending[Len(toRelay') + i]
      BY <1>2, <1>6, <2>1, <3>2
    <3>4. Len(backlog) = 1 /\ connected /\ Len(pending) = Len(toRelay') + (Len(Queue(1)) - 1)
      <4>1. backlog[1].open
        BY <2>1
      <4>2. Len(pending) = Len(toRelay) + Len(Queue(1)) /\ Len(Queue(1)) \in Nat
        BY <1>2, <1>6, <4>1
      <4>3. QED
        BY <1>5, <1>6, <3>1, <4>1, <4>2
    <3>5. Queue(n)' = Queue(1)' /\ Len(Queue(1)') = Len(Queue(1)) - 1
      BY <1>2, <2>1
    <3>6. QED
      BY <2>1, <3>3, <3>4, <3>5
  <2>2. CASE n # 1
    <3>1. ~backlog[1].open
      BY <1>6, <2>2
    <3>2. Queue(n)' = Queue(n) /\ toRelay' = toRelay
      BY <1>2, <2>2, <3>1
    <3>3. QED
      BY <3>2 DEF LinkInv, OpenQueue
  <2>3. QED
    BY <2>1, <2>2
<1>17. AnswersFromOpen'
  <2>1. CASE backlog[1].open
    <3>1. Len(backlog') = 1 /\ backlog'[1].open /\ connected'
      BY <1>2, <1>6, <2>1
    <3>2. QED
      BY <3>1 DEF AnswersFromOpen
  <2>2. CASE ~backlog[1].open
    BY <1>2, <1>7, <2>2 DEF AnswersFromOpen
  <2>3. QED
    BY <2>1, <2>2
<1>18. QueuesUnacknowledged'
  <2> SUFFICES ASSUME NEW n \in 1 .. Len(backlog), NEW i \in 1 .. Len(Queue(n)')
               PROVE  Queue(n)'[i] \in Issued /\ \A a \in acknowledged : a < Queue(n)'[i]
    BY <1>2 DEF QueuesUnacknowledged, Issued
  <2>1. CASE n = 1
    <3>1. i + 1 \in 1 .. Len(Queue(1)) /\ Queue(1)'[i] = Queue(1)[i + 1]
      BY <1>2, <2>1
    <3>2. QED
      BY <2>1, <3>1 DEF LinkInv, QueuesUnacknowledged
  <2>2. CASE n # 1
    BY <1>2, <2>2 DEF LinkInv, QueuesUnacknowledged
  <2>3. QED
    BY <2>1, <2>2
<1>19. DeadAnswers'
  <2>1. \A i \in 1 .. Len(toRelay) : toRelay[i].live
    BY <1>2 DEF LinkInv, DeadAnswers
  <2>2. QED
    BY <1>3, <1>9, <2>1 DEF DeadAnswers
<1>20. NewestHolds'
  <2>1. \A i \in 1 .. Len(toRelay) : toRelay[i].id < id /\ toRelay[i].id \in Issued
    <3> SUFFICES ASSUME NEW i \in 1 .. Len(toRelay)
                 PROVE  toRelay[i].id < id /\ toRelay[i].id \in Issued
      OBVIOUS
    <3>1. backlog[1].open
      BY <1>7
    <3>2. /\ i \in 1 .. Len(pending) /\ Len(toRelay) + 1 \in 1 .. Len(pending)
          /\ i < Len(toRelay) + 1
      <4>1. Len(pending) = Len(toRelay) + Len(Queue(1)) /\ Len(Queue(1)) \in Nat \ {0}
        BY <1>2, <1>6, <3>1
      <4>2. QED
        BY <1>5, <4>1
    <3>3. toRelay[i].id = pending[i]
      BY DEF LinkInv, AnswersInOrder
    <3>4. QED
      BY <1>8, <3>1, <3>2, <3>3 DEF LinkInv, PendingOrdered
  <2>2. \A x \in Nat : Answered(x)' => Answered(x) \/ x = id
    BY <1>2, <1>3, <1>9 DEF Answered
  <2>3. \A x \in Nat : x > id => ~Answered(x)
    BY <1>2, <1>4, <2>1 DEF Answered, Issued
  <2>4. ASSUME NEW f \in Faults, newestApplied'[f] # 0
        PROVE  /\ accepted[newestApplied'[f]].fault = f
               /\ Answered(newestApplied[f])' =>
                    (f \in flags' <=> accepted[newestApplied'[f]].enabled)
               /\ newestApplied'[f] \in acknowledged => newestApplied'[f] \in flightAcks
    <3>1. newestApplied[f] \in Nat /\ newestApplied'[f] \in Nat /\ id \in Nat
      BY <1>2, <1>5, <1>11 DEF Issued
    <3>2. CASE f # fault
      <4>1. newestApplied'[f] = newestApplied[f] /\ newestApplied[f] # 0
        BY <1>11, <2>4, <3>2
      <4>2. f \in flags' <=> f \in flags
        BY <1>2, <3>2
      <4>3. accepted[newestApplied[f]].fault = f /\ newestApplied[f] # id
        BY <3>2, <4>1 DEF LinkInv, NewestHolds, fault
      <4>4. Answered(newestApplied[f])' => Answered(newestApplied[f])
        BY <1>2, <1>3, <1>9, <4>1, <4>3 DEF Answered
      <4>5. newestApplied[f] \in acknowledged => newestApplied[f] \in flightAcks
        BY <4>1 DEF LinkInv, NewestHolds
      <4>6. Answered(newestApplied[f]) => (f \in flags <=> accepted[newestApplied[f]].enabled)
        BY <4>1 DEF LinkInv, NewestHolds
      <4>7. QED
        BY <4>1, <4>2, <4>3, <4>4, <4>5, <4>6, Zenon
    <3>3. CASE f = fault /\ newestApplied'[f] = id
      <4>1. id \notin acknowledged
        BY <1>2, <1>4 DEF Issued
      <4>2. f \in flags' <=> accepted[id].enabled
        BY <1>2, <3>3
      <4>3. QED
        BY <3>3, <4>1, <4>2, Zenon DEF fault
    <3>4. CASE f = fault /\ newestApplied'[f] # id
      <4>1. newestApplied'[f] = newestApplied[f] /\ newestApplied[f] > id
        BY <1>11, <3>1, <3>4
      <4>2. ~Answered(newestApplied[f])
        BY <2>3, <3>1, <4>1
      <4>3. ~Answered(newestApplied[f])' /\ newestApplied[f] \notin acknowledged
        BY <1>2, <1>3, <1>9, <3>1, <4>1, <4>2 DEF Answered
      <4>4. accepted[newestApplied[f]].fault = f
        BY <2>4, <4>1 DEF LinkInv, NewestHolds
      <4>5. QED
        BY <4>1, <4>3, <4>4, Zenon
    <3>5. QED
      BY <3>2, <3>3, <3>4
  <2>5. ASSUME NEW x \in Issued, x <= newestApplied[accepted[x].fault]
        PROVE  x <= newestApplied'[accepted[x].fault]
    <3>1. accepted[x].fault \in Faults /\ x \in Nat /\ id \in Nat
      <4>1. accepted[x] \in Commands
        BY <1>5, ElementOfSeq DEF Issued
      <4>2. QED
        BY <1>2, <4>1 DEF Commands, Issued
    <3>2. newestApplied[accepted[x].fault] \in Nat
      BY <1>5, <3>1
    <3>3. QED
      BY <1>11, <2>5, <3>1, <3>2
  <2>6. \A x \in flightAcks : x <= newestApplied'[accepted[x].fault]
    BY <2>5 DEF LinkInv, LinkTypes, NewestHolds
  <2>7. \A i \in 1 .. Len(toRelay') : toRelay'[i].live =>
          toRelay'[i].id <= newestApplied'[accepted[toRelay'[i].id].fault]
    <3> SUFFICES ASSUME NEW i \in 1 .. Len(toRelay'), toRelay'[i].live
                 PROVE  toRelay'[i].id <= newestApplied'[accepted[toRelay'[i].id].fault]
      OBVIOUS
    <3>1. CASE i \in 1 .. Len(toRelay) /\ toRelay'[i] = toRelay[i]
      BY <2>1, <2>5, <3>1 DEF LinkInv, NewestHolds
    <3>2. CASE toRelay'[i] = ack
      <4>1. toRelay'[i].id = id /\ accepted[id].fault = fault
        BY <1>3, <3>2 DEF fault
      <4>2. newestApplied[fault] \in Nat /\ id \in Nat
        BY <1>2, <1>5 DEF Issued
      <4>3. QED
        BY <1>11, <4>1, <4>2
    <3>3. QED
      BY <1>9, <3>1, <3>2
  <2>8. accepted' = accepted /\ acknowledged' = acknowledged /\ flightAcks' = flightAcks
    BY <1>2
  <2>9. QED
    BY <2>4, <2>6, <2>7, <2>8, Zenon DEF NewestHolds, Answered
<1>21. QED
  BY <1>12, <1>13, <1>14, <1>15, <1>16, <1>17, <1>18, <1>19, <1>20 DEF LinkInv

-----------------------------------------------------------------------------
LEMMA Next_Inv == ASSUME LinkInv, [Next]_vars PROVE LinkInv'
<1>1. CASE CommandRefused
  <2>1. UNCHANGED linkVars /\ simulatorUp' \in BOOLEAN
    BY <1>1 DEF CommandRefused, linkVars, simulatorVars, ackVars, LinkInv, LinkTypes
  <2>2. QED
    BY <2>1, Unchanged_Inv
<1>2. CASE \E command \in Commands : CommandAccepted(command)
  BY <1>2, CommandAccepted_Inv
<1>3. CASE Connects
  BY <1>3, Connects_Inv
<1>4. CASE TakesAck
  BY <1>4, TakesAck_Inv
<1>5. CASE SeesClose
  BY <1>5, MaxCommandsAssumption, Disconnects_Inv
<1>6. CASE HandlesCommand
  BY <1>6, HandlesCommand_Inv
<1>7. CASE AcceptsNext
  BY <1>7, AcceptsNext_Inv
<1>8. CASE SimulatorStarts
  <2>1. UNCHANGED linkVars /\ simulatorUp' \in BOOLEAN
    BY <1>8 DEF SimulatorStarts, linkVars, relayVars, ackVars
  <2>2. QED
    BY <2>1, Unchanged_Inv
<1>9. CASE \E kept \in 0 .. MaxCommands :
             ConnectionBreaks(kept) \/ SimulatorExits(kept) \/ ServerRestarts(kept)
  BY <1>9, Disconnects_Inv, SimulatorExits_Inv
<1>10. CASE UNCHANGED vars
  <2>1. UNCHANGED linkVars /\ simulatorUp' \in BOOLEAN
    BY <1>10 DEF vars, linkVars, relayVars, simulatorVars, ackVars, LinkInv, LinkTypes
  <2>2. QED
    BY <2>1, Unchanged_Inv
<1>11. QED
  BY <1>1, <1>2, <1>3, <1>4, <1>5, <1>6, <1>7, <1>8, <1>9, <1>10
     DEF Next, RelaySteps, SimulatorSteps

(* The inductive invariant of the control link.                            *)
THEOREM LinkInvariant == Spec => []LinkInv
<1>1. Init => LinkInv
  BY Init_Inv
<1>2. LinkInv /\ [Next]_vars => LinkInv'
  BY Next_Inv
<1>3. QED
  BY <1>1, <1>2, PTL DEF Spec, SafetySpec

(* Every variable keeps its type, and #pending stays in the order in which *)
(* the commands were accepted.                                             *)
THEOREM LinkTypeOK == Spec => []TypeOK
<1>1. LinkInv => TypeOK
  <2> SUFFICES ASSUME LinkInv PROVE TypeOK
    OBVIOUS
  <2>1. pending \in Seq(Issued)
    <3>1. pending \in Seq(Ids) /\ \A i \in 1 .. Len(pending) : pending[i] \in Issued
      BY DEF LinkInv, LinkTypes, PendingOrdered
    <3>2. QED
      BY <3>1
  <2>2. QED
    BY <2>1 DEF LinkInv, LinkTypes, PendingOrdered, TypeOK
<1>2. QED
  BY <1>1, LinkInvariant, PTL

(* What the relay took over it keeps until it was acknowledged, and what   *)
(* was acknowledged the simulator had applied.                             *)
THEOREM LinkRetains == Spec => []RetainedUntilApplied
<1>1. LinkInv => RetainedUntilApplied
  BY DEF LinkInv
<1>2. QED
  BY <1>1, LinkInvariant, PTL

(***************************************************************************)
(* Once nothing is pending, the newest command the simulator answered for  *)
(* a fault is the newest it applied, so its flag is the one asked for.     *)
(***************************************************************************)
LEMMA NothingPendingSettled == ASSUME LinkInv PROVE SettledOnNewest
<1> SUFFICES ASSUME pending = <<>>, NEW id \in flightAcks,
                    \A later \in flightAcks \cup forgotten :
                      accepted[later].fault = accepted[id].fault => later <= id
             PROVE  accepted[id].fault \in flags <=> accepted[id].enabled
  BY DEF SettledOnNewest
<1> DEFINE fault == accepted[id].fault
           newest == newestApplied[fault]
<1>1. id \in Issued /\ fault \in Faults
  <2>1. id \in Issued
    BY DEF LinkInv, LinkTypes
  <2>2. accepted[id] \in Commands
    BY <2>1, ElementOfSeq DEF LinkInv, LinkTypes, Issued
  <2>3. QED
    BY <2>1, <2>2 DEF Commands
<1>2. id <= newest /\ newest \in 0 .. Len(accepted) /\ Len(accepted) \in Nat
  BY <1>1 DEF LinkInv, LinkTypes, NewestHolds
<1>3. newest # 0 /\ newest \in Issued
  BY <1>1, <1>2 DEF Issued
<1>4. accepted[newest].fault = fault
  BY <1>1, <1>3 DEF LinkInv, NewestHolds
<1>5. newest \in acknowledged \cup forgotten
  <2>1. Range(pending) = {}
    BY DEF Range
  <2>2. QED
    BY <1>3, <2>1 DEF LinkInv, RetainedUntilApplied
<1>6. newest \in flightAcks \cup forgotten
  BY <1>1, <1>3, <1>5 DEF LinkInv, NewestHolds
<1>7. newest = id
  <2>1. newest <= id
    BY <1>4, <1>6
  <2>2. QED
    BY <1>1, <1>2, <2>1 DEF Issued
<1>8. Answered(newest)
  BY <1>7 DEF LinkInv, LinkTypes, Answered
<1>9. QED
  BY <1>1, <1>3, <1>7, <1>8, Zenon DEF LinkInv, NewestHolds

THEOREM LinkSettles == Spec => []SettledOnNewest
<1>1. LinkInv => SettledOnNewest
  BY NothingPendingSettled
<1>2. QED
  BY <1>1, LinkInvariant, PTL

-----------------------------------------------------------------------------
(* The relay's retained commands leave #pending one at a time, when their  *)
(* acknowledgement arrives.                                                *)
LEMMA AckIsService ==
  ASSUME LinkInv, TakesAck PROVE Service!Acknowledge(pending[1])
<1>1. /\ connected /\ pending # <<>>
      /\ pending' = Tail(pending)
      /\ acknowledged' = acknowledged \cup {pending[1]}
      /\ UNCHANGED <<accepted, connected>>
  BY TakesAckFacts DEF TakesAck
<1>2. Len(pending) \in Nat \ {0} /\ pending \in Seq(Ids)
  BY <1>1, TailProperties DEF LinkInv, LinkTypes
<1>3. Range(pending) = {pending[1]} \cup Range(pending')
  BY <1>1, <1>2, RangeOfTail
<1>4. pending[1] \notin Range(pending')
  <2>1. Len(Tail(pending)) = Len(pending) - 1 /\ DOMAIN Tail(pending) = 1 .. Len(pending) - 1
    BY <1>1, <1>2, TailProperties, LenProperties
  <2>2. ASSUME NEW i \in 1 .. Len(pending) - 1 PROVE Tail(pending)[i] # pending[1]
    <3>1. Tail(pending)[i] = pending[i + 1] /\ i + 1 \in 1 .. Len(pending) /\ 1 < i + 1
      BY <1>1, <1>2, TailProperties
    <3>2. pending[1] < pending[i + 1] /\ pending[1] \in Ids
      BY <1>2, <3>1, ElementOfSeq DEF LinkInv, PendingOrdered
    <3>3. QED
      BY <3>1, <3>2 DEF Ids
  <2>3. QED
    BY <1>1, <2>1, <2>2 DEF Range
<1>5. QED
  BY <1>1, <1>3, <1>4 DEF Service!Acknowledge, Issued

LEMMA AcceptIsService ==
  ASSUME LinkInv, NEW command \in Commands, CommandAccepted(command)
  PROVE  Service!Accept(Len(accepted) + 1)
<1> DEFINE id == Len(accepted) + 1
<1>1. /\ connected /\ connected' = connected
      /\ id \in Ids /\ id \notin Issued
      /\ accepted' = Append(accepted, command) /\ pending' = Append(pending, id)
      /\ acknowledged' = acknowledged
  BY MaxCommandsAssumption DEF CommandAccepted, LinkInv, LinkTypes, Ids, Issued, ackVars
<1>2. Issued' = Issued \cup {id}
  BY <1>1 DEF LinkInv, LinkTypes, Issued
<1>3. Range(pending') = Range(pending) \cup {id}
  BY <1>1, RangeOfAppend DEF LinkInv, LinkTypes
<1>4. QED
  BY <1>1, <1>2, <1>3 DEF Service!Accept

LEMMA StepsAreService ==
  ASSUME LinkInv, [Next]_vars PROVE [Service!ServiceNext]_(Service!serviceVars)
<1> USE DEF Service!ServiceNext, Service!serviceVars
<1>1. CASE \E command \in Commands : CommandAccepted(command)
  <2>1. PICK command \in Commands : CommandAccepted(command)
    BY <1>1
  <2>2. Len(accepted) + 1 \in Ids
    BY <2>1, MaxCommandsAssumption DEF CommandAccepted, LinkInv, LinkTypes, Ids
  <2>3. QED
    BY <2>1, <2>2, AcceptIsService
<1>2. CASE Connects
  BY <1>2 DEF Connects, Service!LinkUp, Issued, ackVars
<1>3. CASE TakesAck
  BY <1>3, AckIsService, TakesAckFacts
<1>4. CASE SeesClose
  BY <1>4 DEF SeesClose, Service!LinkDown, Issued, ackVars
<1>5. CASE \E kept \in 0 .. MaxCommands : ConnectionBreaks(kept)
  BY <1>5 DEF ConnectionBreaks, Service!LinkDown, Issued, ackVars
<1>6. CASE \E kept \in 0 .. MaxCommands : ServerRestarts(kept)
  <2>1. pending' = <<>> /\ connected' = FALSE /\ UNCHANGED <<accepted, acknowledged>>
    BY <1>6 DEF ServerRestarts, ackVars
  <2>2. Range(pending') = {}
    BY <2>1 DEF Range
  <2>3. QED
    BY <2>1, <2>2 DEF Service!Restart, Issued
<1>7. CASE \/ CommandRefused \/ SimulatorSteps \/ SimulatorStarts
           \/ \E kept \in 0 .. MaxCommands : SimulatorExits(kept)
           \/ UNCHANGED vars
  <2>1. UNCHANGED <<accepted, pending, acknowledged, connected>>
    BY <1>7 DEF CommandRefused, SimulatorSteps, HandlesCommand, Serves, AcceptsNext,
                SimulatorStarts, SimulatorExits, vars, relayVars, ackVars
  <2>2. QED
    BY <2>1 DEF Issued
<1>8. QED
  BY <1>1, <1>2, <1>3, <1>4, <1>5, <1>6, <1>7 DEF Next, RelaySteps

(***************************************************************************)
(* Relay and simulator together are the service the browsers see: every    *)
(* step is one of CommandService or changes nothing a browser can see.     *)
(***************************************************************************)
THEOREM LinkImplementsService == Spec => ImplementsService
<1>1. Init => Service!ServiceInit
  <2>1. Init => Len(accepted) = 0 /\ Range(pending) = {}
    BY DEF Init, Range
  <2>2. QED
    BY <2>1 DEF Init, Issued, Service!ServiceInit
<1>2. LinkInv /\ [Next]_vars => [Service!ServiceNext]_(Service!serviceVars)
  BY StepsAreService
<1>3. QED
  BY <1>1, <1>2, LinkInvariant, PTL
     DEF Spec, SafetySpec, ImplementsService, Service!ServiceSpec
=============================================================================
