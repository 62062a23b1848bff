------------------------ MODULE TelemetryServerProofs -----------------------
(***************************************************************************)
(* Proofs about TelemetryServer, for any clients, history capacity, clock  *)
(* tolerance and delay, and runs shorter than half a cycle of the sequence *)
(* numbers: the metrics add up, the history holds one flight in order,     *)
(* late packets are counted as such, and every client converges.           *)
(***************************************************************************)
EXTENDS TelemetryServer, SequenceTheorems, WellFoundedInduction, TLAPS

Metrics == [received : Nat, valid : Nat, rejected : Nat, lost : Nat, reordered : Nat]
Trackers == [latest : Steps \cup {undefined}, lost : Nat, reordered : Nat]
Messages ==
  [type : {"history"}, samples : Seq(Packets), metrics : Metrics]
    \cup [type : {"reset"}, metrics : Metrics]
    \cup [type : {"telemetry"}, sample : Packets, metrics : Metrics]

ServerTypes ==
  /\ run \in Runs /\ ordering \in Orderings /\ step \in 0 .. MaxSteps
  /\ network \in Seq(Packets)
  /\ history \in Seq(Packets) /\ Len(history) <= historyCapacity
  /\ tracker \in Trackers /\ metrics \in Metrics
  /\ latestTimestamp \in Steps \cup {undefined}
  /\ connected \subseteq Clients
  /\ inbox \in [Clients -> Seq(Messages)]
  /\ view \in [Clients -> [samples : Seq(Packets), metrics : Metrics]]

(* The metrics, the tracker, the clock and the history speak of the same   *)
(* packets: those accepted since the last reset.                           *)
ServerCounts ==
  /\ MetricsAddUp
  /\ metrics.valid = 0 => tracker = Tracker!FreshTracker
  /\ metrics.valid > 0 =>
       /\ tracker.latest \in Steps
       /\ latestTimestamp = Last(history).step
  /\ metrics.lost = tracker.lost /\ metrics.reordered = tracker.reordered
  /\ \A i \in 1 .. Len(history) : history[i].step <= tracker.latest

(* The order in which the simulator sends.                                 *)
Before(p, q) == p.run < q.run \/ (p.run = q.run /\ p.step < q.step)
NextSent == [run |-> run, step |-> step]

SentInOrder ==
  /\ \A i, j \in 1 .. Len(network) : i < j => Before(network[i], network[j])
  /\ \A i \in 1 .. Len(network) : Before(network[i], NextSent)
  /\ \A i \in 1 .. Len(history) : Before(history[i], NextSent)

(* Only a path that keeps everything in order can hold packets of two runs.*)
PathRuns ==
  /\ ordering # "fifo" => \A i \in 1 .. Len(network) : network[i].run = run
  /\ \A i \in 1 .. Len(history), j \in 1 .. Len(network) : history[i].run <= network[j].run

(* Unless the path does anything, the first packet of a run is neither     *)
(* lost nor damaged: it is on its way until a packet of the run is taken.  *)
Sent(r) == r < run \/ (r = run /\ step > 0)
FirstOnItsWay ==
  ordering # "any" =>
    /\ \A i \in 1 .. Len(network) : network[i].step = 0 => network[i].intact
    /\ \A r \in Runs :
         /\ Sent(r)
         /\ \/ history # <<>> /\ Last(history).run < r
            \/ \E j \in 1 .. Len(network) : network[j].run < r
         => \E k \in 1 .. Len(network) : network[k].run = r /\ network[k].step = 0

(* Nothing overtakes the first packet.                                     *)
FirstTaken ==
  ordering = "behind_first" /\ history # <<>> /\ Last(history).run = run =>
    \A i \in 1 .. Len(network) : network[i].step > 0

(* Over a path that keeps order, what was taken was sent before what is on *)
(* the way.                                                                *)
TakenFirst ==
  ordering = "fifo" =>
    \A i \in 1 .. Len(history), j \in 1 .. Len(network) : Before(history[i], network[j])

PathInv ==
  /\ SentInOrder /\ PathRuns
  /\ FirstOnItsWay /\ FirstTaken /\ TakenFirst
  /\ HistoryInOrder
  /\ ordering # "any" => OneFlightInHistory
ServerInv == ServerTypes /\ ServerCounts /\ PathInv

-----------------------------------------------------------------------------
(* Facts about sequences and about the window.                             *)
LEMMA WithoutNthProperties ==
  ASSUME NEW S, NEW s \in Seq(S), NEW i \in 1 .. Len(s)
  PROVE  /\ WithoutNth(s, i) \in Seq(S) /\ Len(WithoutNth(s, i)) = Len(s) - 1
         /\ \A j \in 1 .. Len(s) - 1 :
              /\ j < i => WithoutNth(s, i)[j] = s[j]
              /\ j >= i => WithoutNth(s, i)[j] = s[j + 1]
         /\ \A k \in 1 .. Len(s) : k # i =>
              \E j \in 1 .. Len(s) - 1 : WithoutNth(s, i)[j] = s[k]
<1>1. Len(s) \in Nat \ {0} /\ Len(s) - 1 \in Nat
  BY LenProperties
<1>2. \A j \in 1 .. Len(s) - 1 : (IF j < i THEN s[j] ELSE s[j + 1]) \in S
  BY <1>1, ElementOfSeq
<1>3. /\ WithoutNth(s, i) \in Seq(S) /\ Len(WithoutNth(s, i)) = Len(s) - 1
      /\ \A j \in 1 .. Len(s) - 1 : WithoutNth(s, i)[j] = IF j < i THEN s[j] ELSE s[j + 1]
  BY <1>1, <1>2 DEF WithoutNth
<1>4. ASSUME NEW k \in 1 .. Len(s), k # i
      PROVE  \E j \in 1 .. Len(s) - 1 : WithoutNth(s, i)[j] = s[k]
  <2>1. CASE k < i
    BY <1>1, <1>3, <2>1
  <2>2. CASE k > i
    <3>1. k - 1 \in 1 .. Len(s) - 1 /\ ~(k - 1 < i) /\ (k - 1) + 1 = k
      BY <1>1, <2>2
    <3>2. QED
      BY <1>3, <3>1
  <2>3. QED
    BY <1>4, <2>1, <2>2
<1>5. QED
  BY <1>1, <1>3, <1>4

LEMMA PushedProperties ==
  ASSUME NEW w \in Seq(Packets), Len(w) <= historyCapacity, NEW v \in Packets
  PROVE  /\ History!Pushed(w, v) \in Seq(Packets)
         /\ Len(w) \in Nat
         /\ Len(History!Pushed(w, v)) = IF Len(w) < historyCapacity THEN Len(w) + 1
                                        ELSE historyCapacity
         /\ Last(History!Pushed(w, v)) = v
         /\ History!Pushed(w, v)[Len(History!Pushed(w, v))] = v
         /\ \A i \in 1 .. Len(History!Pushed(w, v)) - 1 :
              History!Pushed(w, v)[i] = IF Len(w) < historyCapacity THEN w[i] ELSE w[i + 1]
<1>1. Len(w) \in Nat /\ historyCapacity \in Nat \ {0}
  BY historyCapacityAssumption
<1>2. CASE Len(w) < historyCapacity
  <2>1. History!Pushed(w, v) = Append(w, v)
    BY <1>2 DEF History!Pushed
  <2>2. QED
    BY <1>1, <1>2, <2>1, AppendProperties DEF Last
<1>3. CASE ~(Len(w) < historyCapacity)
  <2>1. Len(w) = historyCapacity /\ w # <<>>
    BY <1>1, <1>3
  <2>2. /\ Tail(w) \in Seq(Packets) /\ Len(Tail(w)) = Len(w) - 1
        /\ \A i \in 1 .. Len(w) - 1 : Tail(w)[i] = w[i + 1]
    BY <2>1, HeadTailProperties
  <2>3. History!Pushed(w, v) = Append(Tail(w), v)
    BY <1>3 DEF History!Pushed
  <2>4. QED
    BY <1>1, <2>1, <2>2, <2>3, AppendProperties DEF Last
<1>4. QED
  BY <1>2, <1>3

(* observe() within one run, whose steps span less than half a cycle.      *)
LEMMA ObserveInRun ==
  ASSUME NEW t \in Trackers, NEW s \in Steps
  PROVE  Tracker!observe(t, s) =
           IF t.latest = undefined THEN [t EXCEPT !.latest = s]
           ELSE IF s <= t.latest THEN [t EXCEPT !.reordered = @ + 1]
           ELSE [latest |-> s, lost |-> t.lost + (s - t.latest) - 1, reordered |-> t.reordered]
<1> DEFINE M == SeqModulus
           d == (s - t.latest) % M
<1>1. /\ M \in Nat /\ M \div 2 \in Nat /\ 2 * (M \div 2) <= M
      /\ MaxSteps \in Nat /\ MaxSteps <= M \div 2
  BY RunsAssumption, SMTT(30)
<1>2. CASE t.latest = undefined
  BY <1>2 DEF Tracker!observe
<1>3. CASE t.latest # undefined
  <2>1. t.latest \in Steps
    BY <1>3 DEF Trackers
  <2>2. s \in Nat /\ t.latest \in Nat /\ s < MaxSteps /\ t.latest < MaxSteps
    BY <1>1, <2>1 DEF Steps
  <2>3. s - t.latest \in Int /\ s - t.latest < M /\ s - t.latest > -M /\ M > 0
    BY <1>1, <2>2
  <2>4. d = IF s < t.latest THEN s - t.latest + M ELSE s - t.latest
    <3> DEFINE x == s - t.latest
    <3> SUFFICES x % M = IF x < 0 THEN x + M ELSE x
      BY <2>2
    <3>1. x \in Int /\ x < M /\ x > -M /\ M \in Nat
      BY <1>1, <2>3
    <3> HIDE DEF x, M
    <3>2. QED
      BY <3>1, SMTT(30)
  <2> HIDE DEF d
  <2>5. Tracker!Behind(d) <=> s <= t.latest
    BY <1>1, <2>2, <2>4 DEF Tracker!Behind, Tracker!Half
  <2>6. Tracker!observe(t, s) =
          IF Tracker!Behind(d) THEN [t EXCEPT !.reordered = @ + 1]
          ELSE [latest |-> s, lost |-> t.lost + d - 1, reordered |-> t.reordered]
    BY <1>3 DEF Tracker!observe, d
  <2>7. CASE s <= t.latest
    BY <1>3, <2>5, <2>6, <2>7
  <2>8. CASE ~(s <= t.latest)
    <3>1. d = s - t.latest /\ t.lost + d - 1 = t.lost + (s - t.latest) - 1
      BY <2>2, <2>4, <2>8
    <3>2. QED
      BY <1>3, <2>5, <2>6, <2>8, <3>1
  <2>9. QED
    BY <2>7, <2>8
<1>4. QED
  BY <1>2, <1>3

LEMMA ObserveTypes ==
  ASSUME NEW t \in Trackers, NEW s \in Steps
  PROVE  Tracker!observe(t, s) \in Trackers
<1>1. s \in Nat /\ t.lost \in Nat /\ t.reordered \in Nat
  BY RunsAssumption DEF Trackers, Steps
<1>2. CASE t.latest = undefined
  BY <1>1, <1>2, ObserveInRun DEF Trackers
<1>3. CASE t.latest # undefined /\ s <= t.latest
  BY <1>1, <1>3, ObserveInRun DEF Trackers
<1>4. CASE t.latest # undefined /\ ~(s <= t.latest)
  <2>1. t.latest \in Nat
    BY <1>4, RunsAssumption DEF Trackers, Steps
  <2>2. t.lost + (s - t.latest) - 1 \in Nat
    BY <1>1, <1>4, <2>1
  <2>3. QED
    BY <1>1, <1>4, <2>2, ObserveInRun DEF Trackers
<1>5. QED
  BY <1>2, <1>3, <1>4

LEMMA Fresh ==
  Tracker!FreshTracker \in Trackers /\ NoMetrics \in Metrics /\ <<>> \in Seq(Packets)
  /\ Len(<<>>) = 0
BY DEF Tracker!FreshTracker, Trackers, NoMetrics, Metrics

-----------------------------------------------------------------------------
(***************************************************************************)
(* What acceptPacket does: it rejects the packet, counts it on top of what *)
(* it has, or on top of nothing after a restart.                           *)
(***************************************************************************)
Rejected(packet) ==
  /\ ~packet.intact
  /\ metrics' = [metrics EXCEPT !.received = @ + 1, !.rejected = @ + 1]
  /\ UNCHANGED <<history, tracker, latestTimestamp, inbox>>

CountedMetrics(m, l, r) ==
  [m EXCEPT !.received = @ + 1, !.valid = @ + 1, !.lost = l, !.reordered = r]

Counted(packet, kept, t, m) ==
  /\ packet.intact
  /\ \/ ~Restarted(packet) /\ kept = history /\ t = tracker /\ m = metrics
        /\ Broadcast(Sample(packet))
     \/ Restarted(packet) /\ kept = <<>> /\ t = Tracker!FreshTracker /\ m = NoMetrics
        /\ Broadcast(Reset \o Sample(packet))
  /\ kept \in Seq(Packets) /\ Len(kept) <= historyCapacity
  /\ t \in Trackers /\ m \in Metrics
  /\ history' = History!Pushed(kept, packet)
  /\ tracker' = Tracker!observe(t, packet.step)
  /\ latestTimestamp' = packet.step
  /\ metrics' = CountedMetrics(m, tracker'.lost, tracker'.reordered)

LEMMA AcceptFacts ==
  ASSUME ServerTypes, NEW i \in 1 .. Len(network), acceptPacket(i)
  PROVE  /\ network[i] \in Packets /\ network[i].step \in Steps
         /\ network' = WithoutNth(network, i)
         /\ Deliverable(i) /\ InTime(network[i])
         /\ UNCHANGED <<run, step, ordering, connected, view>>
         /\ \/ Rejected(network[i])
            \/ \E kept, t, m : Counted(network[i], kept, t, m)
<1>1. network[i] \in Packets /\ network[i].step \in Steps
  <2>1. network[i] \in Packets
    BY ElementOfSeq DEF ServerTypes
  <2>2. QED
    BY <2>1 DEF Packets
<1>2. /\ network' = WithoutNth(network, i) /\ Deliverable(i) /\ InTime(network[i])
      /\ UNCHANGED <<run, step, ordering>>
  BY DEF acceptPacket, simulatorVars
<1>3. CASE RejectPacket(network[i])
  <2>1. Rejected(network[i]) /\ UNCHANGED <<connected, view>>
    BY <1>3 DEF RejectPacket, Rejected, clientVars
  <2>2. QED
    BY <1>1, <1>2, <2>1
<1>4. CASE AcceptInRun(network[i])
  <2>1. Counted(network[i], history, tracker, metrics) /\ UNCHANGED <<connected, view>>
    BY <1>4 DEF AcceptInRun, Counted, Count, CountedMetrics, ServerTypes
  <2>2. QED
    BY <1>1, <1>2, <2>1
<1>5. CASE AcceptNewRun(network[i])
  <2>1. Counted(network[i], <<>>, Tracker!FreshTracker, NoMetrics) /\ UNCHANGED <<connected, view>>
    BY <1>5, Fresh, historyCapacityAssumption DEF AcceptNewRun, Counted, Count, CountedMetrics
  <2>2. QED
    BY <1>1, <1>2, <2>1
<1>6. QED
  BY <1>3, <1>4, <1>5 DEF acceptPacket

-----------------------------------------------------------------------------
(* The types.                                                              *)
LEMMA RejectedMetrics ==
  ASSUME NEW m \in Metrics, NEW rejected,
         rejected = [m EXCEPT !.received = @ + 1, !.rejected = @ + 1]
  PROVE  /\ rejected \in Metrics
         /\ rejected.received = m.received + 1 /\ rejected.rejected = m.rejected + 1
         /\ rejected.valid = m.valid
         /\ rejected.lost = m.lost /\ rejected.reordered = m.reordered
<1> DEFINE m1 == [m EXCEPT !.received = m.received + 1]
           m2 == [m1 EXCEPT !.rejected = m.rejected + 1]
<1>1. /\ m1 \in Metrics /\ m1.received = m.received + 1 /\ m1.rejected = m.rejected
      /\ m1.valid = m.valid /\ m1.lost = m.lost /\ m1.reordered = m.reordered
  BY DEF Metrics
<1>2. m.rejected \in Nat
  BY DEF Metrics
<1>3. rejected = m2
  OBVIOUS
<1> HIDE DEF m1
<1>4. QED
  BY <1>1, <1>2, <1>3 DEF Metrics

LEMMA CountedFields ==
  ASSUME NEW m \in Metrics, NEW l \in Nat, NEW r \in Nat, NEW counted,
         counted = CountedMetrics(m, l, r)
  PROVE  /\ counted \in Metrics
         /\ counted.received = m.received + 1 /\ counted.valid = m.valid + 1
         /\ counted.rejected = m.rejected
         /\ counted.lost = l /\ counted.reordered = r
<1> DEFINE m1 == [m EXCEPT !.received = m.received + 1]
           m2 == [m1 EXCEPT !.valid = m.valid + 1]
           m3 == [m2 EXCEPT !.lost = l]
           m4 == [m3 EXCEPT !.reordered = r]
<1>1. counted = m4
  BY DEF CountedMetrics
<1>2. /\ m1 \in Metrics /\ m1.received = m.received + 1 /\ m1.rejected = m.rejected
  BY DEF Metrics
<1>3. m.valid + 1 \in Nat
  BY DEF Metrics
<1> HIDE DEF m1
<1>4. /\ m2 \in Metrics /\ m2.received = m.received + 1 /\ m2.rejected = m.rejected
      /\ m2.valid = m.valid + 1
  BY <1>2, <1>3 DEF Metrics
<1> HIDE DEF m2
<1>5. /\ m3 \in Metrics /\ m3.received = m.received + 1 /\ m3.rejected = m.rejected
      /\ m3.valid = m.valid + 1 /\ m3.lost = l
  BY <1>4 DEF Metrics
<1> HIDE DEF m3
<1>6. /\ m4 \in Metrics /\ m4.received = m.received + 1 /\ m4.rejected = m.rejected
      /\ m4.valid = m.valid + 1 /\ m4.lost = l /\ m4.reordered = r
  BY <1>5 DEF Metrics
<1> HIDE DEF m4
<1>7. QED
  BY <1>1, <1>6

LEMMA Init_Types == ASSUME Init PROVE ServerTypes
<1>1. run \in Runs /\ ordering \in Orderings /\ step \in 0 .. MaxSteps
  BY RunsAssumption DEF Init, Runs
<1>2. network \in Seq(Packets) /\ history \in Seq(Packets) /\ Len(history) <= historyCapacity
  BY historyCapacityAssumption DEF Init
<1>3. tracker \in Trackers /\ metrics \in Metrics
  BY Fresh DEF Init
<1>4. latestTimestamp \in Steps \cup {undefined} /\ connected \subseteq Clients
  BY DEF Init
<1>5. inbox \in [Clients -> Seq(Messages)]
  BY DEF Init
<1>6. view \in [Clients -> [samples : Seq(Packets), metrics : Metrics]]
  BY Fresh DEF Init
<1>7. QED
  BY <1>1, <1>2, <1>3, <1>4, <1>5, <1>6 DEF ServerTypes

LEMMA Sends_Types ==
  ASSUME ServerTypes, SimulatorSends
  PROVE  /\ ServerTypes'
         /\ Len(network) \in Nat /\ Len(network') = Len(network) + 1
         /\ \A i \in 1 .. Len(network) : network'[i] = network[i]
         /\ network'[Len(network) + 1] = [run |-> run, step |-> step, intact |-> TRUE]
         /\ step \in Nat /\ step' = step + 1
<1> DEFINE packet == [run |-> run, step |-> step, intact |-> TRUE]
<1>1. /\ network' = Append(network, packet) /\ step' = step + 1 /\ step < MaxSteps
      /\ UNCHANGED <<run, ordering, serverVars, clientVars>>
  BY DEF SimulatorSends
<1>2. step \in Nat /\ MaxSteps \in Nat /\ step' \in 0 .. MaxSteps
  BY <1>1, RunsAssumption DEF ServerTypes
<1>3. packet \in Packets
  BY <1>1, <1>2 DEF ServerTypes, Packets, Steps
<1> HIDE DEF packet
<1>4. /\ network' \in Seq(Packets) /\ Len(network) \in Nat /\ Len(network') = Len(network) + 1
      /\ \A i \in 1 .. Len(network) : network'[i] = network[i]
      /\ network'[Len(network) + 1] = packet
  BY <1>1, <1>3, AppendProperties DEF ServerTypes
<1>5. ServerTypes'
  BY <1>1, <1>2, <1>4 DEF ServerTypes, serverVars, clientVars
<1>6. QED
  BY <1>1, <1>2, <1>4, <1>5 DEF packet

LEMMA Restarts_Types == ASSUME ServerTypes, SimulatorRestarts PROVE ServerTypes'
<1>1. run' \in Runs /\ step' \in 0 .. MaxSteps
  BY RunsAssumption DEF ServerTypes, SimulatorRestarts, Runs
<1>2. QED
  BY <1>1 DEF ServerTypes, SimulatorRestarts, serverVars, clientVars

LEMMA PacketLost_Types ==
  ASSUME ServerTypes, NEW i \in 1 .. Len(network), PacketLost(i) PROVE ServerTypes'
<1>1. network' \in Seq(Packets)
  BY WithoutNthProperties DEF ServerTypes, PacketLost
<1>2. QED
  BY <1>1 DEF ServerTypes, PacketLost, simulatorVars, serverVars, clientVars

LEMMA PacketDamaged_Types ==
  ASSUME ServerTypes, NEW i \in 1 .. Len(network), PacketDamaged(i)
  PROVE  /\ ServerTypes'
         /\ Len(network') = Len(network)
         /\ \A j \in 1 .. Len(network) :
              /\ network'[j].run = network[j].run /\ network'[j].step = network[j].step
              /\ j # i => network'[j] = network[j]
<1> DEFINE packet == [network[i] EXCEPT !.intact = FALSE]
<1>1. network[i] \in Packets
  BY ElementOfSeq DEF ServerTypes
<1>2. packet \in Packets /\ packet.run = network[i].run /\ packet.step = network[i].step
  BY <1>1 DEF Packets
<1>3. network' = [network EXCEPT ![i] = packet]
  BY DEF PacketDamaged
<1> HIDE DEF packet
<1>4. /\ network' \in Seq(Packets) /\ Len(network') = Len(network)
      /\ \A j \in 1 .. Len(network) : network'[j] = IF j = i THEN packet ELSE network[j]
  BY <1>2, <1>3, ExceptSeq DEF ServerTypes
<1>5. ServerTypes'
  BY <1>4 DEF ServerTypes, PacketDamaged, simulatorVars, serverVars, clientVars
<1>6. QED
  BY <1>2, <1>4, <1>5

(* A broadcast appends to the messages of the connected clients.           *)
LEMMA BroadcastTypes ==
  ASSUME ServerTypes, NEW ms \in Seq(Messages), Broadcast(ms)
  PROVE  inbox' \in [Clients -> Seq(Messages)]
<1>1. \A c \in Clients : inbox[c] \in Seq(Messages) /\ inbox[c] \o ms \in Seq(Messages)
  BY ConcatProperties DEF ServerTypes
<1>2. QED
  BY <1>1 DEF Broadcast

LEMMA Counted_Types ==
  ASSUME ServerTypes, NEW packet \in Packets, NEW kept, NEW t, NEW m,
         Counted(packet, kept, t, m)
  PROVE  /\ history' \in Seq(Packets) /\ Len(history') <= historyCapacity
         /\ tracker' \in Trackers /\ metrics' \in Metrics
         /\ latestTimestamp' \in Steps
         /\ inbox' \in [Clients -> Seq(Messages)]
<1>1. /\ kept \in Seq(Packets) /\ Len(kept) <= historyCapacity
      /\ t \in Trackers /\ m \in Metrics /\ packet.step \in Steps
  BY DEF Counted, Packets
<1>2. history' \in Seq(Packets) /\ Len(history') <= historyCapacity
  <2>1. history' = History!Pushed(kept, packet) /\ historyCapacity \in Nat
    BY historyCapacityAssumption DEF Counted
  <2>2. QED
    BY <1>1, <2>1, PushedProperties
<1>3. tracker' \in Trackers
  BY <1>1, ObserveTypes DEF Counted
<1>4. metrics' \in Metrics
  <2>1. tracker'.lost \in Nat /\ tracker'.reordered \in Nat
    BY <1>3 DEF Trackers
  <2>2. metrics' = CountedMetrics(m, tracker'.lost, tracker'.reordered)
    BY DEF Counted
  <2>3. QED
    BY <1>1, <2>1, <2>2, CountedFields
<1>5. latestTimestamp' \in Steps
  BY <1>1 DEF Counted
<1>6. Sample(packet) \in Seq(Messages) /\ Reset \o Sample(packet) \in Seq(Messages)
  <2>1. [type |-> "telemetry", sample |-> packet, metrics |-> metrics'] \in Messages
    BY <1>4 DEF Messages
  <2>2. [type |-> "reset", metrics |-> NoMetrics] \in Messages
    BY Fresh DEF Messages
  <2>3. Sample(packet) \in Seq(Messages) /\ Reset \in Seq(Messages)
    BY <2>1, <2>2 DEF Sample, Reset
  <2>4. QED
    BY <2>3, ConcatProperties
<1>7. inbox' \in [Clients -> Seq(Messages)]
  BY <1>6, BroadcastTypes DEF Counted
<1>8. QED
  BY <1>2, <1>3, <1>4, <1>5, <1>7

LEMMA acceptPacket_Types ==
  ASSUME ServerTypes, NEW i \in 1 .. Len(network), acceptPacket(i) PROVE ServerTypes'
<1>1. /\ network[i] \in Packets
      /\ network' = WithoutNth(network, i)
      /\ UNCHANGED <<run, step, ordering, connected, view>>
  BY AcceptFacts
<1>2. network' \in Seq(Packets)
  BY <1>1, WithoutNthProperties DEF ServerTypes
<1>3. CASE Rejected(network[i])
  <2>1. metrics' \in Metrics
    BY <1>3, RejectedMetrics DEF Rejected, ServerTypes
  <2>2. QED
    BY <1>1, <1>2, <1>3, <2>1 DEF Rejected, ServerTypes
<1>4. ASSUME NEW kept, NEW t, NEW m, Counted(network[i], kept, t, m) PROVE ServerTypes'
  <2>1. /\ history' \in Seq(Packets) /\ Len(history') <= historyCapacity
        /\ tracker' \in Trackers /\ metrics' \in Metrics
        /\ latestTimestamp' \in Steps
        /\ inbox' \in [Clients -> Seq(Messages)]
    BY <1>1, <1>4, Counted_Types
  <2>2. QED
    BY <1>1, <1>2, <2>1 DEF ServerTypes
<1>5. QED
  BY <1>3, <1>4, AcceptFacts

LEMMA ClientConnects_Types ==
  ASSUME ServerTypes, NEW c \in Clients, ClientConnects(c) PROVE ServerTypes'
<1>1. [type |-> "history", samples |-> history, metrics |-> metrics] \in Messages
  BY DEF ServerTypes, Messages
<1>2. inbox' \in [Clients -> Seq(Messages)]
  BY <1>1 DEF ServerTypes, ClientConnects
<1>3. QED
  BY <1>2 DEF ServerTypes, ClientConnects, simulatorVars, serverVars

LEMMA ClientReads_Types ==
  ASSUME ServerTypes, NEW c \in Clients, ClientReads(c) PROVE ServerTypes'
<1> DEFINE message == Head(inbox[c])
           Held == [samples : Seq(Packets), metrics : Metrics]
<1>1. /\ message \in Messages /\ Tail(inbox[c]) \in Seq(Messages) /\ view[c] \in Held
      /\ inbox' = [inbox EXCEPT ![c] = Tail(inbox[c])]
      /\ view' = [view EXCEPT ![c] = Apply(view[c], message)]
      /\ UNCHANGED <<simulatorVars, network, serverVars, connected>>
  BY HeadTailProperties DEF ServerTypes, ClientReads
<1> HIDE DEF message
<1>2. Apply(view[c], message) \in Held
  <2>1. message.metrics \in Metrics
    BY <1>1 DEF Messages
  <2>2. CASE message.type = "history"
    <3>1. message.samples \in Seq(Packets)
      BY <1>1, <2>2 DEF Messages
    <3>2. QED
      BY <2>1, <2>2, <3>1 DEF Apply
  <2>3. CASE message.type = "reset"
    BY <2>1, <2>3 DEF Apply
  <2>4. CASE message.type = "telemetry"
    <3>1. message.sample \in Packets /\ view[c].samples \in Seq(Packets)
      BY <1>1, <2>4 DEF Messages
    <3>2. History!Pushed(view[c].samples, message.sample) \in Seq(Packets)
      <4>1. CASE view[c].samples = <<>>
        <5>1. History!Pushed(view[c].samples, message.sample) = Append(<<>>, message.sample)
          BY <4>1, historyCapacityAssumption DEF History!Pushed
        <5>2. QED
          BY <3>1, <5>1
      <4>2. CASE view[c].samples # <<>>
        <5>1. Tail(view[c].samples) \in Seq(Packets)
          BY <3>1, <4>2, HeadTailProperties
        <5>2. QED
          BY <3>1, <5>1, AppendProperties DEF History!Pushed
      <4>3. QED
        BY <4>1, <4>2
    <3>3. QED
      BY <2>1, <2>4, <3>2 DEF Apply
  <2>5. QED
    BY <1>1, <2>2, <2>3, <2>4 DEF Messages
<1>3. view' \in [Clients -> Held] /\ inbox' \in [Clients -> Seq(Messages)]
  BY <1>1, <1>2 DEF ServerTypes
<1>4. QED
  BY <1>1, <1>3 DEF ServerTypes, simulatorVars, serverVars

LEMMA OthersTypes ==
  ASSUME ServerTypes
  PROVE  /\ ServerRestarts => ServerTypes'
         /\ \A c \in Clients : ClientDisconnects(c) => ServerTypes'
         /\ UNCHANGED vars => ServerTypes'
<1>1. ASSUME ServerRestarts PROVE ServerTypes'
  <2>1. history' \in Seq(Packets) /\ Len(history') <= historyCapacity
    BY <1>1, historyCapacityAssumption DEF ServerRestarts
  <2>2. tracker' \in Trackers /\ metrics' \in Metrics
    BY <1>1, Fresh DEF ServerRestarts
  <2>3. inbox' \in [Clients -> Seq(Messages)]
    BY <1>1 DEF ServerRestarts
  <2>4. QED
    BY <1>1, <2>1, <2>2, <2>3 DEF ServerTypes, ServerRestarts, simulatorVars
<1>2. ASSUME NEW c \in Clients, ClientDisconnects(c) PROVE ServerTypes'
  <2>1. inbox' \in [Clients -> Seq(Messages)]
    BY <1>2 DEF ServerTypes, ClientDisconnects
  <2>2. QED
    BY <1>2, <2>1 DEF ServerTypes, ClientDisconnects, simulatorVars, serverVars
<1>3. ASSUME UNCHANGED vars PROVE ServerTypes'
  BY <1>3 DEF ServerTypes, vars, simulatorVars, serverVars, clientVars
<1>4. QED
  BY <1>1, <1>2, <1>3

LEMMA Next_Types == ASSUME ServerTypes, [Next]_vars PROVE ServerTypes'
BY Sends_Types, Restarts_Types, PacketLost_Types, PacketDamaged_Types, acceptPacket_Types,
   ClientConnects_Types, ClientReads_Types, OthersTypes DEF Next

(* Every variable keeps its type; the history keeps its capacity.          *)
THEOREM ServerTypeInvariant == Spec => []ServerTypes
<1>1. Init => ServerTypes
  BY Init_Types
<1>2. ServerTypes /\ [Next]_vars => ServerTypes'
  BY Next_Types
<1>3. QED
  BY <1>1, <1>2, PTL DEF Spec

THEOREM ServerTypeOK == Spec => []TypeOK
<1>1. ServerTypes => TypeOK
  BY DEF ServerTypes, TypeOK, Trackers
<1>2. QED
  BY <1>1, ServerTypeInvariant, PTL

-----------------------------------------------------------------------------
(***************************************************************************)
(* The counts.  What a packet is counted on top of, the present fields or  *)
(* fresh ones, already adds up.                                            *)
(***************************************************************************)
AddUp(kept, t, m) ==
  /\ m.received = m.valid + m.rejected
  /\ Len(kept) = IF m.valid < historyCapacity THEN m.valid ELSE historyCapacity
  /\ m.valid = 0 => t = Tracker!FreshTracker
  /\ m.valid > 0 => t.latest \in Steps
  /\ \A i \in 1 .. Len(kept) : kept[i].step <= t.latest
  /\ (m.valid > 0 /\ Len(kept) = m.valid) =>
       t.lost + m.valid - t.reordered = t.latest - kept[1].step + 1

LEMMA AheadCounts ==
  ASSUME NEW l \in Nat, NEW v \in Nat, NEW r \in Nat, NEW x \in Nat, NEW s \in Nat
  PROVE  (l + (s - x) - 1) + (v + 1) - r = (l + v - r) + (s - x)
OBVIOUS

LEMMA KeptAddsUp ==
  ASSUME ServerTypes, ServerCounts, NEW packet, NEW kept, NEW t, NEW m,
         Counted(packet, kept, t, m)
  PROVE  AddUp(kept, t, m)
<1>1. CASE kept = history /\ t = tracker /\ m = metrics
  BY <1>1 DEF ServerCounts, MetricsAddUp, AddUp
<1>2. CASE kept = <<>> /\ t = Tracker!FreshTracker /\ m = NoMetrics
  BY <1>2, historyCapacityAssumption DEF AddUp, NoMetrics
<1>3. QED
  BY <1>1, <1>2 DEF Counted

LEMMA Counted_Metrics ==
  ASSUME NEW packet \in Packets, NEW kept, NEW t, NEW m, Counted(packet, kept, t, m)
  PROVE  /\ metrics'.received = m.received + 1 /\ metrics'.valid = m.valid + 1
         /\ metrics'.rejected = m.rejected
         /\ metrics'.lost = tracker'.lost /\ metrics'.reordered = tracker'.reordered
<1>1. tracker' \in Trackers
  BY ObserveTypes DEF Counted, Packets
<1> DEFINE l == tracker'.lost
           r == tracker'.reordered
<1>2. l \in Nat /\ r \in Nat
  BY <1>1 DEF Trackers
<1>3. m \in Metrics /\ metrics' = CountedMetrics(m, l, r)
  BY DEF Counted
<1> HIDE DEF l, r
<1>4. /\ metrics'.received = m.received + 1 /\ metrics'.valid = m.valid + 1
      /\ metrics'.rejected = m.rejected
      /\ metrics'.lost = l /\ metrics'.reordered = r
  BY <1>2, <1>3, CountedFields DEF Metrics
<1>5. QED
  BY <1>4 DEF l, r

LEMMA Counted_Counts ==
  ASSUME ServerTypes, ServerCounts, NEW packet \in Packets, NEW kept, NEW t, NEW m,
         Counted(packet, kept, t, m)
  PROVE  ServerCounts'
<1> DEFINE s == packet.step
<1>1. /\ kept \in Seq(Packets) /\ Len(kept) <= historyCapacity /\ Len(kept) \in Nat
      /\ historyCapacity \in Nat \ {0} /\ packet \in Packets
      /\ t \in Trackers /\ m \in Metrics /\ s \in Steps /\ s \in Nat
  BY historyCapacityAssumption, RunsAssumption DEF Counted, Packets, Steps
<1>2. AddUp(kept, t, m)
  BY KeptAddsUp
<1>3. /\ history' \in Seq(Packets)
      /\ Len(history') = IF Len(kept) < historyCapacity THEN Len(kept) + 1 ELSE historyCapacity
      /\ Last(history') = packet /\ history'[Len(history')] = packet
      /\ \A i \in 1 .. Len(history') - 1 :
           history'[i] = IF Len(kept) < historyCapacity THEN kept[i] ELSE kept[i + 1]
  <2>1. history' = History!Pushed(kept, packet)
    BY DEF Counted
  <2>2. QED
    BY <1>1, <2>1, PushedProperties
<1>4. /\ tracker' = IF t.latest = undefined THEN [t EXCEPT !.latest = s]
                    ELSE IF s <= t.latest THEN [t EXCEPT !.reordered = @ + 1]
                    ELSE [latest |-> s, lost |-> t.lost + (s - t.latest) - 1,
                          reordered |-> t.reordered]
      /\ tracker' \in Trackers
  BY <1>1, ObserveInRun, ObserveTypes DEF Counted
<1>5. /\ metrics'.received = m.received + 1 /\ metrics'.valid = m.valid + 1
      /\ metrics'.rejected = m.rejected
      /\ metrics'.lost = tracker'.lost /\ metrics'.reordered = tracker'.reordered
  BY Counted_Metrics
<1>6. /\ m.received \in Nat /\ m.valid \in Nat /\ m.rejected \in Nat
      /\ t.lost \in Nat /\ t.reordered \in Nat
  BY <1>1 DEF Metrics, Trackers
<1>7. /\ m.valid > 0 => t.latest \in Nat /\ t.latest # undefined
      /\ m.valid = 0 => t.latest = undefined /\ t.lost = 0 /\ t.reordered = 0 /\ Len(kept) = 0
  BY <1>1, <1>2, <1>6, RunsAssumption, undefinedAssumption
     DEF AddUp, Steps, Tracker!FreshTracker
<1>8. /\ tracker'.latest \in Nat /\ tracker'.latest \in Steps
      /\ s <= tracker'.latest
      /\ m.valid > 0 => t.latest <= tracker'.latest
      /\ m.valid > 0 =>
           tracker'.lost + (m.valid + 1) - tracker'.reordered
             = (t.lost + m.valid - t.reordered) + (tracker'.latest - t.latest)
      /\ m.valid = 0 => tracker'.latest = s /\ tracker'.lost = 0 /\ tracker'.reordered = 0
  <2>1. CASE m.valid = 0
    <3>1. tracker' = [t EXCEPT !.latest = s]
      BY <1>4, <1>7, <2>1
    <3>2. tracker'.latest = s /\ tracker'.lost = t.lost /\ tracker'.reordered = t.reordered
      BY <1>1, <3>1 DEF Trackers
    <3>3. QED
      BY <1>1, <1>7, <2>1, <3>2
  <2>2. CASE m.valid > 0 /\ s <= t.latest
    <3>1. tracker' = [t EXCEPT !.reordered = @ + 1]
      BY <1>4, <1>7, <2>2
    <3>2. tracker'.latest = t.latest /\ tracker'.lost = t.lost
          /\ tracker'.reordered = t.reordered + 1
      BY <1>1, <3>1 DEF Trackers
    <3>3. t.latest \in Steps /\ t.latest \in Nat
      BY <1>2, <1>7, <2>2 DEF AddUp
    <3>4. t.lost + (m.valid + 1) - (t.reordered + 1)
            = (t.lost + m.valid - t.reordered) + (t.latest - t.latest)
      BY <1>6, <3>3
    <3>5. QED
      BY <2>2, <3>2, <3>3, <3>4
  <2>3. CASE m.valid > 0 /\ ~(s <= t.latest)
    <3>1. /\ tracker'.latest = s /\ tracker'.lost = t.lost + (s - t.latest) - 1
          /\ tracker'.reordered = t.reordered
      BY <1>4, <1>7, <2>3
    <3>2. t.latest \in Nat /\ t.latest < s
      BY <1>1, <1>7, <2>3
    <3>3. (t.lost + (s - t.latest) - 1) + (m.valid + 1) - t.reordered
            = (t.lost + m.valid - t.reordered) + (s - t.latest)
      <4>1. t.lost \in Nat /\ m.valid \in Nat /\ t.reordered \in Nat /\ s \in Nat
        BY <1>1, <1>6
      <4> HIDE DEF s
      <4>2. QED
        BY <3>2, <4>1, AheadCounts
    <3>4. QED
      BY <1>1, <2>3, <3>1, <3>2, <3>3
  <2>4. QED
    BY <1>6, <2>1, <2>2, <2>3
<1>9. \A i \in 1 .. Len(kept) : kept[i] \in Packets /\ kept[i].step \in Nat
                              /\ kept[i].step <= t.latest
  <2>1. ASSUME NEW i \in 1 .. Len(kept) PROVE kept[i] \in Packets /\ kept[i].step \in Nat
    <3>1. kept[i] \in Packets
      BY <1>1, ElementOfSeq
    <3>2. QED
      BY <3>1, RunsAssumption DEF Packets, Steps
  <2>2. QED
    BY <1>2, <2>1 DEF AddUp
<1>10. ASSUME NEW i \in 1 .. Len(history') PROVE history'[i].step <= tracker'.latest
  <2>1. CASE i = Len(history')
    BY <1>3, <1>8, <2>1
  <2>2. CASE i # Len(history')
    <3>1. i \in 1 .. Len(history') - 1
      BY <1>1, <1>3, <2>2
    <3>2. PICK j \in 1 .. Len(kept) : history'[i] = kept[j]
      <4>1. CASE Len(kept) < historyCapacity
        BY <1>1, <1>3, <3>1, <4>1
      <4>2. CASE ~(Len(kept) < historyCapacity)
        <5>1. i + 1 \in 1 .. Len(kept) /\ history'[i] = kept[i + 1]
          BY <1>1, <1>3, <3>1, <4>2
        <5>2. QED
          BY <5>1
      <4>3. QED
        BY <4>1, <4>2
    <3>3. m.valid > 0
      BY <1>6, <1>7, <3>2
    <3>4. QED
      BY <1>7, <1>8, <1>9, <3>2, <3>3
  <2>3. QED
    BY <2>1, <2>2
<1>11. Len(history') = IF metrics'.valid < historyCapacity THEN metrics'.valid
                       ELSE historyCapacity
  BY <1>1, <1>2, <1>3, <1>5, <1>6 DEF AddUp
<1>12. ASSUME Len(history') = metrics'.valid
       PROVE  metrics'.lost + metrics'.valid - metrics'.reordered
                = tracker'.latest - history'[1].step + 1
  <2>1. Len(kept) < historyCapacity /\ Len(kept) = m.valid
    BY <1>1, <1>2, <1>3, <1>5, <1>6, <1>12 DEF AddUp
  <2>2. CASE m.valid = 0
    <3>1. Len(history') = 1 /\ history'[1] = packet
      BY <1>3, <2>1, <2>2
    <3>2. QED
      BY <1>1, <1>5, <1>8, <2>2, <3>1
  <2>3. CASE m.valid > 0
    <3>1. 1 \in 1 .. Len(history') - 1 /\ history'[1] = kept[1]
      BY <1>1, <1>3, <2>1, <2>3
    <3>2. t.lost + m.valid - t.reordered = t.latest - kept[1].step + 1
      BY <1>2, <2>1, <2>3 DEF AddUp
    <3>3. kept[1].step \in Nat /\ t.latest \in Nat /\ tracker'.latest \in Nat
      BY <1>7, <1>8, <1>9, <2>1, <2>3
    <3>4. (t.latest - kept[1].step + 1) + (tracker'.latest - t.latest)
            = tracker'.latest - kept[1].step + 1
      BY <3>3
    <3>5. tracker'.lost + (m.valid + 1) - tracker'.reordered
            = (t.lost + m.valid - t.reordered) + (tracker'.latest - t.latest)
      BY <1>8, <2>3
    <3>6. QED
      BY <1>5, <3>1, <3>2, <3>4, <3>5
  <2>4. QED
    BY <1>6, <2>2, <2>3
<1>13. MetricsAddUp'
  BY <1>2, <1>5, <1>6, <1>11, <1>12 DEF AddUp, MetricsAddUp
<1>14. latestTimestamp' = Last(history').step
  BY <1>3 DEF Counted
<1>15. QED
  BY <1>5, <1>6, <1>8, <1>10, <1>13, <1>14 DEF ServerCounts

LEMMA Rejected_Counts ==
  ASSUME ServerTypes, ServerCounts, NEW packet, Rejected(packet) PROVE ServerCounts'
<1>1. /\ metrics'.received = metrics.received + 1 /\ metrics'.rejected = metrics.rejected + 1
      /\ metrics'.valid = metrics.valid
      /\ metrics'.lost = metrics.lost /\ metrics'.reordered = metrics.reordered
      /\ UNCHANGED <<history, tracker, latestTimestamp>>
  BY RejectedMetrics DEF ServerTypes, Rejected
<1>2. metrics.received \in Nat /\ metrics.valid \in Nat /\ metrics.rejected \in Nat
  BY DEF ServerTypes, Metrics
<1>3. MetricsAddUp'
  BY <1>1, <1>2 DEF ServerCounts, MetricsAddUp
<1>4. QED
  BY <1>1, <1>3 DEF ServerCounts, Last

LEMMA Next_Counts == ASSUME ServerTypes, ServerCounts, [Next]_vars PROVE ServerCounts'
<1>1. UNCHANGED serverVars => ServerCounts'
  BY DEF serverVars, ServerCounts, MetricsAddUp, Last
<1>2. ASSUME NEW i \in 1 .. Len(network), acceptPacket(i) PROVE ServerCounts'
  BY <1>2, AcceptFacts, Counted_Counts, Rejected_Counts
<1>3. CASE ServerRestarts
  <2>1. history' = <<>> /\ tracker' = Tracker!FreshTracker /\ metrics' = NoMetrics
    BY <1>3 DEF ServerRestarts
  <2>2. QED
    BY <2>1, historyCapacityAssumption
       DEF ServerCounts, MetricsAddUp, NoMetrics, Tracker!FreshTracker
<1>4. QED
  BY <1>1, <1>2, <1>3
     DEF Next, SimulatorSends, SimulatorRestarts, PacketLost, PacketDamaged, ClientConnects,
         ClientDisconnects, ClientReads, vars

LEMMA Init_Counts == ASSUME Init PROVE ServerCounts
<1>1. history = <<>> /\ tracker = Tracker!FreshTracker /\ metrics = NoMetrics
  BY DEF Init
<1>2. QED
  BY <1>1, historyCapacityAssumption
     DEF ServerCounts, MetricsAddUp, NoMetrics, Tracker!FreshTracker

(***************************************************************************)
(* Received packets are valid or rejected, and losses and the packets that *)
(* came in time span the sequence numbers since the first.                 *)
(***************************************************************************)
THEOREM ServerCountsInvariant == Spec => [](ServerTypes /\ ServerCounts)
<1>1. Init => ServerTypes /\ ServerCounts
  BY Init_Types, Init_Counts
<1>2. ServerTypes /\ ServerCounts /\ [Next]_vars => (ServerTypes /\ ServerCounts)'
  BY Next_Types, Next_Counts
<1>3. QED
  BY <1>1, <1>2, PTL DEF Spec

THEOREM ServerMetricsAddUp == Spec => []MetricsAddUp
<1>1. ServerTypes /\ ServerCounts => MetricsAddUp
  BY DEF ServerCounts
<1>2. QED
  BY <1>1, ServerCountsInvariant, PTL

-----------------------------------------------------------------------------
(* The path from the simulator and the history.                            *)
LEMMA PathTypes ==
  ASSUME ServerTypes
  PROVE  /\ run \in Nat /\ step \in Nat /\ ordering \in {"fifo", "behind_first", "any"}
         /\ Len(network) \in Nat /\ Len(history) \in Nat
         /\ \A i \in 1 .. Len(network) :
              network[i].run \in Runs /\ network[i].run \in Nat /\ network[i].step \in Nat
         /\ \A i \in 1 .. Len(history) : history[i].run \in Nat /\ history[i].step \in Nat
<1>1. run \in Nat /\ step \in Nat /\ Len(network) \in Nat /\ Len(history) \in Nat
  BY RunsAssumption DEF ServerTypes, Runs
<1>2. \A packet \in Packets :
        packet.run \in Runs /\ packet.run \in Nat /\ packet.step \in Nat
  BY RunsAssumption DEF Packets, Runs, Steps
<1>3. /\ \A i \in 1 .. Len(network) : network[i] \in Packets
      /\ \A i \in 1 .. Len(history) : history[i] \in Packets
  BY ElementOfSeq DEF ServerTypes
<1>4. QED
  BY <1>1, <1>2, <1>3, OrderingsAssumption DEF ServerTypes

(* What was sent is of an earlier run or an earlier step of this one.      *)
LEMMA SentBefore ==
  ASSUME ServerTypes, SentInOrder
  PROVE  /\ \A i \in 1 .. Len(network) :
              /\ network[i].run \in Nat /\ network[i].step \in Nat /\ network[i].run <= run
              /\ network[i].run = run => network[i].step < step
         /\ \A i \in 1 .. Len(history) :
              /\ history[i].run \in Nat /\ history[i].step \in Nat /\ history[i].run <= run
              /\ history[i].run = run => history[i].step < step
<1>1. run \in Nat /\ step \in Nat
  BY PathTypes
<1>2. \A q : q.run \in Nat /\ q.step \in Nat /\ Before(q, NextSent) =>
        q.run <= run /\ (q.run = run => q.step < step)
  <2> SUFFICES ASSUME NEW q, q.run \in Nat, q.step \in Nat, Before(q, NextSent)
               PROVE  q.run <= run /\ (q.run = run => q.step < step)
    OBVIOUS
  <2>1. q.run < run \/ (q.run = run /\ q.step < step)
    BY DEF Before, NextSent
  <2>2. QED
    BY <1>1, <2>1
<1>3. /\ \A i \in 1 .. Len(network) : network[i].run \in Nat /\ network[i].step \in Nat
      /\ \A i \in 1 .. Len(history) : history[i].run \in Nat /\ history[i].step \in Nat
  BY PathTypes
<1>4. /\ \A i \in 1 .. Len(network) : Before(network[i], NextSent)
      /\ \A i \in 1 .. Len(history) : Before(history[i], NextSent)
  BY DEF SentInOrder
<1>5. QED
  BY <1>2, <1>3, <1>4

LEMMA Init_Path == ASSUME Init PROVE PathInv
<1>1. network = <<>> /\ Len(network) = 0 /\ history = <<>> /\ Len(history) = 0
  BY DEF Init
<1>2. SentInOrder /\ PathRuns /\ FirstOnItsWay
  BY <1>1 DEF SentInOrder, PathRuns, FirstOnItsWay
<1>3. FirstTaken /\ TakenFirst /\ HistoryInOrder /\ OneFlightInHistory
  BY <1>1 DEF FirstTaken, TakenFirst, HistoryInOrder, OneFlightInHistory
<1>4. QED
  BY <1>2, <1>3 DEF PathInv

LEMMA Sends_Path ==
  ASSUME ServerTypes, PathInv, SimulatorSends PROVE PathInv'
<1> DEFINE packet == [run |-> run, step |-> step, intact |-> TRUE]
           n == Len(network)
<1>1. /\ n \in Nat /\ Len(network') = n + 1
      /\ \A i \in 1 .. n : network'[i] = network[i]
      /\ network'[n + 1] = packet
      /\ step \in Nat /\ step' = step + 1
  BY Sends_Types
<1>2. packet.run = run /\ packet.step = step /\ packet.intact
  OBVIOUS
<1>3. UNCHANGED <<run, ordering, history>>
  BY DEF SimulatorSends, serverVars
<1> HIDE DEF packet
<1>4. run \in Nat
  BY PathTypes
<1>5. SentInOrder'
  <2>1. \A q : Before(q, NextSent) => Before(q, packet)
    BY <1>2 DEF Before, NextSent
  <2>3. /\ \A i \in 1 .. n : network[i].step \in Nat
        /\ \A i \in 1 .. Len(history) : history[i].step \in Nat
    BY PathTypes
  <2>4. \A i, j \in 1 .. n + 1 : i < j => Before(network'[i], network'[j])
    BY <1>1, <2>1 DEF PathInv, SentInOrder
  <2>5. ASSUME NEW i \in 1 .. n + 1 PROVE Before(network'[i], NextSent')
    <3>1. CASE i \in 1 .. n
      <4>1. Before(network[i], NextSent)
        BY <3>1 DEF PathInv, SentInOrder
      <4>2. network'[i] = network[i]
        BY <1>1, <3>1
      <4>3. QED
        BY <1>1, <1>3, <2>3, <3>1, <4>1, <4>2 DEF Before, NextSent
    <3>2. CASE i = n + 1
      BY <1>1, <1>2, <1>3, <3>2 DEF Before, NextSent
    <3>3. QED
      BY <1>1, <3>1, <3>2
  <2>6. ASSUME NEW i \in 1 .. Len(history) PROVE Before(history[i], NextSent')
    <3>1. Before(history[i], NextSent)
      BY DEF PathInv, SentInOrder
    <3>2. QED
      BY <1>1, <1>3, <2>3, <3>1 DEF Before, NextSent
  <2>7. QED
    BY <1>1, <1>3, <2>4, <2>5, <2>6 DEF SentInOrder
<1>6. PathRuns'
  <2>1. \A i \in 1 .. Len(history) : history[i].run <= run
    BY SentBefore DEF PathInv
  <2>2. ordering # "fifo" => \A i \in 1 .. n + 1 : network'[i].run = run
    BY <1>1, <1>2 DEF PathInv, PathRuns
  <2>3. \A i \in 1 .. Len(history), j \in 1 .. n + 1 : history[i].run <= network'[j].run
    <3>1. TAKE i \in 1 .. Len(history), j \in 1 .. n + 1
    <3>2. CASE j \in 1 .. n
      BY <1>1, <3>2 DEF PathInv, PathRuns
    <3>3. CASE j = n + 1
      BY <1>1, <1>2, <2>1, <3>3
    <3>4. QED
      BY <1>1, <3>2, <3>3
  <2>4. QED
    BY <1>1, <1>3, <2>2, <2>3 DEF PathRuns
<1>7. FirstOnItsWay'
  <2> SUFFICES ASSUME ordering # "any"
               PROVE  /\ \A i \in 1 .. n + 1 : network'[i].step = 0 => network'[i].intact
                      /\ \A r \in Runs :
                           /\ Sent(r)'
                           /\ \/ history # <<>> /\ Last(history).run < r
                              \/ \E j \in 1 .. n + 1 : network'[j].run < r
                           => \E k \in 1 .. n + 1 : network'[k].run = r /\ network'[k].step = 0
    BY <1>1, <1>3 DEF FirstOnItsWay
  <2>1. \A i \in 1 .. n + 1 : network'[i].step = 0 => network'[i].intact
    BY <1>1, <1>2 DEF PathInv, FirstOnItsWay
  <2>2. ASSUME NEW r \in Runs, Sent(r)',
               \/ history # <<>> /\ Last(history).run < r
               \/ \E j \in 1 .. n + 1 : network'[j].run < r
        PROVE  \E k \in 1 .. n + 1 : network'[k].run = r /\ network'[k].step = 0
    <3>1. r \in Nat /\ (r < run \/ r = run)
      BY <1>3, <2>2, RunsAssumption DEF Sent, Runs
    <3>2. CASE r = run /\ step = 0
      BY <1>1, <1>2, <3>2
    <3>3. CASE ~(r = run /\ step = 0)
      <4>1. Sent(r)
        BY <1>1, <3>1, <3>3 DEF Sent
      <4>2. ASSUME NEW j \in 1 .. n + 1, network'[j].run < r
            PROVE  j \in 1 .. n /\ network[j].run < r
        BY <1>1, <1>2, <1>4, <3>1, <4>2
      <4>3. \/ history # <<>> /\ Last(history).run < r
            \/ \E j \in 1 .. n : network[j].run < r
        BY <2>2, <4>2
      <4>4. PICK k \in 1 .. n : network[k].run = r /\ network[k].step = 0
        BY <4>1, <4>3 DEF PathInv, FirstOnItsWay
      <4>5. QED
        BY <1>1, <4>4
    <3>4. QED
      BY <3>2, <3>3
  <2>3. QED
    BY <2>1, <2>2
<1>8. FirstTaken'
  <2> SUFFICES ASSUME ordering = "behind_first", history # <<>>, Last(history).run = run
               PROVE  \A i \in 1 .. n + 1 : network'[i].step > 0
    BY <1>1, <1>3 DEF FirstTaken
  <2>1. Len(history) \in 1 .. Len(history)
    BY EmptySeq DEF ServerTypes
  <2>2. step > 0
    <3>1. Before(Last(history), NextSent) /\ Last(history).step \in Nat
      BY <2>1, PathTypes DEF PathInv, SentInOrder, Last
    <3>2. QED
      BY <1>1, <1>4, <3>1 DEF Before, NextSent
  <2>3. QED
    BY <1>1, <1>2, <2>2 DEF PathInv, FirstTaken
<1>9. TakenFirst'
  <2>1. \A i \in 1 .. Len(history) : Before(history[i], packet)
    BY <1>2 DEF PathInv, SentInOrder, Before, NextSent
  <2>2. QED
    BY <1>1, <1>3, <2>1 DEF PathInv, TakenFirst
<1>10. HistoryInOrder' /\ (ordering' # "any" => OneFlightInHistory')
  BY <1>3 DEF PathInv, HistoryInOrder, OneFlightInHistory, Last
<1>11. QED
  BY <1>5, <1>6, <1>7, <1>8, <1>9, <1>10 DEF PathInv

LEMMA Restarts_Path ==
  ASSUME ServerTypes, PathInv, SimulatorRestarts PROVE PathInv'
<1>1. /\ run' = run + 1 /\ step' = 0 /\ step > 0
      /\ ordering = "fifo" \/ network = <<>>
      /\ UNCHANGED <<ordering, network, history>>
  BY DEF SimulatorRestarts, serverVars
<1>2. run \in Nat /\ step \in Nat
  BY PathTypes
<1>3. /\ \A i \in 1 .. Len(network) : network[i].run <= run /\ network[i].run \in Nat
      /\ \A i \in 1 .. Len(history) : history[i].run <= run /\ history[i].run \in Nat
  BY SentBefore DEF PathInv
<1>4. SentInOrder'
  <2>1. /\ \A i \in 1 .. Len(network) : Before(network[i], NextSent')
        /\ \A i \in 1 .. Len(history) : Before(history[i], NextSent')
    BY <1>1, <1>2, <1>3 DEF Before, NextSent
  <2>2. QED
    BY <1>1, <2>1 DEF PathInv, SentInOrder
<1>5. PathRuns'
  BY <1>1 DEF PathInv, PathRuns
<1>6. FirstOnItsWay'
  <2>1. ASSUME NEW r \in Runs, Sent(r)' PROVE Sent(r)
    <3>1. r \in Nat
      BY RunsAssumption DEF Runs
    <3>2. QED
      BY <1>1, <1>2, <2>1, <3>1 DEF Sent
  <2>2. QED
    BY <1>1, <2>1 DEF PathInv, FirstOnItsWay, Last
<1>7. FirstTaken'
  <2>1. history # <<>> => Last(history).run # run + 1
    <3>1. history # <<>> => Len(history) \in 1 .. Len(history)
      BY EmptySeq DEF ServerTypes
    <3>2. QED
      BY <1>2, <1>3, <3>1 DEF Last
  <2>2. QED
    BY <1>1, <2>1 DEF FirstTaken, Last
<1>8. TakenFirst' /\ HistoryInOrder' /\ (ordering' # "any" => OneFlightInHistory')
  BY <1>1 DEF PathInv, TakenFirst, HistoryInOrder, OneFlightInHistory, Last
<1>9. QED
  BY <1>4, <1>5, <1>6, <1>7, <1>8 DEF PathInv

(* One packet leaves the path; the others stay in their order.             *)
LEMMA RemovedFromPath ==
  ASSUME ServerTypes, SentInOrder, NEW i \in 1 .. Len(network), network' = WithoutNth(network, i)
  PROVE  /\ \A j \in 1 .. Len(network') :
              \E k \in 1 .. Len(network) : k # i /\ network'[j] = network[k]
         /\ \A k \in 1 .. Len(network) : k # i =>
              \E j \in 1 .. Len(network') : network'[j] = network[k]
         /\ \A j, k \in 1 .. Len(network') : j < k => Before(network'[j], network'[k])
<1>0. network \in Seq(Packets) /\ Len(network) \in Nat \ {0}
  BY PathTypes DEF ServerTypes
<1>1. /\ Len(network) \in Nat \ {0} /\ Len(network') = Len(network) - 1
      /\ \A j \in 1 .. Len(network) - 1 :
           /\ j < i => network'[j] = network[j]
           /\ j >= i => network'[j] = network[j + 1]
      /\ \A k \in 1 .. Len(network) : k # i =>
           \E j \in 1 .. Len(network) - 1 : network'[j] = network[k]
  <2> DEFINE w == WithoutNth(network, i)
  <2>1. /\ Len(w) = Len(network) - 1
        /\ \A j \in 1 .. Len(network) - 1 :
             /\ j < i => w[j] = network[j]
             /\ j >= i => w[j] = network[j + 1]
        /\ \A k \in 1 .. Len(network) : k # i =>
             \E j \in 1 .. Len(network) - 1 : w[j] = network[k]
    BY <1>0, WithoutNthProperties
  <2>2. network' = w
    OBVIOUS
  <2> HIDE DEF w
  <2>3. QED
    BY <1>0, <2>1, <2>2
<1>2. ASSUME NEW j \in 1 .. Len(network')
      PROVE  \E k \in 1 .. Len(network) : k # i /\ network'[j] = network[k]
  <2>1. CASE j < i
    BY <1>1, <2>1
  <2>2. CASE j >= i
    <3>1. j + 1 \in 1 .. Len(network) /\ j + 1 # i /\ network'[j] = network[j + 1]
      BY <1>1, <2>2
    <3>2. QED
      BY <3>1
  <2>3. QED
    BY <1>1, <2>1, <2>2
<1>3. ASSUME NEW j \in 1 .. Len(network'), NEW k \in 1 .. Len(network'), j < k
      PROVE  Before(network'[j], network'[k])
  <2> DEFINE place(x) == IF x < i THEN x ELSE x + 1
  <2>1. /\ place(j) \in 1 .. Len(network) /\ place(k) \in 1 .. Len(network)
        /\ place(j) < place(k)
    BY <1>1, <1>3
  <2>2. network'[j] = network[place(j)] /\ network'[k] = network[place(k)]
    BY <1>1
  <2> HIDE DEF place
  <2>3. QED
    BY <2>1, <2>2 DEF SentInOrder
<1>4. QED
  BY <1>1, <1>2, <1>3

(* A packet that is lost or rejected, and is not a run's first one.        *)
LEMMA Vanishes_Path ==
  ASSUME ServerTypes, PathInv, NEW i \in 1 .. Len(network),
         network' = WithoutNth(network, i), UNCHANGED <<run, step, ordering, history>>,
         ordering # "any" => network[i].step # 0
  PROVE  PathInv'
<1>1. /\ \A j \in 1 .. Len(network') :
           \E k \in 1 .. Len(network) : k # i /\ network'[j] = network[k]
      /\ \A k \in 1 .. Len(network) : k # i =>
           \E j \in 1 .. Len(network') : network'[j] = network[k]
      /\ \A j, k \in 1 .. Len(network') : j < k => Before(network'[j], network'[k])
  BY RemovedFromPath DEF PathInv
<1>2. SentInOrder'
  BY <1>1 DEF PathInv, SentInOrder, NextSent
<1>3. PathRuns'
  <2>1. ordering # "fifo" => \A j \in 1 .. Len(network') : network'[j].run = run
    BY <1>1 DEF PathInv, PathRuns
  <2>2. \A h \in 1 .. Len(history), j \in 1 .. Len(network') : history[h].run <= network'[j].run
    BY <1>1 DEF PathInv, PathRuns
  <2>3. QED
    BY <2>1, <2>2 DEF PathRuns
<1>4. FirstOnItsWay'
  <2> SUFFICES ASSUME ordering # "any" PROVE FirstOnItsWay'
    BY DEF FirstOnItsWay
  <2>1. \A j \in 1 .. Len(network') : network'[j].step = 0 => network'[j].intact
    BY <1>1 DEF PathInv, FirstOnItsWay
  <2>2. ASSUME NEW r \in Runs, Sent(r),
               \/ history # <<>> /\ Last(history).run < r
               \/ \E j \in 1 .. Len(network') : network'[j].run < r
        PROVE  \E k \in 1 .. Len(network') : network'[k].run = r /\ network'[k].step = 0
    <3>1. \/ history # <<>> /\ Last(history).run < r
          \/ \E j \in 1 .. Len(network) : network[j].run < r
      BY <1>1, <2>2
    <3>2. PICK k \in 1 .. Len(network) : network[k].run = r /\ network[k].step = 0
      BY <2>2, <3>1 DEF PathInv, FirstOnItsWay
    <3>3. k # i
      BY <3>2
    <3>4. QED
      BY <1>1, <3>2, <3>3
  <2>3. QED
    BY <2>1, <2>2 DEF FirstOnItsWay, Sent, Last
<1>5. FirstTaken' /\ TakenFirst'
  BY <1>1 DEF PathInv, FirstTaken, TakenFirst, Last
<1>6. HistoryInOrder' /\ (ordering' # "any" => OneFlightInHistory')
  BY DEF PathInv, HistoryInOrder, OneFlightInHistory, Last
<1>7. QED
  BY <1>2, <1>3, <1>4, <1>5, <1>6 DEF PathInv

LEMMA PacketLost_Path ==
  ASSUME ServerTypes, PathInv, NEW i \in 1 .. Len(network), PacketLost(i) PROVE PathInv'
<1>1. network[i].step \in Nat
  BY PathTypes
<1>2. /\ network' = WithoutNth(network, i) /\ UNCHANGED <<run, step, ordering, history>>
      /\ ordering # "any" => network[i].step # 0
  BY <1>1 DEF PacketLost, MayVanish, simulatorVars, serverVars
<1>3. QED
  BY <1>2, Vanishes_Path

LEMMA PacketDamaged_Path ==
  ASSUME ServerTypes, PathInv, NEW i \in 1 .. Len(network), PacketDamaged(i) PROVE PathInv'
<1>1. /\ Len(network') = Len(network)
      /\ \A j \in 1 .. Len(network) :
           /\ network'[j].run = network[j].run /\ network'[j].step = network[j].step
           /\ j # i => network'[j] = network[j]
  BY PacketDamaged_Types
<1>2. /\ UNCHANGED <<run, step, ordering, history>>
      /\ ordering # "any" => network[i].step # 0
  <2>1. network[i].step \in Nat
    BY PathTypes
  <2>2. QED
    BY <2>1 DEF PacketDamaged, MayVanish, simulatorVars, serverVars
<1>3. SentInOrder'
  BY <1>1, <1>2 DEF PathInv, SentInOrder, NextSent, Before
<1>4. PathRuns'
  BY <1>1, <1>2 DEF PathInv, PathRuns
<1>5. FirstOnItsWay'
  BY <1>1, <1>2 DEF PathInv, FirstOnItsWay, Sent, Last
<1>6. FirstTaken' /\ TakenFirst'
  BY <1>1, <1>2 DEF PathInv, FirstTaken, TakenFirst, Last, Before
<1>7. HistoryInOrder' /\ (ordering' # "any" => OneFlightInHistory')
  BY <1>2 DEF PathInv, HistoryInOrder, OneFlightInHistory, Last
<1>8. QED
  BY <1>3, <1>4, <1>5, <1>6, <1>7 DEF PathInv

(* What acceptPacket keeps of the history, and where it puts the packet.   *)
LEMMA AddedToHistory ==
  ASSUME ServerTypes, NEW packet \in Packets, NEW kept, NEW t, NEW m,
         Counted(packet, kept, t, m)
  PROVE  /\ Len(history') \in Nat \ {0} /\ history' # <<>>
         /\ Last(history') = packet /\ history'[Len(history')] = packet
         /\ \E e \in {0, 1} : \A i \in 1 .. Len(history') - 1 :
              /\ kept = history /\ t = tracker /\ m = metrics /\ ~Restarted(packet)
              /\ i + e \in 1 .. Len(history)
              /\ history'[i] = history[i + e]
<1>1. /\ kept \in Seq(Packets) /\ Len(kept) <= historyCapacity /\ Len(kept) \in Nat
      /\ historyCapacity \in Nat \ {0}
      /\ history' = History!Pushed(kept, packet)
  BY historyCapacityAssumption DEF Counted
<1>2. /\ Len(history') = IF Len(kept) < historyCapacity THEN Len(kept) + 1 ELSE historyCapacity
      /\ Last(history') = packet /\ history'[Len(history')] = packet
      /\ \A i \in 1 .. Len(history') - 1 :
           history'[i] = IF Len(kept) < historyCapacity THEN kept[i] ELSE kept[i + 1]
  BY <1>1, PushedProperties
<1>3. Len(history') \in Nat \ {0}
  BY <1>1, <1>2
<1>4. Len(kept) > 0 =>
        kept = history /\ t = tracker /\ m = metrics /\ ~Restarted(packet)
  BY Fresh DEF Counted
<1>5. CASE Len(kept) < historyCapacity
  <2>1. \A i \in 1 .. Len(history') - 1 :
          /\ kept = history /\ t = tracker /\ m = metrics /\ ~Restarted(packet)
          /\ i + 0 \in 1 .. Len(history)
          /\ history'[i] = history[i + 0]
    BY <1>1, <1>2, <1>4, <1>5
  <2>2. QED
    BY <1>2, <1>3, <2>1
<1>6. CASE ~(Len(kept) < historyCapacity)
  <2>1. \A i \in 1 .. Len(history') - 1 :
          /\ kept = history /\ t = tracker /\ m = metrics /\ ~Restarted(packet)
          /\ i + 1 \in 1 .. Len(history)
          /\ history'[i] = history[i + 1]
    BY <1>1, <1>2, <1>4, <1>6
  <2>2. QED
    BY <1>2, <1>3, <2>1
<1>7. QED
  BY <1>5, <1>6

(* A history that is not empty speaks of valid packets.                    *)
LEMMA SomeValid ==
  ASSUME ServerTypes, ServerCounts, history # <<>>
  PROVE  /\ Len(history) \in 1 .. Len(history) /\ Last(history) = history[Len(history)]
         /\ metrics.valid > 0
         /\ tracker.latest \in Steps /\ tracker.latest \in Nat /\ tracker.latest # undefined
         /\ latestTimestamp = Last(history).step
         /\ latestTimestamp \in Nat /\ latestTimestamp # undefined
<1>1. Len(history) \in 1 .. Len(history) /\ Len(history) \in Nat
  BY EmptySeq DEF ServerTypes
<1>2. metrics.valid \in Nat
  BY DEF ServerTypes, Metrics
<1>3. metrics.valid > 0
  BY <1>1, <1>2, historyCapacityAssumption DEF ServerCounts, MetricsAddUp
<1>4. tracker.latest \in Steps /\ latestTimestamp = Last(history).step
  BY <1>3 DEF ServerCounts
<1>5. Last(history).step \in Nat
  BY <1>1, PathTypes DEF Last
<1>6. QED
  BY <1>1, <1>3, <1>4, <1>5, undefinedAssumption, RunsAssumption DEF Steps, Last

(* What may be delivered from a path that does not do just anything: no    *)
(* packet overtakes the first one of its run, and none at all if it is in  *)
(* order.                                                                  *)
LEMMA TakenInOrder ==
  ASSUME ServerTypes, PathInv, NEW i \in 1 .. Len(network), Deliverable(i)
  PROVE  /\ ordering = "fifo" => i = 1
         /\ ordering = "fifo" =>
              \A k \in 1 .. Len(network) : k # i => Before(network[i], network[k])
         /\ \A k \in 1 .. Len(network) : network[i].run <= network[k].run
         /\ \A k \in 1 .. Len(network) :
              k # i /\ ordering # "any" /\ network[k].run = network[i].run => network[k].step > 0
<1>1. /\ Len(network) \in Nat
      /\ \A k \in 1 .. Len(network) : network[k].run \in Nat /\ network[k].step \in Nat
  BY PathTypes
<1>2. 1 \in 1 .. Len(network)
  BY <1>1
<1>3. \A k \in 1 .. Len(network) :
        k # 1 => Before(network[1], network[k])
  BY <1>1, <1>2 DEF PathInv, SentInOrder
<1>4. ordering = "fifo" => i = 1
  BY DEF Deliverable
<1>5. \A k \in 1 .. Len(network) : network[i].run <= network[k].run
  <2>1. CASE ordering = "fifo"
    BY <1>1, <1>3, <1>4, <2>1 DEF Before
  <2>2. CASE ordering # "fifo"
    BY <1>1, <2>2 DEF PathInv, PathRuns
  <2>3. QED
    BY <2>1, <2>2
<1>6. ASSUME NEW k \in 1 .. Len(network),
             k # i, ordering # "any", network[k].run = network[i].run
      PROVE  network[k].step > 0
  <2>1. CASE i = 1
    BY <1>1, <1>2, <1>3, <1>6, <2>1 DEF Before
  <2>2. CASE ordering = "behind_first" /\ network[1].step > 0
    <3>1. network[1].run = network[k].run
      BY <1>2, <2>2 DEF PathInv, PathRuns
    <3>2. CASE k = 1
      BY <2>2, <3>2
    <3>3. CASE k # 1
      BY <1>1, <1>2, <1>3, <2>2, <3>1, <3>3 DEF Before
    <3>4. QED
      BY <3>2, <3>3
  <2>3. QED
    BY <1>6, <2>1, <2>2 DEF Deliverable
<1>7. QED
  BY <1>3, <1>4, <1>5, <1>6

(* A packet that joins the flight of the history, or starts a new one.     *)
LEMMA JoinsFlight ==
  ASSUME ServerTypes, ServerCounts, PathInv, ordering # "any",
         NEW i \in 1 .. Len(network), Deliverable(i), ~Restarted(network[i]),
         NEW h \in 1 .. Len(history), history[h].run # network[i].run
  PROVE  history[h].step = 0
<1>1. /\ \A k \in 1 .. Len(network) :
           network[k].run \in Runs /\ network[k].run \in Nat /\ network[k].step \in Nat
      /\ \A k \in 1 .. Len(history) : history[k].run \in Nat /\ history[k].step \in Nat
      /\ run \in Nat /\ step \in Nat
  BY PathTypes
<1>2. history # <<>>
  BY <1>1
<1>3. /\ Len(history) \in 1 .. Len(history) /\ Last(history) = history[Len(history)]
      /\ tracker.latest \in Nat /\ tracker.latest # undefined
  BY <1>2, SomeValid
<1>4. CASE Last(history).run = network[i].run
  BY <1>4 DEF PathInv, OneFlightInHistory
<1>5. CASE Last(history).run # network[i].run
  <2>1. Last(history).run < network[i].run
    <3>1. Last(history).run <= network[i].run
      BY <1>3 DEF PathInv, PathRuns
    <3>2. QED
      BY <1>1, <1>3, <1>5, <3>1
  <2>2. Sent(network[i].run)
    BY <1>1, SentBefore DEF PathInv, Sent
  <2>3. PICK k \in 1 .. Len(network) : network[k].run = network[i].run /\ network[k].step = 0
    BY <1>1, <1>2, <2>1, <2>2 DEF PathInv, FirstOnItsWay
  <2>4. network[i].step = 0
    BY <2>3, TakenInOrder
  <2>5. tracker.latest = 0
    BY <1>3, <2>4 DEF Restarted, SequenceRestarted
  <2>6. history[h].step <= tracker.latest
    BY DEF ServerCounts
  <2>7. QED
    BY <1>1, <2>5, <2>6
<1>6. QED
  BY <1>4, <1>5

LEMMA Counted_Path ==
  ASSUME ServerTypes, ServerCounts, PathInv, NEW i \in 1 .. Len(network), acceptPacket(i),
         NEW kept, NEW t, NEW m, Counted(network[i], kept, t, m)
  PROVE  PathInv'
<1> DEFINE p == network[i]
           n == Len(history')
<1>1. /\ p \in Packets /\ network' = WithoutNth(network, i) /\ Deliverable(i)
      /\ UNCHANGED <<run, step, ordering>>
  BY AcceptFacts
<1>2. /\ \A j \in 1 .. Len(network') :
           \E k \in 1 .. Len(network) : k # i /\ network'[j] = network[k]
      /\ \A k \in 1 .. Len(network) : k # i =>
           \E j \in 1 .. Len(network') : network'[j] = network[k]
      /\ \A j, k \in 1 .. Len(network') : j < k => Before(network'[j], network'[k])
  BY <1>1, RemovedFromPath DEF PathInv
<1>3. /\ n \in Nat \ {0} /\ history' # <<>> /\ Last(history') = p /\ history'[n] = p
      /\ \E e \in {0, 1} : \A h \in 1 .. n - 1 :
           /\ kept = history /\ t = tracker /\ m = metrics /\ ~Restarted(p)
           /\ h + e \in 1 .. Len(history)
           /\ history'[h] = history[h + e]
  BY <1>1, AddedToHistory
<1>4. PICK e \in {0, 1} : \A h \in 1 .. n - 1 :
        ~Restarted(p) /\ h + e \in 1 .. Len(history) /\ history'[h] = history[h + e]
  BY <1>3
<1>5. /\ ordering = "fifo" =>
           i = 1 /\ \A k \in 1 .. Len(network) : k # i => Before(p, network[k])
      /\ \A k \in 1 .. Len(network) : p.run <= network[k].run
      /\ \A k \in 1 .. Len(network) :
           k # i /\ ordering # "any" /\ network[k].run = p.run => network[k].step > 0
  BY <1>1, TakenInOrder
<1>6. /\ run \in Nat /\ step \in Nat
      /\ \A k \in 1 .. Len(network) :
           network[k].run \in Runs /\ network[k].run \in Nat /\ network[k].step \in Nat
      /\ \A k \in 1 .. Len(history) : history[k].run \in Nat /\ history[k].step \in Nat
  BY PathTypes
<1>7. \A h \in 1 .. n : h = n \/ h \in 1 .. n - 1
  BY <1>3
<1> HIDE DEF p, n
<1>8. SentInOrder'
  <2>1. \A j \in 1 .. Len(network') : Before(network'[j], NextSent')
    BY <1>1, <1>2 DEF PathInv, SentInOrder, NextSent
  <2>2. Before(p, NextSent')
    BY <1>1 DEF PathInv, SentInOrder, NextSent, p
  <2>3. \A h \in 1 .. n - 1 : Before(history'[h], NextSent')
    BY <1>1, <1>4 DEF PathInv, SentInOrder, NextSent
  <2>4. \A h \in 1 .. n : Before(history'[h], NextSent')
    BY <1>3, <1>7, <2>2, <2>3
  <2>5. QED
    BY <1>2, <2>1, <2>4 DEF SentInOrder, n
<1>9. PathRuns'
  <2>1. ordering' # "fifo" => \A j \in 1 .. Len(network') : network'[j].run = run'
    BY <1>1, <1>2 DEF PathInv, PathRuns
  <2>2. ASSUME NEW h \in 1 .. n, NEW j \in 1 .. Len(network')
        PROVE  history'[h].run <= network'[j].run
    <3>1. PICK k \in 1 .. Len(network) : network'[j] = network[k]
      BY <1>2
    <3>2. CASE h = n
      BY <1>3, <1>5, <3>1, <3>2
    <3>3. CASE h \in 1 .. n - 1
      BY <1>4, <3>1, <3>3 DEF PathInv, PathRuns
    <3>4. QED
      BY <1>7, <3>2, <3>3
  <2>3. QED
    BY <2>1, <2>2 DEF PathRuns, n
<1>10. FirstOnItsWay'
  <2> SUFFICES ASSUME ordering # "any" PROVE FirstOnItsWay'
    BY <1>1 DEF FirstOnItsWay
  <2>1. ASSUME NEW j \in 1 .. Len(network'), network'[j].step = 0 PROVE network'[j].intact
    <3>1. \A k \in 1 .. Len(network) : network[k].step = 0 => network[k].intact
      BY DEF PathInv, FirstOnItsWay
    <3>2. PICK k \in 1 .. Len(network) : network'[j] = network[k]
      BY <1>2
    <3>3. QED
      BY <2>1, <3>1, <3>2
  <2>2. ASSUME NEW r \in Runs, Sent(r),
               p.run < r \/ \E j \in 1 .. Len(network') : network'[j].run < r
        PROVE  \E j \in 1 .. Len(network') : network'[j].run = r /\ network'[j].step = 0
    <3>1. PICK l \in 1 .. Len(network) : network[l].run < r
      BY <1>2, <2>2 DEF p
    <3>2. PICK k \in 1 .. Len(network) : network[k].run = r /\ network[k].step = 0
      BY <2>2, <3>1 DEF PathInv, FirstOnItsWay
    <3>3. k # i
      <4>1. p.run <= network[l].run /\ p.run \in Nat /\ network[l].run \in Nat /\ r \in Nat
        BY <1>5, <1>6, <3>2 DEF p
      <4>2. p.run # r
        BY <3>1, <4>1
      <4>3. QED
        BY <3>2, <4>2 DEF p
    <3>4. QED
      BY <1>2, <3>2, <3>3
  <2>3. \A r \in Runs : Sent(r)' => Sent(r)
    BY <1>1 DEF Sent
  <2>4. QED
    BY <1>3, <2>1, <2>2, <2>3 DEF FirstOnItsWay
<1>11. FirstTaken'
  <2> SUFFICES ASSUME ordering = "behind_first", p.run = run
               PROVE  \A j \in 1 .. Len(network') : network'[j].step > 0
    BY <1>1, <1>3 DEF FirstTaken
  <2>1. TAKE j \in 1 .. Len(network')
  <2>2. PICK k \in 1 .. Len(network) : k # i /\ network'[j] = network[k]
    BY <1>2
  <2>3. network[k].run = p.run
    BY DEF PathInv, PathRuns
  <2>4. QED
    BY <1>5, <2>2, <2>3
<1>12. TakenFirst'
  <2> SUFFICES ASSUME ordering = "fifo", NEW h \in 1 .. n, NEW j \in 1 .. Len(network')
               PROVE  Before(history'[h], network'[j])
    BY <1>1 DEF TakenFirst, n
  <2>1. PICK k \in 1 .. Len(network) : k # i /\ network'[j] = network[k]
    BY <1>2
  <2>2. CASE h = n
    BY <1>3, <1>5, <2>1, <2>2
  <2>3. CASE h \in 1 .. n - 1
    BY <1>4, <2>1, <2>3 DEF PathInv, TakenFirst
  <2>4. QED
    BY <1>7, <2>2, <2>3
<1>13. HistoryInOrder'
  <2> SUFFICES ASSUME ordering = "fifo", NEW g \in 1 .. n, NEW h \in 1 .. n, g < h
               PROVE  Before(history'[g], history'[h])
    BY <1>1 DEF HistoryInOrder, Before, n
  <2>1. g \in 1 .. n - 1 /\ g + e \in 1 .. Len(history) /\ history'[g] = history[g + e]
    BY <1>3, <1>4
  <2>2. CASE h = n
    <3>1. Before(history[g + e], p)
      BY <2>1 DEF PathInv, TakenFirst, p
    <3>2. QED
      BY <1>3, <2>1, <2>2, <3>1
  <2>3. CASE h \in 1 .. n - 1
    <3>1. h + e \in 1 .. Len(history) /\ history'[h] = history[h + e] /\ g + e < h + e
      BY <1>3, <1>4, <2>3
    <3>2. Before(history[g + e], history[h + e])
      BY <2>1, <3>1 DEF PathInv, HistoryInOrder, Before
    <3>3. QED
      BY <2>1, <3>1, <3>2
  <2>4. QED
    BY <1>7, <2>2, <2>3
<1>14. ordering' # "any" => OneFlightInHistory'
  <2> SUFFICES ASSUME ordering # "any", NEW h \in 1 .. n, history'[h].run # p.run
               PROVE  history'[h].step = 0
    BY <1>1, <1>3 DEF OneFlightInHistory, n
  <2>1. h \in 1 .. n - 1
    BY <1>3, <1>7
  <2>2. h + e \in 1 .. Len(history) /\ history'[h] = history[h + e] /\ ~Restarted(p)
    BY <1>4, <2>1
  <2>3. QED
    BY <1>1, <2>2, JoinsFlight DEF p
<1>15. QED
  BY <1>8, <1>9, <1>10, <1>11, <1>12, <1>13, <1>14 DEF PathInv

LEMMA acceptPacket_Path ==
  ASSUME ServerTypes, ServerCounts, PathInv, NEW i \in 1 .. Len(network), acceptPacket(i)
  PROVE  PathInv'
<1>1. /\ network' = WithoutNth(network, i) /\ UNCHANGED <<run, step, ordering>>
      /\ \/ Rejected(network[i])
         \/ \E kept, t, m : Counted(network[i], kept, t, m)
  BY AcceptFacts
<1>2. CASE Rejected(network[i])
  <2>1. ordering # "any" => network[i].step # 0
    BY <1>2 DEF Rejected, PathInv, FirstOnItsWay
  <2>2. history' = history
    BY <1>2 DEF Rejected
  <2>3. QED
    BY <1>1, <2>1, <2>2, Vanishes_Path
<1>3. CASE \E kept, t, m : Counted(network[i], kept, t, m)
  BY <1>3, Counted_Path
<1>4. QED
  BY <1>1, <1>2, <1>3

LEMMA ServerRestarts_Path ==
  ASSUME ServerTypes, PathInv, ServerRestarts PROVE PathInv'
<1>1. history' = <<>> /\ Len(history') = 0 /\ UNCHANGED <<run, step, ordering, network>>
  BY DEF ServerRestarts, simulatorVars
<1>2. SentInOrder' /\ PathRuns'
  BY <1>1 DEF PathInv, SentInOrder, PathRuns, NextSent
<1>3. FirstOnItsWay'
  BY <1>1 DEF PathInv, FirstOnItsWay, Sent
<1>4. FirstTaken' /\ TakenFirst' /\ HistoryInOrder' /\ OneFlightInHistory'
  BY <1>1 DEF FirstTaken, TakenFirst, HistoryInOrder, OneFlightInHistory
<1>5. QED
  BY <1>2, <1>3, <1>4 DEF PathInv

LEMMA Next_Path ==
  ASSUME ServerTypes, ServerCounts, PathInv, [Next]_vars PROVE PathInv'
<1>1. CASE SimulatorSends
  BY <1>1, Sends_Path
<1>2. CASE SimulatorRestarts
  BY <1>2, Restarts_Path
<1>3. ASSUME NEW i \in 1 .. Len(network), PacketLost(i) \/ PacketDamaged(i) \/ acceptPacket(i)
      PROVE  PathInv'
  BY <1>3, PacketLost_Path, PacketDamaged_Path, acceptPacket_Path
<1>4. CASE UNCHANGED <<run, step, ordering, network, history>>
  BY <1>4 DEF PathInv, SentInOrder, PathRuns, FirstOnItsWay, FirstTaken, TakenFirst,
              HistoryInOrder, OneFlightInHistory, Sent, NextSent, Last
<1>5. ASSUME NEW c \in Clients, ClientConnects(c) \/ ClientDisconnects(c) \/ ClientReads(c)
      PROVE  PathInv'
  <2>1. UNCHANGED <<run, step, ordering, network, history>>
    BY <1>5 DEF ClientConnects, ClientDisconnects, ClientReads, simulatorVars, serverVars
  <2>2. QED
    BY <1>4, <2>1
<1>6. CASE ServerRestarts
  BY <1>6, ServerRestarts_Path
<1>7. CASE UNCHANGED vars
  BY <1>4, <1>7 DEF vars, simulatorVars, serverVars
<1>8. QED
  BY <1>1, <1>2, <1>3, <1>5, <1>6, <1>7 DEF Next

(***************************************************************************)
(* What is on the path and what was taken from it: the order the simulator *)
(* sent in, and the first packet of a run ahead of the others.             *)
(***************************************************************************)
THEOREM ServerInvariant == Spec => []ServerInv
<1>1. Init => ServerInv
  BY Init_Types, Init_Counts, Init_Path DEF ServerInv
<1>2. ServerInv /\ [Next]_vars => ServerInv'
  BY Next_Types, Next_Counts, Next_Path DEF ServerInv
<1>3. QED
  BY <1>1, <1>2, PTL DEF Spec

(***************************************************************************)
(* Over a path that keeps order the history is in flight order, without a  *)
(* sample held twice.                                                      *)
(***************************************************************************)
THEOREM ServerHistoryInOrder == Spec => []HistoryInOrder
<1>1. ServerInv => HistoryInOrder
  BY DEF ServerInv, PathInv
<1>2. QED
  BY <1>1, ServerInvariant, PTL

(***************************************************************************)
(* When the first packet of a run is neither lost, damaged nor overtaken,  *)
(* the history never mixes two flights.                                    *)
(***************************************************************************)
THEOREM ServerKeepsOneFlight ==
  ASSUME "any" \notin Orderings PROVE Spec => []OneFlightInHistory
<1>1. ServerInv => OneFlightInHistory
  BY DEF ServerInv, PathInv, ServerTypes
<1>2. QED
  BY <1>1, ServerInvariant, PTL

-----------------------------------------------------------------------------
(* Late packets.                                                           *)
Prompt == MaxDelay \in Nat /\ MaxDelay <= OneSecond /\ "any" \notin Orderings

(* A late packet of the flight does not look like a restart.               *)
LEMMA LateStays ==
  ASSUME ServerInv, Prompt, NEW i \in 1 .. Len(network), acceptPacket(i), LatePacket(network[i])
  PROVE  ~Restarted(network[i])
<1> DEFINE p == network[i]
           last == Last(history)
<1>1. ServerTypes /\ ServerCounts /\ PathInv
  BY DEF ServerInv
<1>2. /\ run \in Nat /\ step \in Nat
      /\ \A k \in 1 .. Len(network) : network[k].run \in Nat /\ network[k].step \in Nat
      /\ \A k \in 1 .. Len(history) : history[k].run \in Nat /\ history[k].step \in Nat
  BY <1>1, PathTypes
<1>3. Deliverable(i) /\ InTime(p)
  BY <1>1, AcceptFacts
<1>4. history # <<>> /\ p.run = last.run
  BY DEF LatePacket
<1>5. /\ Len(history) \in 1 .. Len(history) /\ last = history[Len(history)]
      /\ latestTimestamp = last.step /\ latestTimestamp \in Nat
  BY <1>1, <1>4, SomeValid
<1>6. p.step \in Nat /\ OneSecond \in Nat /\ MaxDelay \in Nat /\ MaxDelay <= OneSecond
  BY <1>2, OneSecondAssumption DEF Prompt
<1>7. CASE ordering = "fifo"
  <2>1. Before(last, p)
    BY <1>1, <1>5, <1>7 DEF PathInv, TakenFirst
  <2>2. last.step < p.step
    BY <1>2, <1>4, <1>5, <2>1 DEF Before
  <2> HIDE DEF p, last
  <2>3. p.step > 0 /\ ~(p.step + OneSecond < latestTimestamp)
    BY <1>5, <1>6, <2>2
  <2>4. QED
    BY <2>3 DEF Restarted, SequenceRestarted, SimulationClockRestarted, p
<1>8. CASE ordering = "behind_first"
  <2>1. p.run = run
    BY <1>1, <1>8 DEF PathInv, PathRuns
  <2>2. p.step > 0
    BY <1>1, <1>4, <1>8, <2>1 DEF PathInv, FirstTaken
  <2>3. last.step < step
    BY <1>1, <1>4, <1>5, <2>1, SentBefore DEF PathInv
  <2>4. step - p.step <= MaxDelay
    BY <1>3, <2>1 DEF InTime
  <2> HIDE DEF p, last
  <2>5. ~(p.step + OneSecond < latestTimestamp)
    BY <1>2, <1>5, <1>6, <2>3, <2>4
  <2>6. QED
    BY <2>2, <2>5 DEF Restarted, SequenceRestarted, SimulationClockRestarted, p
<1>9. QED
  BY <1>1, <1>7, <1>8, OrderingsAssumption DEF ServerTypes, Prompt

LEMMA LateCounts ==
  ASSUME ServerInv, Prompt, NEW i \in 1 .. Len(network), acceptPacket(i), LatePacket(network[i])
  PROVE  /\ metrics'.reordered = metrics.reordered + 1
         /\ metrics'.lost = metrics.lost
         /\ Len(history') >= Len(history)
<1> DEFINE p == network[i]
<1>1. ServerTypes /\ ServerCounts /\ PathInv
  BY DEF ServerInv
<1>2. p \in Packets /\ p.step \in Steps
  BY <1>1, AcceptFacts
<1>3. PICK kept, t, m : Counted(p, kept, t, m)
  BY <1>1, AcceptFacts DEF Rejected, LatePacket
<1>4. kept = history /\ t = tracker /\ m = metrics
  BY <1>3, LateStays DEF Counted
<1>5. tracker.latest # undefined /\ p.step < tracker.latest
  BY <1>1, SomeValid DEF LatePacket
<1>6. p.step \in Nat /\ tracker.latest \in Nat
  BY <1>1, <1>2, RunsAssumption, SomeValid DEF LatePacket, Steps
<1> HIDE DEF p
<1>7. tracker' = [tracker EXCEPT !.reordered = @ + 1]
  <2>1. tracker' = Tracker!observe(tracker, p.step) /\ tracker \in Trackers
    BY <1>1, <1>3, <1>4 DEF Counted, ServerTypes
  <2>2. p.step <= tracker.latest
    BY <1>5, <1>6
  <2>3. QED
    BY <1>2, <1>5, <2>1, <2>2, ObserveInRun
<1>8. /\ tracker'.lost = tracker.lost /\ tracker'.reordered = tracker.reordered + 1
      /\ tracker'.lost \in Nat /\ tracker'.reordered \in Nat
  BY <1>1, <1>7 DEF ServerTypes, Trackers
<1>9. metrics'.lost = tracker'.lost /\ metrics'.reordered = tracker'.reordered
  BY <1>2, <1>3, Counted_Metrics
<1>10. metrics.lost = tracker.lost /\ metrics.reordered = tracker.reordered
  BY <1>1 DEF ServerCounts
<1>11. Len(history') >= Len(history)
  <2>1. history' = History!Pushed(history, p) /\ history \in Seq(Packets)
        /\ Len(history) <= historyCapacity /\ historyCapacity \in Nat
    BY <1>1, <1>3, <1>4, historyCapacityAssumption DEF Counted, ServerTypes
  <2>2. Len(history) \in Nat
        /\ Len(history') = IF Len(history) < historyCapacity THEN Len(history) + 1
                           ELSE historyCapacity
    BY <1>2, <2>1, PushedProperties
  <2>3. QED
    BY <2>1, <2>2
<1>12. QED
  BY <1>8, <1>9, <1>10, <1>11

(***************************************************************************)
(* A late packet of the current flight is counted as reordered, and        *)
(* neither the losses nor the history change for it: it is never taken for *)
(* a restart, when packets are delayed by at most the clock tolerance and  *)
(* the first one of a run is not lost, damaged or overtaken.               *)
(***************************************************************************)
THEOREM ServerCountsLate == ASSUME Prompt PROVE Spec => LateIsReordered
<1>1. ServerInv =>
        \A i \in 1 .. Len(network) :
          acceptPacket(i) /\ LatePacket(network[i]) =>
            /\ metrics'.reordered = metrics.reordered + 1
            /\ metrics'.lost = metrics.lost
            /\ Len(history') >= Len(history)
  BY LateCounts
<1>2. QED
  BY <1>1, ServerInvariant, PTL DEF LateIsReordered

-----------------------------------------------------------------------------
(* What a client holds after each of the messages on the way to it.        *)
Readings(c, held) ==
  /\ held[0] = view[c]
  /\ \A n \in 1 .. Len(inbox[c]) : held[n] = Apply(held[n - 1], inbox[c][n])

UpToDate(holding) ==
  /\ holding.samples = history
  /\ holding.metrics.valid = metrics.valid
  /\ holding.metrics.lost = metrics.lost
  /\ holding.metrics.reordered = metrics.reordered

(* Whatever the readings are called, they end in what the server has.      *)
Converging ==
  \A c \in connected : \A held : Readings(c, held) => UpToDate(held[Len(inbox[c])])

LEMMA SmallestOf ==
  ASSUME NEW T \in SUBSET Nat, T # {}
  PROVE  \E x \in T : \A y \in T : ~(y < x)
<1>1. PICK x \in T : \A y \in T : ~(<<y, x>> \in OpToRel(<, Nat))
  BY NatLessThanWellFounded, WFMin
<1>2. \A y \in T : y < x => <<y, x>> \in OpToRel(<, Nat)
  BY DEF OpToRel
<1>3. QED
  BY <1>1, <1>2

(* The readings exist: they are computed one message at a time.            *)
Computed(start, messages, k, f) ==
  f = [n \in 0 .. k |-> IF n = 0 THEN start ELSE Apply(f[n - 1], messages[n])]

LEMMA ReadingsExist ==
  ASSUME NEW start, NEW messages, Len(messages) \in Nat, NEW k \in 0 .. Len(messages)
  PROVE  \E f : Computed(start, messages, k, f)
<1> DEFINE Missing == {j \in 0 .. Len(messages) : ~\E f : Computed(start, messages, j, f)}
<1>1. SUFFICES Missing = {}
  OBVIOUS
<1>2. SUFFICES ASSUME Missing # {} PROVE FALSE
  OBVIOUS
<1>3. Missing \in SUBSET Nat
  OBVIOUS
<1> HIDE DEF Missing
<1>4. PICK j \in Missing : \A y \in Missing : ~(y < j)
  BY <1>2, <1>3, SmallestOf
<1> USE DEF Missing
<1>5. CASE j = 0
  <2> DEFINE f == [n \in 0 .. 0 |-> start]
  <2>1. f = [n \in 0 .. 0 |-> IF n = 0 THEN start ELSE Apply(f[n - 1], messages[n])]
    OBVIOUS
  <2>2. Computed(start, messages, 0, f)
    BY <2>1 DEF Computed
  <2>3. QED
    BY <1>4, <1>5, <2>2
<1>6. CASE j # 0
  <2>1. j \in Nat \ {0} /\ j - 1 \in 0 .. Len(messages) /\ j - 1 < j
    BY <1>4, <1>6
  <2>2. PICK f : Computed(start, messages, j - 1, f)
    BY <1>4, <2>1
  <2>3. f = [n \in 0 .. j - 1 |-> IF n = 0 THEN start ELSE Apply(f[n - 1], messages[n])]
    BY <2>2 DEF Computed
  <2> DEFINE g == [n \in 0 .. j |-> IF n < j THEN f[n] ELSE Apply(f[j - 1], messages[j])]
             step_(n) == IF n = 0 THEN start ELSE Apply(g[n - 1], messages[n])
  <2>4. ASSUME NEW n \in 0 .. j PROVE g[n] = step_(n)
    <3>1. CASE n = j
      <4>1. g[j] = Apply(f[j - 1], messages[j]) /\ g[j - 1] = f[j - 1]
        BY <2>1
      <4>2. QED
        BY <1>6, <3>1, <4>1
    <3>2. CASE n # j
      <4>1. n \in 0 .. j - 1 /\ g[n] = f[n] /\ (n # 0 => g[n - 1] = f[n - 1])
        BY <2>1, <3>2
      <4>2. f[n] = IF n = 0 THEN start ELSE Apply(f[n - 1], messages[n])
        BY <2>3, <4>1
      <4>3. QED
        BY <4>1, <4>2
    <3>3. QED
      BY <3>1, <3>2
  <2>5. g = [n \in 0 .. j |-> step_(n)]
    BY <2>4
  <2>6. Computed(start, messages, j, g)
    BY <2>5 DEF Computed
  <2>7. QED
    BY <1>4, <2>6
<1>7. QED
  BY <1>5, <1>6

LEMMA Pair == ASSUME NEW a, NEW b PROVE <<a>> \o <<b>> = <<a, b>>
<1>1. /\ <<a>> \in Seq({a, b}) /\ Len(<<a>>) = 1 /\ <<a>>[1] = a
      /\ <<b>> \in Seq({a, b}) /\ Len(<<b>>) = 1 /\ <<b>>[1] = b
      /\ <<a, b>> \in Seq({a, b}) /\ Len(<<a, b>>) = 2 /\ <<a, b>>[1] = a /\ <<a, b>>[2] = b
  OBVIOUS
<1> DEFINE both == <<a>> \o <<b>>
<1>2. both \in Seq({a, b}) /\ Len(both) = 2 /\ both[1] = a /\ both[2] = b
  BY <1>1, ConcatProperties
<1> HIDE DEF both
<1>3. both = <<a, b>>
  BY <1>1, <1>2, SeqEqual
<1>4. QED
  BY <1>3 DEF both

LEMMA ApplyFacts ==
  ASSUME NEW holding, NEW message
  PROVE  /\ Apply(holding, message).metrics = message.metrics
         /\ message.type = "history" => Apply(holding, message).samples = message.samples
         /\ message.type = "reset" => Apply(holding, message).samples = <<>>
         /\ message.type = "telemetry" =>
              Apply(holding, message).samples = History!Pushed(holding.samples, message.sample)
BY DEF Apply

(* A client whose messages, view and what they must lead to are unchanged. *)
LEMMA StillConverges ==
  ASSUME Converging, NEW c \in connected, inbox'[c] = inbox[c], view'[c] = view[c],
         history' = history, metrics'.valid = metrics.valid,
         metrics'.lost = metrics.lost, metrics'.reordered = metrics.reordered,
         NEW held, Readings(c, held)'
  PROVE  UpToDate(held[Len(inbox[c])])'
<1>1. Readings(c, held)
  BY DEF Readings
<1>2. UpToDate(held[Len(inbox[c])])
  BY <1>1 DEF Converging
<1>3. QED
  BY <1>2 DEF UpToDate

(* A broadcast leads everyone from the old history to the new one.         *)
LEMMA Counted_Converges ==
  ASSUME ServerTypes, Converging, NEW packet \in Packets, NEW kept, NEW t, NEW m,
         Counted(packet, kept, t, m), connected' = connected, view' = view
  PROVE  Converging'
<1> SUFFICES ASSUME NEW c \in connected, NEW held, Readings(c, held)'
             PROVE  UpToDate(held[Len(inbox[c])])'
  BY DEF Converging
<1> DEFINE N == Len(inbox[c])
           sample == [type |-> "telemetry", sample |-> packet, metrics |-> metrics']
           reset == [type |-> "reset", metrics |-> NoMetrics]
<1>1. inbox[c] \in Seq(Messages) /\ N \in Nat /\ c \in Clients
  BY DEF ServerTypes
<1>2. /\ held[0] = view[c]
      /\ \A n \in 1 .. Len(inbox'[c]) : held[n] = Apply(held[n - 1], inbox'[c][n])
  BY DEF Readings
<1>3. /\ sample.type = "telemetry" /\ sample.sample = packet /\ sample.metrics = metrics'
      /\ reset.type = "reset"
      /\ Sample(packet) = <<sample>> /\ Reset = <<reset>>
  BY DEF Sample, Reset
<1> HIDE DEF sample, reset
<1>4. CASE Broadcast(Sample(packet)) /\ kept = history
  <2>1. inbox'[c] = inbox[c] \o <<sample>>
    BY <1>1, <1>3, <1>4 DEF Broadcast
  <2>2. /\ Len(inbox'[c]) = N + 1 /\ inbox'[c][N + 1] = sample
        /\ \A n \in 1 .. N : inbox'[c][n] = inbox[c][n]
    BY <1>1, <2>1
  <2>3. UpToDate(held[N])
    <3>1. Readings(c, held)
      BY <1>1, <1>2, <2>2 DEF Readings
    <3>2. QED
      BY <3>1 DEF Converging
  <2>4. held[N + 1] = Apply(held[N], sample)
    BY <1>1, <1>2, <2>2
  <2>5. /\ held[N + 1].samples = History!Pushed(held[N].samples, packet)
        /\ held[N + 1].metrics = metrics'
    BY <1>3, <2>4, ApplyFacts
  <2>6. held[N + 1].samples = history'
    BY <1>4, <2>3, <2>5 DEF UpToDate, Counted
  <2>7. QED
    BY <2>2, <2>5, <2>6 DEF UpToDate
<1>5. CASE Broadcast(Reset \o Sample(packet)) /\ kept = <<>>
  <2>1. inbox'[c] = inbox[c] \o <<reset, sample>>
    <3>1. Reset \o Sample(packet) = <<reset, sample>>
      BY <1>3, Pair
    <3>2. QED
      BY <1>1, <1>5, <3>1 DEF Broadcast
  <2>2. /\ Len(inbox'[c]) = N + 2
        /\ inbox'[c][N + 1] = reset /\ inbox'[c][N + 2] = sample
    <3>1. QED
      BY <1>1, <2>1
  <2>3. /\ held[N + 1] = Apply(held[N], reset)
        /\ held[N + 2] = Apply(held[N + 1], sample)
    <3>1. N + 1 \in 1 .. N + 2 /\ N + 2 \in 1 .. N + 2 /\ (N + 1) - 1 = N /\ (N + 2) - 1 = N + 1
      BY <1>1
    <3>2. QED
      BY <1>2, <2>2, <3>1
  <2>4. /\ held[N + 2].samples = History!Pushed(<<>>, packet)
        /\ held[N + 2].metrics = metrics'
    BY <1>3, <2>3, ApplyFacts
  <2>5. held[N + 2].samples = history'
    BY <1>5, <2>4 DEF Counted
  <2>6. QED
    BY <2>2, <2>4, <2>5 DEF UpToDate
<1>6. QED
  BY <1>4, <1>5 DEF Counted

LEMMA acceptPacket_Converges ==
  ASSUME ServerTypes, Converging, NEW i \in 1 .. Len(network), acceptPacket(i) PROVE Converging'
<1>1. /\ network[i] \in Packets /\ UNCHANGED <<connected, view>>
      /\ \/ Rejected(network[i])
         \/ \E kept, t, m : Counted(network[i], kept, t, m)
  BY AcceptFacts
<1>2. CASE Rejected(network[i])
  <2>1. /\ metrics'.valid = metrics.valid
        /\ metrics'.lost = metrics.lost /\ metrics'.reordered = metrics.reordered
        /\ UNCHANGED <<history, inbox>>
    BY <1>2, RejectedMetrics DEF Rejected, ServerTypes
  <2>2. QED
    BY <1>1, <2>1, StillConverges DEF Converging
<1>3. CASE \E kept, t, m : Counted(network[i], kept, t, m)
  BY <1>1, <1>3, Counted_Converges
<1>4. QED
  BY <1>1, <1>2, <1>3

LEMMA ClientConnects_Converges ==
  ASSUME ServerTypes, Converging, NEW c \in Clients, ClientConnects(c) PROVE Converging'
<1> DEFINE backfill == [type |-> "history", samples |-> history, metrics |-> metrics]
<1>1. /\ connected' = connected \cup {c}
      /\ inbox' = [inbox EXCEPT ![c] = <<backfill>>]
      /\ UNCHANGED <<history, metrics, view>>
  BY DEF ClientConnects, serverVars
<1>2. c \notin connected /\ connected \subseteq Clients
  BY DEF ClientConnects, ServerTypes
<1>3. inbox'[c] = <<backfill>> /\ \A d \in connected : inbox'[d] = inbox[d]
  BY <1>1, <1>2 DEF ServerTypes
<1>4. ASSUME NEW d \in connected', NEW held, Readings(d, held)'
      PROVE  UpToDate(held[Len(inbox[d])])'
  <2>1. CASE d \in connected
    BY <1>1, <1>3, <1>4, <2>1, StillConverges
  <2>2. CASE d = c
    <3>1. Len(inbox'[c]) = 1 /\ inbox'[c][1] = backfill
      BY <1>3
    <3>2. held[1] = Apply(held[0], backfill)
      BY <1>4, <2>2, <3>1 DEF Readings
    <3>3. held[1].samples = history /\ held[1].metrics = metrics
      <4>1. /\ backfill.type = "history"
            /\ backfill.samples = history /\ backfill.metrics = metrics
        OBVIOUS
      <4> HIDE DEF backfill
      <4>2. QED
        BY <3>2, <4>1, ApplyFacts
    <3>4. QED
      BY <1>1, <2>2, <3>1, <3>3 DEF UpToDate
  <2>3. QED
    BY <1>1, <2>1, <2>2
<1>5. QED
  BY <1>4 DEF Converging

LEMMA ClientDisconnects_Converges ==
  ASSUME ServerTypes, Converging, NEW c \in Clients, ClientDisconnects(c) PROVE Converging'
<1>1. /\ connected' = connected \ {c} /\ connected \subseteq Clients
      /\ inbox' = [inbox EXCEPT ![c] = <<>>]
      /\ UNCHANGED <<history, metrics, view>>
  BY DEF ClientDisconnects, serverVars, ServerTypes
<1>2. \A d \in connected' : d \in connected /\ inbox'[d] = inbox[d]
  BY <1>1 DEF ServerTypes
<1>3. ASSUME NEW d \in connected', NEW held, Readings(d, held)'
      PROVE  UpToDate(held[Len(inbox[d])])'
  BY <1>1, <1>2, <1>3, StillConverges
<1>4. QED
  BY <1>3 DEF Converging

(* What a client read is one reading less to come.                         *)
LEMMA ClientReads_Converges ==
  ASSUME ServerTypes, Converging, NEW c \in Clients, ClientReads(c) PROVE Converging'
<1>1. /\ c \in connected /\ inbox[c] # <<>>
      /\ view' = [view EXCEPT ![c] = Apply(view[c], Head(inbox[c]))]
      /\ inbox' = [inbox EXCEPT ![c] = Tail(inbox[c])]
      /\ UNCHANGED <<history, metrics, connected>>
  BY DEF ClientReads, serverVars
<1>2. /\ view'[c] = Apply(view[c], Head(inbox[c])) /\ inbox'[c] = Tail(inbox[c])
      /\ \A d \in connected : d # c => inbox'[d] = inbox[d] /\ view'[d] = view[d]
  BY <1>1 DEF ServerTypes
<1>3. ASSUME NEW held, Readings(c, held)' PROVE UpToDate(held[Len(inbox[c])])'
  <2> DEFINE N == Len(inbox[c])
             longer == [n \in 0 .. N |-> IF n = 0 THEN view[c] ELSE held[n - 1]]
  <2>1. inbox[c] \in Seq(Messages) /\ N \in Nat \ {0}
    BY <1>1, EmptySeq DEF ServerTypes
  <2>2. /\ Len(inbox'[c]) = N - 1 /\ Head(inbox[c]) = inbox[c][1]
        /\ \A n \in 1 .. N - 1 : inbox'[c][n] = inbox[c][n + 1]
    <3>1. /\ Len(Tail(inbox[c])) = N - 1
          /\ \A n \in 1 .. N - 1 : Tail(inbox[c])[n] = inbox[c][n + 1]
      BY <1>1, <2>1, HeadTailProperties
    <3>2. Head(inbox[c]) = inbox[c][1]
      BY <1>1, <2>1
    <3>3. QED
      BY <1>2, <3>1, <3>2
  <2>3. /\ held[0] = Apply(view[c], inbox[c][1])
        /\ \A n \in 1 .. N - 1 : held[n] = Apply(held[n - 1], inbox[c][n + 1])
    BY <1>2, <1>3, <2>2 DEF Readings
  <2>4. ASSUME NEW n \in 1 .. N PROVE longer[n] = Apply(longer[n - 1], inbox[c][n])
    <3>1. longer[n] = held[n - 1]
      BY <2>1
    <3>2. CASE n = 1
      <4>1. longer[0] = view[c]
        BY <2>1
      <4>2. QED
        BY <2>3, <3>1, <3>2, <4>1
    <3>3. CASE n # 1
      <4>1. longer[n - 1] = held[(n - 1) - 1] /\ n - 1 \in 1 .. N - 1 /\ (n - 1) + 1 = n
        BY <2>1, <3>3
      <4>2. held[n - 1] = Apply(held[(n - 1) - 1], inbox[c][(n - 1) + 1])
        BY <2>3, <4>1
      <4>3. QED
        BY <3>1, <4>1, <4>2
    <3>4. QED
      BY <3>2, <3>3
  <2>5. longer[0] = view[c] /\ longer[N] = held[N - 1]
    BY <2>1
  <2> HIDE DEF longer
  <2>6. Readings(c, longer)
    BY <2>4, <2>5 DEF Readings
  <2>7. UpToDate(held[N - 1])
    BY <1>1, <2>5, <2>6 DEF Converging
  <2>8. QED
    BY <1>1, <2>2, <2>7 DEF UpToDate
<1>4. ASSUME NEW d \in connected', NEW held, Readings(d, held)'
      PROVE  UpToDate(held[Len(inbox[d])])'
  BY <1>1, <1>2, <1>3, <1>4, StillConverges
<1>5. QED
  BY <1>4 DEF Converging

LEMMA Next_Converges == ASSUME ServerTypes, Converging, [Next]_vars PROVE Converging'
<1>1. CASE UNCHANGED <<history, metrics, connected, inbox, view>>
  BY <1>1, StillConverges DEF Converging
<1>2. CASE SimulatorSends \/ SimulatorRestarts \/ UNCHANGED vars
  BY <1>1, <1>2 DEF SimulatorSends, SimulatorRestarts, vars, serverVars, clientVars
<1>3. ASSUME NEW i \in 1 .. Len(network), PacketLost(i) \/ PacketDamaged(i) \/ acceptPacket(i)
      PROVE  Converging'
  <2>1. CASE PacketLost(i) \/ PacketDamaged(i)
    BY <1>1, <2>1 DEF PacketLost, PacketDamaged, serverVars, clientVars
  <2>2. QED
    BY <1>3, <2>1, acceptPacket_Converges
<1>4. ASSUME NEW c \in Clients, ClientConnects(c) \/ ClientDisconnects(c) \/ ClientReads(c)
      PROVE  Converging'
  BY <1>4, ClientConnects_Converges, ClientDisconnects_Converges, ClientReads_Converges
<1>5. CASE ServerRestarts
  BY <1>5 DEF ServerRestarts, Converging
<1>6. QED
  BY <1>2, <1>3, <1>4, <1>5 DEF Next

LEMMA ConvergingIsEnough == ASSUME ServerTypes, Converging PROVE ClientsConverge
<1> SUFFICES ASSUME NEW c \in connected
             PROVE  LET held[n \in 0 .. Len(inbox[c])] ==
                          IF n = 0 THEN view[c] ELSE Apply(held[n - 1], inbox[c][n])
                    IN UpToDate(held[Len(inbox[c])])
  BY DEF ClientsConverge, UpToDate
<1> DEFINE N == Len(inbox[c])
           held[n \in 0 .. N] == IF n = 0 THEN view[c] ELSE Apply(held[n - 1], inbox[c][n])
<1>1. Len(inbox[c]) \in Nat /\ N \in 0 .. Len(inbox[c])
  BY DEF ServerTypes
<1>2. \E f : f = [n \in 0 .. N |-> IF n = 0 THEN view[c] ELSE Apply(f[n - 1], inbox[c][n])]
  <2>1. PICK f : Computed(view[c], inbox[c], N, f)
    BY <1>1, ReadingsExist
  <2>2. QED
    BY <2>1 DEF Computed
<1>3. held = [n \in 0 .. N |-> IF n = 0 THEN view[c] ELSE Apply(held[n - 1], inbox[c][n])]
  BY <1>2
<1> HIDE DEF held
<1>4. /\ held[0] = view[c]
      /\ \A n \in 1 .. N : held[n] = Apply(held[n - 1], inbox[c][n])
  BY <1>1, <1>3
<1>5. Readings(c, held)
  BY <1>4 DEF Readings
<1>6. UpToDate(held[N])
  BY <1>5 DEF Converging
<1>7. QED
  BY <1>6 DEF held

(***************************************************************************)
(* Whatever a client has read, the messages on the way to it lead to the   *)
(* server's history and counts.                                            *)
(***************************************************************************)
THEOREM ServerClientsConverge == Spec => []ClientsConverge
<1>1. Init => ServerTypes /\ Converging
  BY Init_Types DEF Init, Converging
<1>2. ServerTypes /\ Converging /\ [Next]_vars => (ServerTypes /\ Converging)'
  BY Next_Types, Next_Converges
<1>3. ServerTypes /\ Converging => ClientsConverge
  BY ConvergingIsEnough
<1>4. QED
  BY <1>1, <1>2, <1>3, PTL DEF Spec
=============================================================================
